--------------------------- MODULE CoroutinesProofs ---------------------------
(***************************************************************************)
(* The coroutine layer runs any plain program on any set of objects: it    *)
(* never jumps into a stale context and never overwrites a live one, its   *)
(* globals name what they should, and the stacks behave as the components  *)
(* of Simula.                                                              *)
(*                                                                         *)
(* The stacks of a component form a path: each is attached to the one      *)
(* before, the first is the head, and the last is where the component goes *)
(* on.  The invariant says so with two functions, the head of each stack's *)
(* component and the stack's place on the path, and what is saved where    *)
(* follows from the two.                                                   *)
(***************************************************************************)
EXTENDS CoroutinePrograms, WellFoundedInduction, TLAPS

CallerCtx(c) == <<"caller_ctx", c>>
Context(c)   == <<"context", c>>

\* The last stack of its component.
IsTip(head, depth, s) == \A x \in Stack : head[x] = head[s] => depth[x] <= depth[s]

\* The main program's component is suspended, and would go on at slot.
MainWaitsAt(head, slot) == head[on] # NULL /\ main_react = slot

\* Paths of attached stacks.
Paths(head, depth) ==
    /\ \A s \in Stack : head[head[s]] = head[s]
    /\ \A s \in Stack : depth[s] = 0 <=> head[s] = s
    /\ \A s, x \in Stack : head[s] = head[x] /\ depth[s] = depth[x] => s = x
    /\ \A c \in Coro : depth[c] > 0 => \E s \in Stack : saved[s] = CallerCtx(c)
    /\ \A c \in Coro, s \in Stack :
          saved[s] = CallerCtx(c) => head[c] = head[s] /\ depth[c] = depth[s] + 1
    /\ head[NULL] = NULL

\* The operating stack and the globals.
Operating(head, depth) ==
    /\ saved[on] = NoSlot
    /\ current = on
    /\ chain_head = head[on]
    /\ IsTip(head, depth, on)
    /\ on # NULL => state[on] = "running"
    /\ head[on] # NULL => state[head[on]] = "running"

\* The suspended stacks.
Places(head, depth) ==
    /\ \A s \in Stack : saved[s] # Lost
    /\ \A s, x \in Stack : saved[s] \in Slot /\ saved[s] = saved[x] => s = x
    /\ saved[NULL] = NoSlot => on = NULL
    /\ \A s \in Stack : saved[s] = MainResumeCtx => s = NULL /\ MainWaitsAt(head, MainResumeCtx)
    /\ \A s \in Stack, c \in Coro :
          saved[s] = Context(c) =>
             /\ IsTip(head, depth, s)
             /\ head[s] # head[on]
             /\ IF MainWaitsAt(head, Context(c))
                  THEN s = c /\ head[s] = NULL /\ state[c] = "running"
                  ELSE head[s] = c /\ state[c] = "detached"
    /\ head[on] # NULL =>
          \E s \in Stack : /\ saved[s] = main_react /\ head[s] = NULL
                           /\ main_react \in {MainResumeCtx} \cup {Context(c) : c \in Coro}
                           /\ IsTip(head, depth, s)

\* What each suspended stack assigns back.
Frames(head, depth) ==
    \A s \in Stack : saved[s] \in Slot =>
        IF frame[s].restores
          THEN frame[s].prev = s /\ frame[s].prev_head = head[s]
          ELSE s # NULL /\ saved[s] = Context(s) /\ state[s] = "detached"

\* The objects' state and via_resume.
Objects(head, depth) ==
    /\ \A c \in Coro : depth[c] > 0 => state[c] = "running"
    /\ \A c \in Coro : state[c] = "running" => (via_resume[c] <=> depth[c] = 0)
    /\ \A c \in Coro : state[c] \in {"new", "terminated"} =>
          /\ saved[c] = NoSlot
          /\ \A s \in Stack : head[s] = c => s = c
    /\ \A c \in Coro : state[c] = "detached" => \E s \in Stack : saved[s] = Context(c)

Shape(head, depth) ==
    /\ Paths(head, depth)
    /\ Operating(head, depth)
    /\ Places(head, depth)
    /\ Frames(head, depth)
    /\ Objects(head, depth)

IInv ==
    /\ TypeOK
    /\ status # "stale jump"
    /\ \E head \in [Stack -> Stack], depth \in [Stack -> Nat] : Shape(head, depth)

-----------------------------------------------------------------------------
(* Places and switches.                                                    *)

LEMMA SlotFacts ==
    /\ Slot = {Context(c) : c \in Coro} \cup {CallerCtx(c) : c \in Coro} \cup {MainResumeCtx}
    /\ \A c, x : /\ Context(c) # CallerCtx(x)
                 /\ Context(c) # MainResumeCtx
                 /\ CallerCtx(c) # MainResumeCtx
                 /\ Context(c) = Context(x) => c = x
                 /\ CallerCtx(c) = CallerCtx(x) => c = x
    /\ NoSlot \notin Slot /\ Lost \notin Slot /\ Lost # NoSlot
    /\ NULL \notin Coro /\ NULL \in Stack /\ Stack = Coro \cup {NULL}
    /\ NoSlot \notin Stack
BY CoroutinesAssumption DEF Slot, Stack, Context, CallerCtx, MainResumeCtx

\* Saving in an unused place.
LEMMA SavedInUnused ==
    ASSUME TypeOK, NEW slot \in Slot, \A s \in Stack : saved[s] # slot
    PROVE  SavedIn(slot) = [saved EXCEPT ![on] = slot]
BY DEF SavedIn, TypeOK

\* Going on at a place where one stack is saved.
LEMMA GoToStack ==
    ASSUME NEW slot \in Slot, NEW places, NEW now, NEW top, NEW s \in Stack,
           places[s] = slot, \A x \in Stack : places[x] = slot => x = s,
           GoTo(slot, places, now, top)
    PROVE  /\ on' = s
           /\ saved' = [places EXCEPT ![s] = NoSlot]
           /\ current' = IF frame'[s].restores THEN frame'[s].prev ELSE now
           /\ chain_head' = IF frame'[s].restores THEN frame'[s].prev_head ELSE top
           /\ UNCHANGED status
<1>1. s = CHOOSE x \in Stack : places[x] = slot
  OBVIOUS
<1> QED
  BY <1>1 DEF GoTo

-----------------------------------------------------------------------------
(* Invariance.                                                             *)

LEMMA InitIInv == Init => IInv
<1> SUFFICES ASSUME Init PROVE IInv
  OBVIOUS
<1> USE SlotFacts DEF Init
<1>1. TypeOK
  BY DEF TypeOK, DetachFrame, Frame
<1>2. PICK head \in [Stack -> Stack] : \A s \in Stack : head[s] = s
  <2>1. [s \in Stack |-> s] \in [Stack -> Stack]
    OBVIOUS
  <2> QED
    BY <2>1
<1>3. PICK depth \in [Stack -> Nat] : \A s \in Stack : depth[s] = 0
  <2>1. [s \in Stack |-> 0] \in [Stack -> Nat]
    OBVIOUS
  <2> QED
    BY <2>1
<1>4. Paths(head, depth)
  BY <1>2, <1>3 DEF Paths
<1>5. Operating(head, depth)
  BY <1>2, <1>3 DEF Operating, IsTip
<1>6. Places(head, depth)
  BY <1>2, <1>3 DEF Places
<1>7. Frames(head, depth)
  BY DEF Frames
<1>8. Objects(head, depth)
  BY <1>2, <1>3 DEF Objects
<1> QED
  BY <1>1, <1>4, <1>5, <1>6, <1>7, <1>8 DEF IInv, Shape

\* What start, resume and call leave behind on the operating stack.
Transferred(head) == [restores |-> TRUE, prev |-> on, prev_head |-> head[on]]

LEMMA TransferFrameIs ==
    ASSUME NEW head, NEW depth, Shape(head, depth)
    PROVE  TransferFrame = Transferred(head)
BY DEF TransferFrame, Transferred, Shape, Operating

\* A place nobody can be saved in: the one of an object's caller while it is the
\* head of a component, that of the operating head, and that of a component
\* which is not detached.
LEMMA Unused ==
    ASSUME TypeOK, NEW head \in [Stack -> Stack], NEW depth \in [Stack -> Nat],
           Shape(head, depth)
    PROVE  /\ \A c \in Coro, s \in Stack : depth[c] = 0 => saved[s] # CallerCtx(c)
           /\ on # NULL => \A s \in Stack : saved[s] # Context(on)
           /\ head[on] # NULL => \A s \in Stack : saved[s] # Context(head[on])
           /\ on = NULL => \A s \in Stack : saved[s] # MainResumeCtx
<1> USE SlotFacts
<1>1. ASSUME NEW c \in Coro, NEW s \in Stack, depth[c] = 0, saved[s] = CallerCtx(c)
      PROVE  FALSE
  BY <1>1 DEF Shape, Paths
<1>2. ASSUME on # NULL, NEW s \in Stack, saved[s] = Context(on)
      PROVE  FALSE
  BY <1>2, ZenonT(30) DEF Shape, Places, Operating, TypeOK
<1>3. ASSUME head[on] # NULL, NEW s \in Stack, saved[s] = Context(head[on])
      PROVE  FALSE
  <2>1. head[on] \in Coro /\ head[head[on]] = head[on] /\ state[head[on]] = "running"
    BY <1>3 DEF Shape, Paths, Operating, TypeOK
  <2> QED
    BY <1>3, <2>1 DEF Shape, Places
<1>4. ASSUME on = NULL, NEW s \in Stack, saved[s] = MainResumeCtx
      PROVE  FALSE
  BY <1>4 DEF Shape, Places, Operating
<1> QED
  BY <1>1, <1>2, <1>3, <1>4

\* c becomes a part of the operating component, attached to the operating stack.
Attached(c, head, depth) ==
    /\ c # on /\ state[c] \in {"new", "detached"}
    /\ head[c] = c /\ depth[c] = 0 /\ \A x \in Stack : head[x] = c => x = c
    /\ saved[c] \in {NoSlot, Context(c)} /\ \A x \in Stack : saved[x] = Context(c) => x = c
    /\ state' = [state EXCEPT ![c] = "running"]
    /\ via_resume' = [via_resume EXCEPT ![c] = FALSE]
    /\ main_react' = IF on = NULL THEN CallerCtx(c) ELSE main_react
    /\ frame' = [frame EXCEPT ![on] = Transferred(head)]
    /\ saved' = [saved EXCEPT ![on] = CallerCtx(c), ![c] = NoSlot]
    /\ on' = c /\ current' = c /\ chain_head' = head[on] /\ status' = status

\* NEW attaches the object to its creator.
LEMMA NewEffect ==
    ASSUME TypeOK, NEW head \in [Stack -> Stack], NEW depth \in [Stack -> Nat],
           Shape(head, depth), NEW c \in Coro, New(c)
    PROVE  Attached(c, head, depth)
<1>1. state[c] = "new"
  BY DEF New
<1>2. c # on /\ current = on /\ chain_head = head[on]
  BY <1>1, SlotFacts DEF Shape, Operating
<1>3. depth[c] = 0
  <2>1. depth[c] \in Nat /\ ~ depth[c] > 0
    BY <1>1, SlotFacts DEF Shape, Objects
  <2> QED
    BY <2>1
<1>4. head[c] = c /\ saved[c] = NoSlot /\ \A x \in Stack : head[x] = c => x = c
  BY <1>1, <1>3, SlotFacts DEF Shape, Objects, Paths
<1>5. \A s \in Stack : saved[s] # CallerCtx(c)
  BY <1>3, Unused
<1>6. SavedIn(CallerCtx(c)) = [saved EXCEPT ![on] = CallerCtx(c)]
  BY <1>5, SavedInUnused, SlotFacts
<1>7. \A s \in Stack : saved[s] # Context(c)
  BY <1>1, <1>4, SlotFacts DEF Shape, Places
<1>8. saved' = [saved EXCEPT ![on] = CallerCtx(c), ![c] = NoSlot]
  BY <1>2, <1>4, <1>6 DEF New, CallerCtx, TypeOK
<1> QED
  BY <1>1, <1>2, <1>3, <1>4, <1>7, <1>8, TransferFrameIs DEF New, CallerCtx, Attached

\* CALL attaches the object that a DETACH suspended to the caller.
LEMMA CallEffect ==
    ASSUME TypeOK, NEW head \in [Stack -> Stack], NEW depth \in [Stack -> Nat],
           Shape(head, depth), NEW c \in Coro, PlainCall(c)
    PROVE  Attached(c, head, depth)
<1> USE SlotFacts
<1>1. state[c] = "detached"
  BY DEF PlainCall, Call, Transferable
<1>2. PICK s \in Stack : saved[s] = Context(c)
  BY <1>1 DEF Shape, Objects
<1>3. \A x \in Stack : saved[x] = Context(c) => x = s
  BY <1>2 DEF Shape, Places
<1>4. s = c /\ ~ frame[c].restores
  <2>1. StackIn(Context(c)) = s
    BY <1>2, <1>3 DEF StackIn
  <2>2. ~ frame[s].restores
    BY <2>1 DEF PlainCall, SuspendedByDetach, Context
  <2> QED
    BY <2>2, <1>2 DEF Shape, Frames
<1>5. c # on /\ current = on /\ chain_head = head[on]
  BY <1>2, <1>4 DEF Shape, Operating
<1>6. head[c] = c /\ IsTip(head, depth, c)
  BY <1>1, <1>2, <1>4 DEF Shape, Places
<1>7. depth[c] = 0 /\ \A x \in Stack : head[x] = c => x = c
  BY <1>6 DEF Shape, Paths, IsTip
<1>8. \A x \in Stack : saved[x] # CallerCtx(c)
  BY <1>7, Unused
<1>9. SavedIn(CallerCtx(c)) = [saved EXCEPT ![on] = CallerCtx(c)]
  BY <1>8, SavedInUnused
<1>10. /\ frame' = [frame EXCEPT ![on] = TransferFrame]
       /\ GoTo(Context(c), SavedIn(CallerCtx(c)), c, chain_head)
       /\ state' = [state EXCEPT ![c] = "running"]
       /\ via_resume' = [via_resume EXCEPT ![c] = FALSE]
       /\ main_react' = IF current = NULL THEN CallerCtx(c) ELSE main_react
  BY DEF PlainCall, Call, Swap, Context, CallerCtx
<1>11. ~ frame'[c].restores
  BY <1>4, <1>5, <1>10 DEF TypeOK
<1>12. /\ SavedIn(CallerCtx(c))[c] = Context(c)
       /\ \A x \in Stack : SavedIn(CallerCtx(c))[x] = Context(c) => x = c
  BY <1>2, <1>3, <1>4, <1>5, <1>9 DEF TypeOK
<1>13. /\ on' = c /\ current' = c /\ chain_head' = head[on] /\ status' = status
       /\ saved' = [SavedIn(CallerCtx(c)) EXCEPT ![c] = NoSlot]
  BY <1>5, <1>10, <1>11, <1>12, GoToStack
<1>14. saved' = [saved EXCEPT ![on] = CallerCtx(c), ![c] = NoSlot]
  BY <1>9, <1>13
<1> QED
  BY <1>1, <1>2, <1>3, <1>4, <1>5, <1>6, <1>7, <1>10, <1>13, <1>14, TransferFrameIs DEF Attached

\* The depths when c is attached to s.
LEMMA Below ==
    ASSUME NEW depth \in [Stack -> Nat], NEW c \in Stack, NEW s \in Stack
    PROVE  \E d2 \in [Stack -> Nat] :
              \A x \in Stack : d2[x] = IF x = c THEN depth[s] + 1 ELSE depth[x]
<1>1. depth[s] \in Nat
  OBVIOUS
<1>2. PICK n \in Nat : n = depth[s] + 1
  <2> DEFINE m == depth[s]
  <2>1. m \in Nat
    BY <1>1
  <2> HIDE DEF m
  <2>2. m + 1 \in Nat
    BY <2>1
  <2> WITNESS m + 1 \in Nat
  <2> QED
    BY DEF m
<1>3. [depth EXCEPT ![c] = n] \in [Stack -> Nat]
  OBVIOUS
<1> QED
  BY <1>2, <1>3

LEMMA AttachedInvariance ==
    ASSUME TypeOK, NEW head \in [Stack -> Stack], NEW depth \in [Stack -> Nat],
           Shape(head, depth), NEW c \in Coro, Attached(c, head, depth)
    PROVE  /\ TypeOK' /\ status' = status
           /\ \E h2 \in [Stack -> Stack], d2 \in [Stack -> Nat] : Shape(h2, d2)'
<1> USE SlotFacts
<1>e. /\ c # on
      /\ state' = [state EXCEPT ![c] = "running"]
      /\ via_resume' = [via_resume EXCEPT ![c] = FALSE]
      /\ main_react' = IF on = NULL THEN CallerCtx(c) ELSE main_react
      /\ frame' = [frame EXCEPT ![on] = Transferred(head)]
      /\ saved' = [saved EXCEPT ![on] = CallerCtx(c), ![c] = NoSlot]
      /\ on' = c /\ current' = c /\ chain_head' = head[on] /\ status' = status
  BY DEF Attached
<1>c. /\ head[c] = c /\ depth[c] = 0 /\ (\A x \in Stack : head[x] = c => x = c)
      /\ saved[c] \in {NoSlot, Context(c)} /\ (\A x \in Stack : saved[x] = Context(c) => x = c)
      /\ \A x \in Stack : saved[x] # CallerCtx(c)
  BY Unused DEF Attached
<1>t. TypeOK'
  BY <1>e, ZenonT(30) DEF TypeOK, Frame, Transferred
<1>h. PICK h2 \in [Stack -> Stack] : \A x \in Stack : h2[x] = IF x = c THEN head[on] ELSE head[x]
  <2>1. [head EXCEPT ![c] = head[on]] \in [Stack -> Stack]
    BY DEF TypeOK
  <2> QED
    BY <2>1
<1>d. PICK d2 \in [Stack -> Nat] : \A x \in Stack : d2[x] = IF x = c THEN depth[on] + 1 ELSE depth[x]
  <2>1. on \in Stack /\ c \in Stack
    BY DEF TypeOK
  <2> QED
    BY ONLY <2>1, Below, depth \in [Stack -> Nat], Zenon
<1>o. /\ on \in Stack /\ saved[on] = NoSlot /\ IsTip(head, depth, on)
      /\ on # NULL => state[on] = "running"
      /\ head[on] # NULL => state[head[on]] = "running"
  BY DEF Shape, Operating, TypeOK
<1>s. \A x \in Stack : saved'[x] = IF x = on THEN CallerCtx(c)
                                ELSE IF x = c THEN NoSlot ELSE saved[x]
  BY <1>e DEF TypeOK
<1>1. Paths(h2, d2)'
  <2>1. \A s \in Stack : h2[h2[s]] = h2[s]
    BY <1>h, <1>o, <1>c, <1>e DEF Shape, Paths
  <2>2. \A s \in Stack : d2[s] = 0 <=> h2[s] = s
    BY <1>h, <1>d, <1>o, <1>c, <1>e DEF Shape, Paths
  <2>3. \A s, x \in Stack : h2[s] = h2[x] /\ d2[s] = d2[x] => s = x
    BY <1>h, <1>d, <1>o, <1>c, <1>e DEF Shape, Paths, IsTip
  <2>4. \A x \in Coro : d2[x] > 0 => \E s \in Stack : saved'[s] = CallerCtx(x)
    <3> SUFFICES ASSUME NEW x \in Coro, d2[x] > 0
                 PROVE  \E s \in Stack : saved'[s] = CallerCtx(x)
      OBVIOUS
    <3>1. CASE x = c
      BY <3>1, <1>s, <1>o
    <3>2. CASE x # c
      <4>1. PICK s \in Stack : saved[s] = CallerCtx(x)
        BY <3>2, <1>d DEF Shape, Paths
      <4> QED
        BY <4>1, <1>s, <1>o, <1>c
    <3> QED
      BY <3>1, <3>2
  <2>5. \A x \in Coro, s \in Stack :
           saved'[s] = CallerCtx(x) => h2[x] = h2[s] /\ d2[x] = d2[s] + 1
    BY <1>s, <1>h, <1>d, <1>o, <1>c, <1>e DEF Shape, Paths
  <2>6. h2[NULL] = NULL
    BY <1>h DEF Shape, Paths
  <2> QED
    BY <2>1, <2>2, <2>3, <2>4, <2>5, <2>6 DEF Paths
<1>2. Operating(h2, d2)'
  <2>1. IsTip(h2, d2, c)
    BY <1>h, <1>d, <1>o, <1>c, <1>e DEF IsTip
  <2> QED
    BY <2>1, <1>e, <1>s, <1>h, <1>o, <1>c DEF Operating, IsTip, TypeOK
<1>3. Places(h2, d2)'
  <2>0. h2[c] = head[on]
    BY <1>h
  <2>1. \A s \in Stack : saved'[s] # Lost
    BY <1>s DEF Shape, Places
  <2>2. \A s, x \in Stack : saved'[s] \in Slot /\ saved'[s] = saved'[x] => s = x
    BY <1>s, <1>c DEF Shape, Places
  <2>3. saved'[NULL] = NoSlot => on' = NULL
    BY <1>s DEF Shape, Places
  <2>4. ASSUME NEW s \in Stack, saved'[s] = MainResumeCtx
        PROVE  s = NULL /\ h2[on'] # NULL /\ main_react' = MainResumeCtx
    <3>1. saved[s] = MainResumeCtx
      BY <2>4, <1>s
    <3>2. s = NULL /\ head[on] # NULL /\ main_react = MainResumeCtx
      BY <3>1 DEF Shape, Places, MainWaitsAt
    <3>3. on # NULL
      BY <3>2 DEF Shape, Paths
    <3> QED
      BY <3>2, <3>3, <2>0, <1>e
  <2>5. ASSUME NEW s \in Stack, NEW x \in Coro, saved'[s] = Context(x)
        PROVE  /\ IsTip(h2, d2, s)
               /\ h2[s] # h2[on']
               /\ IF h2[on'] # NULL /\ main_react' = Context(x)
                    THEN s = x /\ h2[s] = NULL /\ state'[x] = "running"
                    ELSE h2[s] = x /\ state'[x] = "detached"
    <3>1. s # on /\ s # c /\ saved[s] = Context(x)
      BY <2>5, <1>s
    <3>2. s # c /\ h2[s] = head[s] /\ h2[on'] = head[on] /\ head[s] # head[on]
      BY <3>1, <1>c, <1>h, <1>e DEF Shape, Places
    <3>3. IsTip(head, depth, s)
      BY <3>1 DEF Shape, Places
    <3>4. IsTip(h2, d2, s)
      BY <3>2, <3>3, <1>h, <1>d DEF IsTip
    <3>5. head[on] # NULL => main_react' = main_react
      BY <1>e DEF Shape, Paths
    <3>6. /\ IF head[on] # NULL /\ main_react = Context(x)
               THEN s = x /\ head[s] = NULL /\ state[x] = "running"
               ELSE head[s] = x /\ state[x] = "detached"
      BY <3>1 DEF Shape, Places, MainWaitsAt
    <3>7. x # c
      BY <3>1, <1>c
    <3>8. state'[x] = state[x]
      BY <3>7, <1>e DEF TypeOK
    <3> QED
      BY <3>2, <3>4, <3>5, <3>6, <3>8
  <2>6. ASSUME h2[on'] # NULL
        PROVE  \E s \in Stack : /\ saved'[s] = main_react' /\ h2[s] = NULL
                                /\ main_react' \in {MainResumeCtx} \cup {Context(x) : x \in Coro}
                                /\ IsTip(h2, d2, s)
    <3>1. head[on] # NULL /\ on # NULL /\ main_react' = main_react
      BY <2>6, <2>0, <1>e DEF Shape, Paths
    <3>2. PICK s \in Stack : /\ saved[s] = main_react /\ head[s] = NULL
                             /\ main_react \in {MainResumeCtx} \cup {Context(x) : x \in Coro}
                             /\ IsTip(head, depth, s)
      BY <3>1 DEF Shape, Places
    <3>3. s # on /\ s # c
      BY <3>1, <3>2, <1>c
    <3>4. IsTip(h2, d2, s)
      BY <3>1, <3>2, <3>3, <1>h, <1>d DEF IsTip
    <3> QED
      BY <3>1, <3>2, <3>3, <3>4, <1>s, <1>h
  <2> QED
    BY <2>1, <2>2, <2>3, <2>4, <2>5, <2>6 DEF Places, MainWaitsAt, IsTip
<1>4. Frames(h2, d2)'
  <2> SUFFICES ASSUME NEW s \in Stack, saved'[s] \in Slot
               PROVE  IF frame'[s].restores
                        THEN frame'[s].prev = s /\ frame'[s].prev_head = h2[s]
                        ELSE s # NULL /\ saved'[s] = Context(s) /\ state'[s] = "detached"
    BY DEF Frames
  <2>1. CASE s = on
    BY <2>1, <1>e, <1>h, <1>o DEF TypeOK, Transferred
  <2>2. CASE s # on
    <3>1. saved[s] \in Slot /\ saved'[s] = saved[s] /\ frame'[s] = frame[s] /\ s # c
      BY <2>2, <1>s, <1>e, <1>c DEF TypeOK
    <3>2. h2[s] = head[s] /\ (s # NULL => state'[s] = state[s])
      BY <3>1, <1>h, <1>e DEF TypeOK
    <3> QED
      BY <3>1, <3>2 DEF Shape, Frames
  <2> QED
    BY <2>1, <2>2
<1>5. Objects(h2, d2)'
  <2>0. /\ \A x \in Coro : state'[x] = IF x = c THEN "running" ELSE state[x]
        /\ \A x \in Coro : via_resume'[x] = IF x = c THEN FALSE ELSE via_resume[x]
    BY <1>e DEF TypeOK
  <2>1. \A x \in Coro : d2[x] > 0 => state'[x] = "running"
    BY <2>0, <1>d DEF Shape, Objects
  <2>2. ASSUME NEW x \in Coro, state'[x] = "running"
        PROVE  via_resume'[x] <=> d2[x] = 0
    <3>1. CASE x = c
      <4>1. d2[c] # 0
        BY <1>d, <1>o
      <4>2. ~ via_resume'[c]
        BY <2>0
      <4> QED
        BY <3>1, <4>1, <4>2
    <3>2. CASE x # c
      <4>1. state[x] = "running" /\ via_resume'[x] = via_resume[x] /\ d2[x] = depth[x]
        BY <3>2, <2>2, <2>0, <1>d
      <4>2. via_resume[x] <=> depth[x] = 0
        BY <4>1 DEF Shape, Objects
      <4> QED
        BY <4>1, <4>2
    <3> QED
      BY <3>1, <3>2
  <2>3. ASSUME NEW x \in Coro, state'[x] \in {"new", "terminated"}
        PROVE  saved'[x] = NoSlot /\ \A s \in Stack : h2[s] = x => s = x
    <3>1. x # c /\ state[x] \in {"new", "terminated"}
      BY <2>3, <2>0
    <3>2. x # on /\ head[on] # x
      BY <3>1, <1>o
    <3>3. saved[x] = NoSlot /\ \A s \in Stack : head[s] = x => s = x
      BY <3>1 DEF Shape, Objects
    <3> QED
      BY <3>1, <3>2, <3>3, <1>s, <1>h
  <2>4. \A x \in Coro : state'[x] = "detached" => \E s \in Stack : saved'[s] = Context(x)
    <3> SUFFICES ASSUME NEW x \in Coro, state'[x] = "detached"
                 PROVE  \E s \in Stack : saved'[s] = Context(x)
      OBVIOUS
    <3>1. PICK s \in Stack : saved[s] = Context(x)
      BY <2>0 DEF Shape, Objects
    <3>2. x # c
      BY <1>e DEF TypeOK
    <3> QED
      BY <3>1, <3>2, <1>s, <1>o, <1>c
  <2> QED
    BY <2>1, <2>2, <2>3, <2>4 DEF Objects
<1> QED
  BY <1>e, <1>t, <1>1, <1>2, <1>3, <1>4, <1>5 DEF Shape

\* The operating object leaves, and s goes on: the stack it is attached to, or
\* the innermost one of the main program's component.
Left(c, left, s, head, depth) ==
    /\ c = on /\ s # c
    /\ IF depth[c] > 0 THEN saved[s] = CallerCtx(c)
       ELSE /\ saved[s] = main_react /\ head[s] = NULL /\ IsTip(head, depth, s)
            /\ main_react \in {MainResumeCtx} \cup {Context(x) : x \in Coro}
    /\ state' = [state EXCEPT ![c] = left]
    /\ frame' = IF left = "detached" THEN [frame EXCEPT ![c] = DetachFrame] ELSE frame
    /\ saved' = [saved EXCEPT ![c] = IF left = "detached" THEN Context(c) ELSE NoSlot,
                              ![s] = NoSlot]
    /\ on' = s /\ current' = s /\ chain_head' = head[s]
    /\ via_resume' = via_resume /\ main_react' = main_react /\ status' = status

\* s goes on when c leaves.
ExitsTo(c, s, head, depth) ==
    /\ s # c /\ saved[s] = ExitOf(c) /\ ExitOf(c) \in Slot
    /\ \A x \in Stack : saved[x] = ExitOf(c) => x = s
    /\ frame[s].restores /\ frame[s].prev = s /\ frame[s].prev_head = head[s]
    /\ IF depth[c] > 0 THEN saved[s] = CallerCtx(c)
       ELSE /\ saved[s] = main_react /\ head[s] = NULL /\ IsTip(head, depth, s)
            /\ main_react \in {MainResumeCtx} \cup {Context(x) : x \in Coro}

\* Where the operating object goes when it leaves.
LEMMA Exit ==
    ASSUME TypeOK, NEW head \in [Stack -> Stack], NEW depth \in [Stack -> Nat],
           Shape(head, depth), NEW c \in Coro, c = on
    PROVE  \E s \in Stack : ExitsTo(c, s, head, depth)
<1> USE SlotFacts
<1>1. state[c] = "running" /\ saved[c] = NoSlot /\ (via_resume[c] <=> depth[c] = 0)
  BY DEF Shape, Operating, Objects
<1>2. CASE depth[c] > 0
  <2>1. ExitOf(c) = CallerCtx(c)
    BY <1>1, <1>2 DEF ExitOf, CallerCtx
  <2>2. PICK s \in Stack : saved[s] = CallerCtx(c)
    BY <1>2 DEF Shape, Paths
  <2>3. \A x \in Stack : saved[x] = CallerCtx(c) => x = s
    BY <2>2 DEF Shape, Places
  <2>4. frame[s].restores /\ frame[s].prev = s /\ frame[s].prev_head = head[s]
    BY <2>2 DEF Shape, Frames
  <2> QED
    BY <1>1, <1>2, <2>1, <2>2, <2>3, <2>4 DEF ExitsTo
<1>3. CASE ~ depth[c] > 0
  <2>1. depth[c] = 0 /\ head[c] = c
    BY <1>3 DEF Shape, Paths
  <2>2. PICK s \in Stack : /\ saved[s] = main_react /\ head[s] = NULL
                           /\ main_react \in {MainResumeCtx} \cup {Context(x) : x \in Coro}
                           /\ IsTip(head, depth, s)
    BY <2>1 DEF Shape, Places
  <2>3. main_react \in Slot
    BY <2>2
  <2>4. ExitOf(c) = main_react
    BY <1>1, <2>1, <2>3 DEF ExitOf
  <2>5. \A x \in Stack : saved[x] = main_react => x = s
    BY <2>2, <2>3 DEF Shape, Places
  <2>6. frame[s].restores
    <3>1. SUFFICES ASSUME ~ frame[s].restores PROVE FALSE
      OBVIOUS
    <3>2. s \in Coro /\ saved[s] = Context(s) /\ state[s] = "detached"
      BY <3>1, <2>2, <2>3 DEF Shape, Frames
    <3>3. MainWaitsAt(head, Context(s))
      BY <2>1, <2>2, <3>2 DEF MainWaitsAt
    <3>4. state[s] = "running"
      BY <3>2, <3>3 DEF Shape, Places
    <3> QED
      BY <3>2, <3>4
  <2>7. frame[s].prev = s /\ frame[s].prev_head = head[s]
    BY <2>2, <2>3, <2>6 DEF Shape, Frames
  <2> QED
    BY <1>1, <1>3, <2>2, <2>3, <2>4, <2>5, <2>6, <2>7 DEF ExitsTo
<1> QED
  BY <1>2, <1>3

LEMMA DetachEffect ==
    ASSUME TypeOK, NEW head \in [Stack -> Stack], NEW depth \in [Stack -> Nat],
           Shape(head, depth), NEW c \in Coro, OwnDetach(c)
    PROVE  \E s \in Stack : Left(c, "detached", s, head, depth)
<1> USE SlotFacts
<1>1. /\ c = on
      /\ state' = [state EXCEPT ![c] = "detached"]
      /\ frame' = [frame EXCEPT ![on] = DetachFrame]
      /\ GoTo(ExitOf(c), SavedIn(Context(c)), current, chain_head)
      /\ via_resume' = via_resume /\ main_react' = main_react
  BY DEF OwnDetach, Detach, Swap, Context
<1>2. PICK s \in Stack : ExitsTo(c, s, head, depth)
  BY <1>1, Exit
<1>3. \A x \in Stack : saved[x] # Context(c)
  BY <1>1, Unused
<1>4. SavedIn(Context(c)) = [saved EXCEPT ![c] = Context(c)]
  BY <1>1, <1>3, SavedInUnused
<1>5. /\ SavedIn(Context(c))[s] = ExitOf(c)
      /\ \A x \in Stack : SavedIn(Context(c))[x] = ExitOf(c) => x = s
  BY <1>2, <1>3, <1>4 DEF TypeOK, ExitsTo
<1>6. frame'[s] = frame[s]
  BY <1>1, <1>2 DEF TypeOK, ExitsTo
<1>7. /\ on' = s /\ current' = s /\ chain_head' = head[s] /\ status' = status
      /\ saved' = [saved EXCEPT ![c] = Context(c), ![s] = NoSlot]
  <2>1. s = CHOOSE x \in Stack : SavedIn(Context(c))[x] = ExitOf(c)
    BY <1>5
  <2>2. /\ on' = s
        /\ saved' = [SavedIn(Context(c)) EXCEPT ![s] = NoSlot]
        /\ current' = IF frame'[s].restores THEN frame'[s].prev ELSE current
        /\ chain_head' = IF frame'[s].restores THEN frame'[s].prev_head ELSE chain_head
        /\ UNCHANGED status
    BY <1>1, <1>5, <2>1 DEF GoTo
  <2>3. saved' = [saved EXCEPT ![c] = Context(c), ![s] = NoSlot]
    BY <1>4, <2>2
  <2> QED
    BY <2>2, <2>3, <1>2, <1>6 DEF ExitsTo
<1> QED
  BY <1>1, <1>2, <1>7 DEF Left, ExitsTo

LEMMA TerminateEffect ==
    ASSUME TypeOK, NEW head \in [Stack -> Stack], NEW depth \in [Stack -> Nat],
           Shape(head, depth), Terminate
    PROVE  on \in Coro /\ \E s \in Stack : Left(on, "terminated", s, head, depth)
<1> USE SlotFacts
<1> DEFINE c == on
<1>1. /\ c \in Coro
      /\ state' = [state EXCEPT ![c] = "terminated"]
      /\ frame' = frame
      /\ GoTo(ExitOf(c), saved, current, chain_head)
      /\ via_resume' = via_resume /\ main_react' = main_react
  BY DEF Terminate, TypeOK
<1>2. PICK s \in Stack : ExitsTo(c, s, head, depth)
  BY <1>1, Exit
<1>3. /\ on' = s /\ current' = s /\ chain_head' = head[s] /\ status' = status
      /\ saved' = [saved EXCEPT ![s] = NoSlot]
  <2>1. PICK exit \in Slot : exit = ExitOf(c)
    BY <1>2 DEF ExitsTo
  <2>2. saved[s] = exit /\ \A x \in Stack : saved[x] = exit => x = s
    BY <1>2, <2>1 DEF ExitsTo
  <2>3. /\ on' = s
        /\ saved' = [saved EXCEPT ![s] = NoSlot]
        /\ current' = IF frame'[s].restores THEN frame'[s].prev ELSE current
        /\ chain_head' = IF frame'[s].restores THEN frame'[s].prev_head ELSE chain_head
        /\ UNCHANGED status
    <3>1. GoTo(exit, saved, current, chain_head)
      BY <1>1, <2>1, ZenonT(30) DEF GoTo
    <3> QED
      BY <3>1, <2>2, GoToStack
  <2> QED
    BY <2>3, <1>1, <1>2 DEF ExitsTo
<1>4. saved' = [saved EXCEPT ![c] = NoSlot, ![s] = NoSlot]
  BY <1>3 DEF Shape, Operating, TypeOK
<1> QED
  BY <1>1, <1>2, <1>3, <1>4 DEF Left, ExitsTo

LEMMA LeftInvariance ==
    ASSUME TypeOK, NEW head \in [Stack -> Stack], NEW depth \in [Stack -> Nat],
           Shape(head, depth), NEW c \in Coro, NEW left \in {"detached", "terminated"},
           NEW s \in Stack, Left(c, left, s, head, depth)
    PROVE  /\ TypeOK' /\ status' = status
           /\ \E h2 \in [Stack -> Stack], d2 \in [Stack -> Nat] : Shape(h2, d2)'
<1> USE SlotFacts
<1>e. /\ c = on /\ s # c
      /\ state' = [state EXCEPT ![c] = left]
      /\ frame' = IF left = "detached" THEN [frame EXCEPT ![c] = DetachFrame] ELSE frame
      /\ saved' = [saved EXCEPT ![c] = IF left = "detached" THEN Context(c) ELSE NoSlot,
                                ![s] = NoSlot]
      /\ on' = s /\ current' = s /\ chain_head' = head[s]
      /\ via_resume' = via_resume /\ main_react' = main_react /\ status' = status
  BY DEF Left
<1>t. TypeOK'
  BY <1>e DEF TypeOK, Frame, DetachFrame
<1>h. PICK h2 \in [Stack -> Stack] : \A x \in Stack : h2[x] = IF x = c THEN c ELSE head[x]
  <2>1. [head EXCEPT ![c] = c] \in [Stack -> Stack]
    OBVIOUS
  <2> QED
    BY <2>1
<1>d. PICK d2 \in [Stack -> Nat] : \A x \in Stack : d2[x] = IF x = c THEN 0 ELSE depth[x]
  <2>1. [depth EXCEPT ![c] = 0] \in [Stack -> Nat]
    OBVIOUS
  <2> QED
    BY <2>1
<1>s. \A x \in Stack : saved'[x] = IF x = s THEN NoSlot
                                ELSE IF x = c
                                  THEN IF left = "detached" THEN Context(c) ELSE NoSlot
                                ELSE saved[x]
  BY <1>e DEF TypeOK
<1>o. saved[c] = NoSlot /\ IsTip(head, depth, c) /\ \A x \in Stack : saved[x] # Context(c)
  BY <1>e, Unused DEF Shape, Operating
\* Nothing is attached to c.
<1>c. \A x \in Stack : head[x] = c => x = c
  BY <1>o DEF Shape, Paths, IsTip
<1>v. saved[s] \in Slot /\ \A x \in Stack : saved[x] = saved[s] => x = s
  BY DEF Left, Shape, Places
<1>a. depth[c] > 0 => saved[s] = CallerCtx(c) /\ head[s] = head[c] /\ depth[c] = depth[s] + 1
  BY DEF Left, Shape, Paths
<1>m. ~ depth[c] > 0 => /\ saved[s] = main_react /\ head[s] = NULL /\ head[c] = c
                        /\ IsTip(head, depth, s)
                        /\ main_react \in {MainResumeCtx} \cup {Context(x) : x \in Coro}
  BY DEF Left, Shape, Paths
<1>i. IsTip(h2, d2, s)
  <2>1. CASE depth[c] > 0
    BY <2>1, <1>a, <1>c, <1>e, <1>h, <1>d, <1>o DEF Shape, Paths, IsTip
  <2>2. CASE ~ depth[c] > 0
    BY <2>2, <1>m, <1>c, <1>e, <1>h, <1>d DEF IsTip
  <2> QED
    BY <2>1, <2>2
<1>1. Paths(h2, d2)'
  <2>1. \A x \in Stack : h2[h2[x]] = h2[x]
    BY <1>h, <1>c DEF Shape, Paths
  <2>2. \A x \in Stack : d2[x] = 0 <=> h2[x] = x
    BY <1>h, <1>d DEF Shape, Paths
  <2>3. \A x, y \in Stack : h2[y] = h2[x] /\ d2[y] = d2[x] => y = x
    BY <1>h, <1>d, <1>c DEF Shape, Paths
  <2>4. \A x \in Coro : d2[x] > 0 => \E y \in Stack : saved'[y] = CallerCtx(x)
    <3> SUFFICES ASSUME NEW x \in Coro, d2[x] > 0
                 PROVE  \E y \in Stack : saved'[y] = CallerCtx(x)
      OBVIOUS
    <3>1. x # c /\ depth[x] > 0
      BY <1>d
    <3>2. PICK y \in Stack : saved[y] = CallerCtx(x)
      BY <3>1 DEF Shape, Paths
    <3>3. y # c /\ y # s
      BY <3>1, <3>2, <1>o, <1>a, <1>m
    <3> QED
      BY <3>2, <3>3, <1>s
  <2>5. ASSUME NEW x \in Coro, NEW y \in Stack, saved'[y] = CallerCtx(x)
        PROVE  h2[x] = h2[y] /\ d2[x] = d2[y] + 1
    <3>1. y # c /\ y # s /\ saved[y] = CallerCtx(x)
      BY <2>5, <1>s
    <3>2. head[x] = head[y] /\ depth[x] = depth[y] + 1
      BY <3>1 DEF Shape, Paths
    <3>3. x # c
      BY <3>1, <3>2, <1>a, <1>v
    <3> QED
      BY <3>1, <3>2, <3>3, <1>h, <1>d
  <2>6. h2[NULL] = NULL
    BY <1>h DEF Shape, Paths
  <2> QED
    BY <2>1, <2>2, <2>3, <2>4, <2>5, <2>6 DEF Paths
<1>2. Operating(h2, d2)'
  <2>1. head[s] # NULL => head[s] = head[on]
    BY <1>a, <1>m, <1>e
  <2>2. s # NULL => state[s] = "running"
    BY <2>1, <1>a, <1>m, <1>e DEF Shape, Operating, Objects, Paths
  <2>3. head[s] # NULL => head[s] # c /\ state[head[s]] = "running"
    BY <2>1, <1>c, <1>e DEF Shape, Operating
  <2> QED
    BY <2>2, <2>3, <1>i, <1>e, <1>s, <1>h, <1>t DEF Operating, IsTip, TypeOK
<1>3. Places(h2, d2)'
  <2>0. h2[s] = head[s] /\ (head[s] # NULL => depth[c] > 0 /\ head[on] = head[s])
    BY <1>h, <1>a, <1>m, <1>e
  <2>1. \A x \in Stack : saved'[x] # Lost
    BY <1>s DEF Shape, Places
  <2>2. \A x, y \in Stack : saved'[y] \in Slot /\ saved'[y] = saved'[x] => y = x
    BY <1>s, <1>o DEF Shape, Places
  <2>3. saved'[NULL] = NoSlot => on' = NULL
    BY <1>s, <1>e DEF Shape, Places
  <2>4. ASSUME NEW y \in Stack, saved'[y] = MainResumeCtx
        PROVE  y = NULL /\ h2[on'] # NULL /\ main_react' = MainResumeCtx
    <3>1. y # s /\ saved[y] = MainResumeCtx
      BY <2>4, <1>s
    <3>2. y = NULL /\ head[on] # NULL /\ main_react = MainResumeCtx
      BY <3>1 DEF Shape, Places, MainWaitsAt
    <3>3. depth[c] > 0
      BY <3>1, <3>2, <1>m, <1>v
    <3> QED
      BY <3>2, <3>3, <2>0, <1>a, <1>e
  <2>5. ASSUME NEW y \in Stack, NEW x \in Coro, saved'[y] = Context(x)
        PROVE  /\ IsTip(h2, d2, y)
               /\ h2[y] # h2[on']
               /\ IF h2[on'] # NULL /\ main_react' = Context(x)
                    THEN y = x /\ h2[y] = NULL /\ state'[x] = "running"
                    ELSE h2[y] = x /\ state'[x] = "detached"
    <3>1. CASE y = c
      <4>1. x = c /\ left = "detached"
        BY <3>1, <2>5, <1>s
      <4>2. IsTip(h2, d2, c) /\ h2[c] = c
        BY <1>h, <1>d, <1>c DEF IsTip
      <4>3. h2[on'] # c
        BY <2>0, <1>c, <1>e
      <4>4. state'[c] = "detached"
        BY <4>1, <1>e DEF TypeOK
      <4>5. ~ (h2[on'] # NULL /\ main_react' = Context(c))
        <5> SUFFICES ASSUME h2[on'] # NULL, main_react = Context(c) PROVE FALSE
          BY <1>e
        <5>1. head[on] # NULL
          BY <2>0, <1>e
        <5>2. \E z \in Stack : saved[z] = main_react
          BY <5>1 DEF Shape, Places
        <5> QED
          BY <5>2, <1>o
      <4> QED
        BY <3>1, <4>1, <4>2, <4>3, <4>4, <4>5
    <3>2. CASE y # c
      <4>1. y # s /\ saved[y] = Context(x) /\ x # c
        BY <3>2, <2>5, <1>s, <1>o
      <4>2. IsTip(h2, d2, y) /\ h2[y] = head[y]
        <5>1. IsTip(head, depth, y)
          BY <4>1 DEF Shape, Places
        <5> QED
          BY <3>2, <5>1, <1>h, <1>d, <1>c DEF IsTip
      <4>3. /\ head[y] # head[on]
            /\ IF head[on] # NULL /\ main_react = Context(x)
                 THEN y = x /\ head[y] = NULL /\ state[x] = "running"
                 ELSE head[y] = x /\ state[x] = "detached"
        BY <4>1 DEF Shape, Places, MainWaitsAt
      <4>4. state'[x] = state[x] /\ main_react' = main_react /\ on' = s
        BY <4>1, <1>e DEF TypeOK
      <4>5. CASE depth[c] > 0
        BY <4>2, <4>3, <4>4, <4>5, <2>0, <1>a, <1>e
      <4>6. CASE ~ depth[c] > 0
        <5>1. main_react # Context(x)
          BY <4>1, <4>6, <1>m, <1>v
        <5> QED
          BY <5>1, <4>2, <4>3, <4>4, <4>6, <2>0, <1>m
      <4> QED
        BY <4>5, <4>6
    <3> QED
      BY <3>1, <3>2
  <2>6. ASSUME h2[on'] # NULL
        PROVE  \E y \in Stack : /\ saved'[y] = main_react' /\ h2[y] = NULL
                                /\ main_react' \in {MainResumeCtx} \cup {Context(x) : x \in Coro}
                                /\ IsTip(h2, d2, y)
    <3>1. head[on] # NULL /\ saved[s] = CallerCtx(c)
      BY <2>6, <2>0, <1>e, <1>a
    <3>2. PICK y \in Stack : /\ saved[y] = main_react /\ head[y] = NULL
                             /\ main_react \in {MainResumeCtx} \cup {Context(x) : x \in Coro}
                             /\ IsTip(head, depth, y)
      BY <3>1 DEF Shape, Places
    <3>3. y # c /\ y # s
      BY <3>1, <3>2, <1>o
    <3>4. IsTip(h2, d2, y)
      BY <3>2, <3>3, <1>h, <1>d, <1>c DEF IsTip
    <3> QED
      BY <3>2, <3>3, <3>4, <1>s, <1>h, <1>e
  <2> QED
    BY <2>1, <2>2, <2>3, <2>4, <2>5, <2>6 DEF Places, MainWaitsAt, IsTip
<1>4. Frames(h2, d2)'
  <2> SUFFICES ASSUME NEW y \in Stack, saved'[y] \in Slot
               PROVE  IF frame'[y].restores
                        THEN frame'[y].prev = y /\ frame'[y].prev_head = h2[y]
                        ELSE y # NULL /\ saved'[y] = Context(y) /\ state'[y] = "detached"
    BY DEF Frames
  <2>1. CASE y = c
    <3>1. left = "detached" /\ saved'[c] = Context(c)
      BY <2>1, <1>s
    <3>2. frame'[c] = DetachFrame /\ state'[c] = "detached"
      BY <3>1, <1>e DEF TypeOK
    <3> QED
      BY <2>1, <3>1, <3>2 DEF DetachFrame
  <2>2. CASE y # c
    <3>1. saved[y] \in Slot /\ saved'[y] = saved[y]
      BY <2>2, <1>s
    <3>2. frame'[y] = frame[y]
      BY <2>2, <1>e DEF TypeOK
    <3>3. h2[y] = head[y] /\ (y # NULL => state'[y] = state[y])
      BY <2>2, <1>h, <1>e DEF TypeOK
    <3> QED
      BY <3>1, <3>2, <3>3 DEF Shape, Frames
  <2> QED
    BY <2>1, <2>2
<1>5. Objects(h2, d2)'
  <2>0. /\ \A x \in Coro : state'[x] = IF x = c THEN left ELSE state[x]
        /\ via_resume' = via_resume
    BY <1>e DEF TypeOK
  <2>1. \A x \in Coro : d2[x] > 0 => state'[x] = "running"
    BY <2>0, <1>d DEF Shape, Objects
  <2>2. ASSUME NEW x \in Coro, state'[x] = "running"
        PROVE  via_resume'[x] <=> d2[x] = 0
    <3>1. state[x] = "running" /\ via_resume'[x] = via_resume[x] /\ d2[x] = depth[x]
      BY <2>2, <2>0, <1>d
    <3>2. via_resume[x] <=> depth[x] = 0
      BY <3>1 DEF Shape, Objects
    <3> QED
      BY <3>1, <3>2
  <2>3. ASSUME NEW x \in Coro, state'[x] \in {"new", "terminated"}
        PROVE  saved'[x] = NoSlot /\ \A y \in Stack : h2[y] = x => y = x
    <3>1. CASE x = c
      BY <3>1, <2>3, <2>0, <1>s, <1>h, <1>c, <1>e
    <3>2. CASE x # c
      BY <3>2, <2>3, <2>0, <1>s, <1>h DEF Shape, Objects
    <3> QED
      BY <3>1, <3>2
  <2>4. \A x \in Coro : state'[x] = "detached" => \E y \in Stack : saved'[y] = Context(x)
    <3> SUFFICES ASSUME NEW x \in Coro, state'[x] = "detached"
                 PROVE  \E y \in Stack : saved'[y] = Context(x)
      OBVIOUS
    <3>1. CASE x = c
      BY <3>1, <2>0, <1>s, <1>e
    <3>2. CASE x # c
      <4>1. state[x] = "detached"
        BY <3>2, <2>0
      <4>2. PICK y \in Stack : saved[y] = Context(x)
        BY <4>1 DEF Shape, Objects
      <4>3. y # s
        <5> SUFFICES ASSUME y = s PROVE FALSE
          OBVIOUS
        <5>1. ~ depth[c] > 0
          BY <4>2, <1>a
        <5>2. MainWaitsAt(head, Context(x))
          BY <5>1, <4>2, <1>m, <1>e DEF MainWaitsAt
        <5> QED
          BY <5>2, <4>1, <4>2 DEF Shape, Places
      <4> QED
        BY <4>2, <4>3, <1>s, <1>o
    <3> QED
      BY <3>1, <3>2
  <2> QED
    BY <2>1, <2>2, <2>3, <2>4 DEF Objects
<1> QED
  BY <1>e, <1>t, <1>1, <1>2, <1>3, <1>4, <1>5 DEF Shape

\* Where a resumer is saved.
ResumedFrom(head) ==
    IF on = NULL THEN MainResumeCtx
    ELSE IF head[on] = NULL THEN Context(on) ELSE Context(head[on])

\* The component of c goes on at its last stack s, the operating one waits.
Resumed(c, s, head, depth) ==
    /\ state[c] = "detached" /\ saved[s] = Context(c)
    /\ state' = [x \in Coro |-> IF x = head[on] THEN "detached"
                                ELSE IF x = c THEN "running" ELSE state[x]]
    /\ via_resume' = [via_resume EXCEPT ![c] = TRUE]
    /\ main_react' = IF head[on] = NULL THEN ResumedFrom(head) ELSE main_react
    /\ frame' = [frame EXCEPT ![on] = Transferred(head)]
    /\ saved' = [saved EXCEPT ![on] = ResumedFrom(head), ![s] = NoSlot]
    /\ on' = s /\ current' = s /\ chain_head' = c /\ status' = status

LEMMA ResumedFromUnused ==
    ASSUME TypeOK, NEW head \in [Stack -> Stack], NEW depth \in [Stack -> Nat],
           Shape(head, depth)
    PROVE  /\ ResumedFrom(head) \in {MainResumeCtx} \cup {Context(x) : x \in Coro}
           /\ \A s \in Stack : saved[s] # ResumedFrom(head)
<1> USE SlotFacts
<1>1. on \in Stack /\ head[on] \in Stack /\ head[NULL] = NULL
  BY DEF TypeOK, Shape, Paths
<1> QED
  BY <1>1, Unused DEF ResumedFrom

\* A detached object is the head of a component that would go on at its last stack.
LEMMA DetachedHead ==
    ASSUME TypeOK, NEW head \in [Stack -> Stack], NEW depth \in [Stack -> Nat],
           Shape(head, depth), NEW c \in Coro, state[c] = "detached"
    PROVE  \E s \in Stack :
              /\ saved[s] = Context(c) /\ \A x \in Stack : saved[x] = Context(c) => x = s
              /\ s # on /\ s # NULL /\ head[s] = c /\ head[c] = c /\ depth[c] = 0
              /\ head[on] # c /\ IsTip(head, depth, s)
<1> USE SlotFacts
<1>1. PICK s \in Stack : saved[s] = Context(c)
  BY DEF Shape, Objects
<1>2. \A x \in Stack : saved[x] = Context(c) => x = s
  BY <1>1 DEF Shape, Places
<1>3. head[s] = c /\ IsTip(head, depth, s) /\ head[on] # c
  BY <1>1 DEF Shape, Places
<1>4. s # on /\ s # NULL /\ head[c] = c /\ depth[c] = 0
  BY <1>1, <1>3 DEF Shape, Operating, Paths
<1> QED
  BY <1>1, <1>2, <1>3, <1>4

LEMMA ResumeEffect ==
    ASSUME TypeOK, NEW head \in [Stack -> Stack], NEW depth \in [Stack -> Nat],
           Shape(head, depth), NEW c \in Coro, Resume(c)
    PROVE  \E s \in Stack : Resumed(c, s, head, depth)
<1> USE SlotFacts
<1>1. state[c] = "detached"
  BY DEF Resume, Transferable
<1>2. PICK s \in Stack :
              /\ saved[s] = Context(c) /\ \A x \in Stack : saved[x] = Context(c) => x = s
              /\ s # on /\ s # NULL /\ head[s] = c /\ head[c] = c /\ depth[c] = 0
              /\ head[on] # c /\ IsTip(head, depth, s)
  BY <1>1, DetachedHead
<1>3. current = on /\ chain_head = head[on] /\ on \in Stack /\ head[NULL] = NULL
  BY DEF Shape, Operating, Paths, TypeOK
<1>4. on # NULL => (via_resume[on] <=> head[on] = on)
  <2> SUFFICES ASSUME on # NULL PROVE via_resume[on] <=> head[on] = on
    OBVIOUS
  <2>1. on \in Coro /\ state[on] = "running"
    BY <1>3 DEF Shape, Operating
  <2>2. via_resume[on] <=> depth[on] = 0
    BY <2>1 DEF Shape, Objects
  <2>3. depth[on] = 0 <=> head[on] = on
    BY <1>3 DEF Shape, Paths
  <2> QED
    BY <2>2, <2>3
<1>5. ResumerHead = head[on]
  BY <1>3, <1>4 DEF ResumerHead
<1>6. ResumerSlot = ResumedFrom(head)
  <2>1. CASE on = NULL
    BY <2>1, <1>3 DEF ResumerSlot, ResumedFrom
  <2>2. CASE on # NULL /\ via_resume[on]
    BY <2>2, <1>3, <1>4 DEF ResumerSlot, ResumedFrom, Context
  <2>3. CASE on # NULL /\ ~ via_resume[on]
    BY <2>3, <1>3, <1>4 DEF ResumerSlot, ResumedFrom, Context
  <2> QED
    BY <2>1, <2>2, <2>3
<1>7. /\ ResumedFrom(head) \in Slot /\ ResumedFrom(head) # Context(c)
      /\ \A x \in Stack : saved[x] # ResumedFrom(head)
  BY <1>2, ResumedFromUnused
<1>8. SavedIn(ResumerSlot) = [saved EXCEPT ![on] = ResumedFrom(head)]
  BY <1>6, <1>7, SavedInUnused
<1>9. /\ SavedIn(ResumerSlot)[s] = Context(c)
      /\ \A x \in Stack : SavedIn(ResumerSlot)[x] = Context(c) => x = s
  BY <1>2, <1>7, <1>8 DEF TypeOK
<1>10. /\ via_resume' = [via_resume EXCEPT ![c] = TRUE]
       /\ state' = [x \in Coro |-> IF x = head[on] THEN "detached"
                                   ELSE IF x = c THEN "running" ELSE state[x]]
       /\ main_react' = IF head[on] = NULL THEN ResumedFrom(head) ELSE main_react
       /\ frame' = [frame EXCEPT ![on] = Transferred(head)]
       /\ GoTo(Context(c), SavedIn(ResumerSlot), c, c)
  BY <1>5, <1>6, TransferFrameIs DEF Resume, Swap, Context
<1>11. frame'[s] = frame[s]
  BY <1>2, <1>10 DEF TypeOK
<1>12. s = CHOOSE x \in Stack : SavedIn(ResumerSlot)[x] = Context(c)
  BY <1>9
<1>13. /\ on' = s
       /\ saved' = [SavedIn(ResumerSlot) EXCEPT ![s] = NoSlot]
       /\ current' = IF frame'[s].restores THEN frame'[s].prev ELSE c
       /\ chain_head' = IF frame'[s].restores THEN frame'[s].prev_head ELSE c
       /\ UNCHANGED status
  BY <1>9, <1>10, <1>12 DEF GoTo
<1>14. saved' = [saved EXCEPT ![on] = ResumedFrom(head), ![s] = NoSlot]
  BY <1>8, <1>13
<1>15. current' = s /\ chain_head' = c
  <2>1. IF frame[s].restores
          THEN frame[s].prev = s /\ frame[s].prev_head = head[s]
          ELSE saved[s] = Context(s)
    BY <1>2 DEF Shape, Frames
  <2> QED
    BY <2>1, <1>2, <1>11, <1>13
<1> QED
  BY <1>1, <1>2, <1>10, <1>13, <1>14, <1>15 DEF Resumed

LEMMA ResumedInvariance ==
    ASSUME TypeOK, NEW head \in [Stack -> Stack], NEW depth \in [Stack -> Nat],
           Shape(head, depth), NEW c \in Coro, NEW s \in Stack, Resumed(c, s, head, depth)
    PROVE  /\ TypeOK' /\ status' = status
           /\ Shape(head, depth)'
<1> USE SlotFacts
<1>0. PICK h \in Stack : h = head[on]
  BY DEF TypeOK
<1>1. PICK slot \in {MainResumeCtx} \cup {Context(x) : x \in Coro} :
         slot = ResumedFrom(head)
  BY ResumedFromUnused
<1>e. /\ state' = [x \in Coro |-> IF x = h THEN "detached"
                                  ELSE IF x = c THEN "running" ELSE state[x]]
      /\ via_resume' = [via_resume EXCEPT ![c] = TRUE]
      /\ main_react' = IF h = NULL THEN slot ELSE main_react
      /\ frame' = [frame EXCEPT ![on] = Transferred(head)]
      /\ saved' = [saved EXCEPT ![on] = slot, ![s] = NoSlot]
      /\ on' = s /\ current' = s /\ chain_head' = c /\ status' = status
  BY <1>0, <1>1 DEF Resumed
<1>k. /\ on \in Stack /\ saved[on] = NoSlot /\ IsTip(head, depth, on)
      /\ (on # NULL => state[on] = "running") /\ (h # NULL => state[h] = "running")
      /\ head[h] = h /\ head[NULL] = NULL /\ (\A x \in Stack : saved[x] # slot)
  BY <1>0, <1>1, ResumedFromUnused DEF Shape, Operating, Paths, TypeOK
<1>f. slot = IF on = NULL THEN MainResumeCtx ELSE IF h = NULL THEN Context(on) ELSE Context(h)
  BY <1>0, <1>1 DEF ResumedFrom
<1>c. /\ state[c] = "detached" /\ saved[s] = Context(c)
      /\ (\A x \in Stack : saved[x] = Context(c) => x = s)
      /\ s # on /\ s # NULL /\ head[s] = c /\ head[c] = c /\ depth[c] = 0
      /\ h # c /\ IsTip(head, depth, s)
  <2>1. state[c] = "detached" /\ saved[s] = Context(c)
    BY DEF Resumed
  <2>2. PICK x \in Stack :
              /\ saved[x] = Context(c) /\ (\A y \in Stack : saved[y] = Context(c) => y = x)
              /\ x # on /\ x # NULL /\ head[x] = c /\ head[c] = c /\ depth[c] = 0
              /\ head[on] # c /\ IsTip(head, depth, x)
    BY <2>1, DetachedHead
  <2>3. x = s
    BY <2>1, <2>2
  <2> QED
    BY <2>1, <2>2, <2>3, <1>0
<1>s. \A x \in Stack : saved'[x] = IF x = s THEN NoSlot ELSE IF x = on THEN slot ELSE saved[x]
  BY <1>e DEF TypeOK
<1>u. /\ \A x \in Coro : state'[x] = IF x = h THEN "detached"
                                     ELSE IF x = c THEN "running" ELSE state[x]
      /\ on' = s /\ main_react' = IF h = NULL THEN slot ELSE main_react
  BY <1>e
<1>t. TypeOK'
  <2>1. slot \in Slot
    BY <1>1
  <2> QED
    BY <2>1, <1>e DEF TypeOK, Frame, Transferred
<1>2. Paths(head, depth)'
  <2>1. \A x \in Coro : depth[x] > 0 => \E y \in Stack : saved'[y] = CallerCtx(x)
    <3> SUFFICES ASSUME NEW x \in Coro, depth[x] > 0
                 PROVE  \E y \in Stack : saved'[y] = CallerCtx(x)
      OBVIOUS
    <3>1. PICK y \in Stack : saved[y] = CallerCtx(x)
      BY DEF Shape, Paths
    <3> QED
      BY <3>1, <1>s, <1>k, <1>c
  <2>2. \A x \in Coro, y \in Stack :
           saved'[y] = CallerCtx(x) => head[x] = head[y] /\ depth[x] = depth[y] + 1
    <3> SUFFICES ASSUME NEW x \in Coro, NEW y \in Stack, saved'[y] = CallerCtx(x)
                 PROVE  head[x] = head[y] /\ depth[x] = depth[y] + 1
      OBVIOUS
    <3>1. saved[y] = CallerCtx(x)
      BY <1>s, <1>1
    <3> QED
      BY <3>1 DEF Shape, Paths
  <2> QED
    BY <2>1, <2>2 DEF Shape, Paths
<1>3. Operating(head, depth)'
  <2>1. state'[s] = "running"
    <3>1. CASE s = c
      BY <3>1, <1>u, <1>c
    <3>2. CASE s # c
      <4>1. depth[s] > 0
        BY <3>2, <1>c DEF Shape, Paths
      <4>2. state[s] = "running" /\ s # h
        BY <4>1, <3>2, <1>c, <1>k DEF Shape, Objects
      <4> QED
        BY <4>2, <3>2, <1>u, <1>c
    <3> QED
      BY <3>1, <3>2
  <2>2. state'[c] = "running"
    BY <1>u, <1>c
  <2>3. saved'[s] = NoSlot
    BY <1>s
  <2> QED
    BY <2>1, <2>2, <2>3, <1>e, <1>c DEF Operating, IsTip
<1>4. Places(head, depth)'
  <2>0. h # NULL => main_react # Context(h)
    <3> SUFFICES ASSUME h # NULL PROVE main_react # Context(h)
      OBVIOUS
    <3>1. \E y \in Stack : saved[y] = main_react
      BY <1>0 DEF Shape, Places
    <3>2. \A y \in Stack : saved[y] # Context(h)
      BY <1>0, Unused
    <3> QED
      BY <3>1, <3>2
  <2>1. \A x \in Stack : saved'[x] # Lost
    BY <1>s, <1>1 DEF Shape, Places
  <2>2. \A x, y \in Stack : saved'[y] \in Slot /\ saved'[y] = saved'[x] => y = x
    BY <1>s, <1>k DEF Shape, Places
  <2>3. saved'[NULL] = NoSlot => on' = NULL
    BY <1>s, <1>e, <1>1, <1>c DEF Shape, Places
  <2>4. ASSUME NEW y \in Stack, saved'[y] = MainResumeCtx
        PROVE  y = NULL /\ head[on'] # NULL /\ main_react' = MainResumeCtx
    <3>1. head[on'] # NULL
      BY <1>u, <1>c
    <3>2. CASE y = on
      <4>1. slot = MainResumeCtx
        BY <3>2, <2>4, <1>s, <1>c
      <4>2. on = NULL /\ h = NULL
        BY <4>1, <1>f, <1>0, <1>k
      <4> QED
        BY <3>1, <3>2, <4>1, <4>2, <1>u
    <3>3. CASE y # on
      <4>1. saved[y] = MainResumeCtx
        BY <3>3, <2>4, <1>s
      <4>2. y = NULL /\ h # NULL /\ main_react = MainResumeCtx
        BY <4>1, <1>0 DEF Shape, Places, MainWaitsAt
      <4> QED
        BY <3>1, <4>2, <1>u
    <3> QED
      BY <3>2, <3>3
  <2>5. ASSUME NEW y \in Stack, NEW x \in Coro, saved'[y] = Context(x)
        PROVE  /\ IsTip(head, depth, y)
               /\ head[y] # c
               /\ IF main_react' = Context(x)
                    THEN y = x /\ head[y] = NULL /\ state'[x] = "running"
                    ELSE head[y] = x /\ state'[x] = "detached"
    <3>1. CASE y = on
      <4>1. slot = Context(x)
        BY <3>1, <2>5, <1>s, <1>c
      <4>2. CASE h = NULL
        <5>1. x = on
          BY <4>1, <4>2, <1>f
        <5>2. state'[x] = "running"
          BY <5>1, <4>2, <1>u, <1>k
        <5> QED
          BY <3>1, <4>1, <4>2, <5>1, <5>2, <1>0, <1>k, <1>u
      <4>3. CASE h # NULL
        <5>1. x = h
          BY <4>1, <4>3, <1>f, <1>0, <1>k
        <5>2. state'[x] = "detached"
          BY <5>1, <1>u
        <5> QED
          BY <3>1, <4>3, <5>1, <5>2, <2>0, <1>0, <1>c, <1>k, <1>u
      <4> QED
        BY <4>2, <4>3
    <3>2. CASE y # on
      <4>1. saved[y] = Context(x) /\ x # c /\ slot # Context(x)
        BY <3>2, <2>5, <1>s, <1>c, <1>k
      <4>2. /\ IsTip(head, depth, y)
            /\ IF h # NULL /\ main_react = Context(x)
                 THEN y = x /\ head[y] = NULL /\ state[x] = "running"
                 ELSE head[y] = x /\ state[x] = "detached"
        BY <4>1, <1>0 DEF Shape, Places, MainWaitsAt
      <4>3. x # h
        BY <4>1, <4>2, <1>f, <1>k
      <4>4. state'[x] = state[x]
        BY <4>1, <4>3, <1>u
      <4> QED
        BY <4>1, <4>2, <4>4, <1>u
    <3> QED
      BY <3>1, <3>2
  <2>6. \E y \in Stack : /\ saved'[y] = main_react' /\ head[y] = NULL
                         /\ main_react' \in {MainResumeCtx} \cup {Context(x) : x \in Coro}
                         /\ IsTip(head, depth, y)
    <3>1. CASE h = NULL
      BY <3>1, <1>0, <1>1, <1>k, <1>c, <1>s, <1>u
    <3>2. CASE h # NULL
      <4>1. PICK y \in Stack : /\ saved[y] = main_react /\ head[y] = NULL
                               /\ main_react \in {MainResumeCtx} \cup {Context(x) : x \in Coro}
                               /\ IsTip(head, depth, y)
        BY <3>2, <1>0 DEF Shape, Places
      <4>2. y # on /\ y # s
        BY <4>1, <1>c, <1>k
      <4> QED
        BY <3>2, <4>1, <4>2, <1>s, <1>u
    <3> QED
      BY <3>1, <3>2
  <2>7. head[on'] = c /\ c # NULL
    BY <1>u, <1>c
  <2> QED
    BY <2>1, <2>2, <2>3, <2>4, <2>5, <2>6, <2>7 DEF Places, MainWaitsAt, IsTip
<1>5. Frames(head, depth)'
  <2> SUFFICES ASSUME NEW y \in Stack, saved'[y] \in Slot
               PROVE  IF frame'[y].restores
                        THEN frame'[y].prev = y /\ frame'[y].prev_head = head[y]
                        ELSE y # NULL /\ saved'[y] = Context(y) /\ state'[y] = "detached"
    BY DEF Frames
  <2>1. CASE y = on
    BY <2>1, <1>e, <1>0 DEF TypeOK, Transferred
  <2>2. CASE y # on
    <3>1. saved[y] \in Slot /\ saved'[y] = saved[y] /\ frame'[y] = frame[y] /\ y # s
      BY <2>2, <1>s, <1>e DEF TypeOK
    <3>2. IF frame[y].restores
            THEN frame[y].prev = y /\ frame[y].prev_head = head[y]
            ELSE y # NULL /\ saved[y] = Context(y) /\ state[y] = "detached"
      BY <3>1 DEF Shape, Frames
    <3> QED
      BY <3>1, <3>2, <1>u, <1>c
  <2> QED
    BY <2>1, <2>2
<1>6. Objects(head, depth)'
  <2>1. \A x \in Coro : depth[x] > 0 => state'[x] = "running"
    <3> SUFFICES ASSUME NEW x \in Coro, depth[x] > 0 PROVE state'[x] = "running"
      OBVIOUS
    <3>1. state[x] = "running" /\ x # h
      BY <1>k DEF Shape, Objects, Paths
    <3> QED
      BY <3>1, <1>u
  <2>2. ASSUME NEW x \in Coro, state'[x] = "running"
        PROVE  via_resume'[x] <=> depth[x] = 0
    <3>1. CASE x = c
      BY <3>1, <1>e, <1>c DEF TypeOK
    <3>2. CASE x # c
      <4>1. state[x] = "running" /\ via_resume'[x] = via_resume[x]
        BY <3>2, <2>2, <1>u, <1>e DEF TypeOK
      <4>2. via_resume[x] <=> depth[x] = 0
        BY <4>1 DEF Shape, Objects
      <4> QED
        BY <4>1, <4>2
    <3> QED
      BY <3>1, <3>2
  <2>3. ASSUME NEW x \in Coro, state'[x] \in {"new", "terminated"}
        PROVE  saved'[x] = NoSlot /\ \A y \in Stack : head[y] = x => y = x
    <3>1. state[x] \in {"new", "terminated"}
      BY <2>3, <1>u
    <3>2. x # on
      BY <3>1, <1>k
    <3> QED
      BY <3>1, <3>2, <1>s DEF Shape, Objects
  <2>4. ASSUME NEW x \in Coro, state'[x] = "detached"
        PROVE  \E y \in Stack : saved'[y] = Context(x)
    <3>1. CASE x = h
      <4>1. on # NULL /\ slot = Context(h)
        BY <3>1, <1>0, <1>f, <1>k
      <4> QED
        BY <3>1, <4>1, <1>s, <1>k, <1>c
    <3>2. CASE x # h
      <4>1. state[x] = "detached" /\ x # c
        BY <3>2, <2>4, <1>u
      <4>2. PICK y \in Stack : saved[y] = Context(x)
        BY <4>1 DEF Shape, Objects
      <4>3. y # on /\ y # s
        BY <4>1, <4>2, <1>c, <1>k
      <4> QED
        BY <4>2, <4>3, <1>s
    <3> QED
      BY <3>1, <3>2
  <2> QED
    BY <2>1, <2>2, <2>3, <2>4 DEF Objects
<1> QED
  BY <1>e, <1>t, <1>2, <1>3, <1>4, <1>5, <1>6 DEF Shape

-----------------------------------------------------------------------------
(* The invariant.                                                          *)

PlainNext == Common \/ \E c \in Coro : PlainCall(c)

LEMMA StepIInv ==
    ASSUME IInv, [PlainNext]_vars
    PROVE  IInv'
<1>1. PICK head \in [Stack -> Stack], depth \in [Stack -> Nat] : Shape(head, depth)
  BY DEF IInv
<1>2. TypeOK /\ status # "stale jump"
  BY DEF IInv
<1>3. ASSUME NEW c \in Coro, New(c)
      PROVE  IInv'
  <2>1. Attached(c, head, depth)
    BY <1>1, <1>2, <1>3, NewEffect
  <2> QED
    BY <1>1, <1>2, <2>1, AttachedInvariance DEF IInv
<1>4. ASSUME NEW c \in Coro, PlainCall(c)
      PROVE  IInv'
  <2>1. Attached(c, head, depth)
    BY <1>1, <1>2, <1>4, CallEffect
  <2> QED
    BY <1>1, <1>2, <2>1, AttachedInvariance DEF IInv
<1>5. ASSUME NEW c \in Coro, OwnDetach(c)
      PROVE  IInv'
  <2>1. PICK s \in Stack : Left(c, "detached", s, head, depth)
    BY <1>1, <1>2, <1>5, DetachEffect
  <2> QED
    BY <1>1, <1>2, <2>1, LeftInvariance DEF IInv
<1>6. CASE Terminate
  <2>1. PICK c \in Coro : c = on
    BY <1>1, <1>2, <1>6, TerminateEffect
  <2>2. PICK s \in Stack : Left(c, "terminated", s, head, depth)
    BY <1>1, <1>2, <1>6, <2>1, TerminateEffect
  <2> QED
    BY <1>1, <1>2, <2>2, LeftInvariance DEF IInv
<1>7. ASSUME NEW c \in Coro, Resume(c)
      PROVE  IInv'
  <2>1. PICK s \in Stack : Resumed(c, s, head, depth)
    BY <1>1, <1>2, <1>7, ResumeEffect
  <2>2. TypeOK' /\ status' = status /\ Shape(head, depth)'
    BY <1>1, <1>2, <2>1, ResumedInvariance
  <2> QED
    BY <1>1, <1>2, <2>2 DEF IInv
\* The other steps change the status at most.
<1>8. ASSUME UNCHANGED <<state, via_resume, current, main_react, chain_head, on, saved, frame>>,
             status' \in {status, "transfer error", "finished"}
      PROVE  IInv'
  <2>1. TypeOK' /\ status' # "stale jump"
    BY <1>2, <1>8 DEF TypeOK
  <2>2. Shape(head, depth)'
    <3>1. Paths(head, depth)'
      BY <1>1, <1>8 DEF Shape, Paths
    <3>2. Operating(head, depth)'
      BY <1>1, <1>8 DEF Shape, Operating, IsTip
    <3>3. Places(head, depth)'
      BY <1>1, <1>8 DEF Shape, Places, MainWaitsAt, IsTip
    <3>4. Frames(head, depth)'
      BY <1>1, <1>8 DEF Shape, Frames
    <3>5. Objects(head, depth)'
      BY <1>1, <1>8 DEF Shape, Objects
    <3> QED
      BY <3>1, <3>2, <3>3, <3>4, <3>5 DEF Shape
  <2> QED
    BY <2>1, <2>2 DEF IInv
<1> QED
  BY <1>3, <1>4, <1>5, <1>6, <1>7, <1>8 DEF PlainNext, Common, Refused, EndProgram, vars

THEOREM Invariance == PlainSpec => []IInv
<1>1. IInv /\ [PlainNext]_vars => IInv'
  BY StepIInv
<1> QED
  BY <1>1, InitIInv, PTL DEF PlainSpec, PlainNext

-----------------------------------------------------------------------------
(* Heads.                                                                  *)

\* The first stack on a path among those in T.
LEMMA First ==
    ASSUME NEW depth \in [Stack -> Nat], NEW T \in SUBSET Stack, T # {}
    PROVE  \E m \in T : \A y \in T : depth[m] <= depth[y]
<1> DEFINE D == {depth[y] : y \in T}
<1>1. D \in SUBSET Nat /\ D # {}
  OBVIOUS
<1>2. \E n \in D : \A k \in D : ~ <<k, n>> \in OpToRel(<, Nat)
  BY <1>1, NatLessThanWellFounded, WFMin, Zenon
<1>3. PICK n \in D : \A k \in D : ~ (k < n)
  BY <1>1, <1>2, Zenon DEF OpToRel
<1>4. PICK m \in T : n = depth[m]
  OBVIOUS
<1>5. ASSUME NEW y \in T PROVE depth[m] <= depth[y]
  <2>1. depth[y] \in D
    OBVIOUS
  <2>2. ~ (depth[y] < depth[m])
    BY <1>3, <1>4, <2>1
  <2> HIDE DEF D
  <2> QED
    BY <2>2
<1> QED
  BY <1>5

\* Along a path of attached stacks one gets to the head.
LEMMA HeadOfPath ==
    ASSUME NEW head \in [Stack -> Stack], NEW depth \in [Stack -> Nat], NEW up,
           DOMAIN up = Stack,
           \A s \in Stack : head[head[s]] = head[s],
           \A s \in Stack : depth[s] = 0 <=> head[s] = s,
           \A s \in Stack : depth[s] = 0 => up[s] \notin Stack,
           \A s \in Stack : depth[s] > 0 =>
              up[s] \in Stack /\ head[up[s]] = head[s] /\ depth[s] = depth[up[s]] + 1,
           NEW s \in Stack
    PROVE  Attachment!Head(s, up) = head[s]
<1> DEFINE C == {y \in Stack : head[y] = head[s]}
<1>1. Attachment!Chain(s, up) \subseteq C
  <2>1. Attachment!Closed(C, up)
    BY DEF Attachment!Closed
  <2> QED
    BY <2>1 DEF Attachment!Chain
<1>2. head[s] \in Attachment!Chain(s, up)
  <2> SUFFICES ASSUME NEW T \in SUBSET Stack, s \in T, Attachment!Closed(T, up)
               PROVE  head[s] \in T
    BY DEF Attachment!Chain
  <2>1. PICK m \in T \cap C : \A y \in T \cap C : depth[m] <= depth[y]
    BY First
  <2>2. depth[m] = 0
    <3> SUFFICES ASSUME depth[m] > 0 PROVE FALSE
      OBVIOUS
    <3>1. up[m] \in T \cap C /\ depth[m] = depth[up[m]] + 1
      BY DEF Attachment!Closed
    <3> QED
      BY <2>1, <3>1
  <2> QED
    BY <2>1, <2>2
<1>3. up[head[s]] \notin Stack
  OBVIOUS
<1>4. \A y \in Attachment!Chain(s, up) : up[y] \notin Stack => y = head[s]
  BY <1>1
<1> QED
  BY <1>2, <1>3, <1>4 DEF Attachment!Head

LEMMA AttacherFacts ==
    ASSUME TypeOK, NEW head \in [Stack -> Stack], NEW depth \in [Stack -> Nat],
           Shape(head, depth), NEW c \in Stack
    PROVE  /\ depth[c] = 0 => Attacher(c) = NoSlot
           /\ depth[c] > 0 => /\ c \in Coro /\ Attacher(c) \in Stack
                              /\ saved[Attacher(c)] = CallerCtx(c)
                              /\ head[Attacher(c)] = head[c]
                              /\ depth[c] = depth[Attacher(c)] + 1
<1> USE SlotFacts
<1>1. ASSUME depth[c] = 0 PROVE Attacher(c) = NoSlot
  BY <1>1, Unused DEF Attacher, StackIn, CallerCtx
<1>2. ASSUME depth[c] > 0
      PROVE  /\ c \in Coro /\ Attacher(c) \in Stack
             /\ saved[Attacher(c)] = CallerCtx(c)
  <2>1. c # NULL
    BY <1>2 DEF Shape, Paths
  <2>2. \E x \in Stack : saved[x] = CallerCtx(c)
    BY <1>2, <2>1 DEF Shape, Paths
  <2> QED
    BY <2>1, <2>2 DEF Attacher, StackIn, CallerCtx
<1>3. ASSUME depth[c] > 0
      PROVE  head[Attacher(c)] = head[c] /\ depth[c] = depth[Attacher(c)] + 1
  BY <1>2, <1>3 DEF Shape, Paths
<1> QED
  BY <1>1, <1>2, <1>3

LEMMA ComponentHeadIs ==
    ASSUME TypeOK, NEW head \in [Stack -> Stack], NEW depth \in [Stack -> Nat],
           Shape(head, depth), NEW s \in Stack
    PROVE  ComponentHead(s) = head[s]
<1> DEFINE up == [x \in Stack |-> Attacher(x)]
<1>1. /\ \A x \in Stack : head[head[x]] = head[x]
      /\ \A x \in Stack : depth[x] = 0 <=> head[x] = x
  BY DEF Shape, Paths
<1>2. \A x \in Stack : depth[x] = 0 => up[x] \notin Stack
  BY AttacherFacts, SlotFacts
<1>3. \A x \in Stack : depth[x] > 0 =>
         up[x] \in Stack /\ head[up[x]] = head[x] /\ depth[x] = depth[up[x]] + 1
  BY AttacherFacts
<1>4. DOMAIN up = Stack
  OBVIOUS
<1> HIDE DEF up
<1>5. Attachment!Head(s, up) = head[s]
  BY <1>1, <1>2, <1>3, <1>4, HeadOfPath
<1> QED
  BY <1>5 DEF ComponentHead, up

\* The stack that goes on at a place where it alone is saved.
LEMMA StackInIs ==
    ASSUME NEW slot, NEW s \in Stack,
           saved[s] = slot, \A x \in Stack : saved[x] = slot => x = s
    PROVE  StackIn(slot) = s
BY DEF StackIn

LEMMA ChainHead == IInv => chain_head = ComponentHead(on)
<1> SUFFICES ASSUME IInv PROVE chain_head = ComponentHead(on)
  OBVIOUS
<1>1. PICK head \in [Stack -> Stack], depth \in [Stack -> Nat] : Shape(head, depth)
  BY DEF IInv
<1>2. TypeOK /\ on \in Stack
  BY DEF IInv, TypeOK
<1>3. ComponentHead(on) = head[on]
  BY <1>1, <1>2, ComponentHeadIs
<1> QED
  BY <1>1, <1>3 DEF Shape, Operating

\* In every state of a plain program: the globals have their types.
THEOREM TypeCorrect == PlainSpec => []TypeOK
<1>1. IInv => TypeOK
  BY DEF IInv
<1> QED
  BY <1>1, Invariance, PTL

\* Detach, end, RESUME and CALL always find somebody to go on.
THEOREM Safe == PlainSpec => []NoStaleJump
<1>1. IInv => NoStaleJump
  BY DEF IInv, NoStaleJump
<1> QED
  BY <1>1, Invariance, PTL

\* Nobody is saved over a suspended stack.
THEOREM Kept == PlainSpec => []NothingLost
<1>1. IInv => NothingLost
  BY DEF IInv, NothingLost, Shape, Places
<1> QED
  BY <1>1, Invariance, PTL

\* The global that a resumer is saved by is the head of its component.
THEOREM Heads == PlainSpec => []ChainHeadIsHead
<1>1. IInv => ChainHeadIsHead
  BY ChainHead DEF ChainHeadIsHead
<1> QED
  BY <1>1, Invariance, PTL

\* RESUME and CALL accept just those that wait as heads of components.
THEOREM Resumable == PlainSpec => []DetachedIsResumable
<1>1. IInv => DetachedIsResumable
  <2> USE SlotFacts
  <2> SUFFICES ASSUME IInv, NEW c \in Coro
               PROVE  state[c] = "detached" <=>
                         /\ StackIn(Context(c)) # NoSlot
                         /\ ComponentHead(on) = NULL \/ main_react # Context(c)
    BY DEF DetachedIsResumable, Context
  <2>1. PICK head \in [Stack -> Stack], depth \in [Stack -> Nat] : Shape(head, depth)
    BY DEF IInv
  <2>2. TypeOK /\ on \in Stack
    BY DEF IInv, TypeOK
  <2>3. ComponentHead(on) = head[on]
    BY <2>1, <2>2, ComponentHeadIs
  <2>4. ASSUME state[c] = "detached"
        PROVE  StackIn(Context(c)) # NoSlot /\ ~ MainWaitsAt(head, Context(c))
    <3>1. PICK s \in Stack : saved[s] = Context(c)
      BY <2>1, <2>4 DEF Shape, Objects
    <3>2. \A x \in Stack : saved[x] = Context(c) => x = s
      BY <2>1, <3>1 DEF Shape, Places
    <3>3. StackIn(Context(c)) = s
      BY <3>1, <3>2, StackInIs
    <3> QED
      BY <2>1, <2>4, <3>1, <3>3 DEF Shape, Places
  <2>5. ASSUME StackIn(Context(c)) # NoSlot, ~ MainWaitsAt(head, Context(c))
        PROVE  state[c] = "detached"
    <3>1. PICK s \in Stack : saved[s] = Context(c)
      BY <2>5 DEF StackIn
    <3> QED
      BY <2>1, <2>5, <3>1 DEF Shape, Places
  <2> QED
    BY <2>3, <2>4, <2>5 DEF MainWaitsAt
<1> QED
  BY <1>1, Invariance, PTL

-----------------------------------------------------------------------------
(* The components that the stacks represent.                               *)

LEMMA OperatingHeadIs == Comp!OperatingHead = ComponentHead(on)
<1>1. Comp!Place = Stack
  BY DEF Comp!Place, Stack
<1>2. Comp!Attacher = [x \in Stack |-> Attacher(x)]
  BY <1>1, SlotFacts DEF Comp!Attacher, AttachedTo, Attacher, Stack
<1> QED
  BY <1>2 DEF Comp!OperatingHead, ComponentHead, Comp!Attachment!Head, Attachment!Head,
       Comp!Attachment!Chain, Attachment!Chain, Comp!Attachment!Closed, Attachment!Closed

\* Attachments and reactivation points, read off the places.
View ==
    /\ AttachedTo \in [Coro -> Stack \cup {NoSlot}]
    /\ \A c \in Coro : (\A s \in Stack : saved[s] # CallerCtx(c)) => AttachedTo[c] = NoSlot
    /\ \A c \in Coro, s \in Stack : saved[s] = CallerCtx(c) => AttachedTo[c] = s
    /\ GoesOnAt \in [Stack -> Stack \cup {NoSlot}]
    /\ \A c \in Coro : state[c] # "detached" => GoesOnAt[c] = NoSlot
    /\ \A c \in Coro, s \in Stack :
          state[c] = "detached" /\ saved[s] = Context(c) => GoesOnAt[c] = s
    /\ chain_head = NULL => GoesOnAt[NULL] = NoSlot
    /\ \A s \in Stack : chain_head # NULL /\ saved[s] = main_react => GoesOnAt[NULL] = s

LEMMA StackInType == ASSUME NEW slot PROVE StackIn(slot) \in Stack \cup {NoSlot}
BY DEF StackIn

LEMMA IInvView == IInv => View
<1> SUFFICES ASSUME IInv PROVE View
  OBVIOUS
<1> USE SlotFacts
<1>1. PICK head \in [Stack -> Stack], depth \in [Stack -> Nat] : Shape(head, depth)
  BY DEF IInv
<1>2. TypeOK /\ chain_head = ComponentHead(on) /\ chain_head = head[on]
  BY <1>1, ChainHead DEF IInv, Shape, Operating
<1>3. \A s, x \in Stack : saved[s] \in Slot /\ saved[s] = saved[x] => s = x
  BY <1>1 DEF Shape, Places
<1>4. \A c \in Coro : AttachedTo[c] = StackIn(CallerCtx(c))
  BY DEF AttachedTo, Attacher, CallerCtx
<1>5. \A c \in Coro : GoesOnAt[c] = IF state[c] = "detached" THEN StackIn(Context(c)) ELSE NoSlot
  BY DEF GoesOnAt, Context
<1>6. GoesOnAt[NULL] = IF chain_head = NULL \/ main_react = NoSlot
                         THEN NoSlot ELSE StackIn(main_react)
  BY <1>2 DEF GoesOnAt
<1>7. \A slot \in Slot, s \in Stack : saved[s] = slot => StackIn(slot) = s
  BY <1>3, StackInIs
<1>8. \A slot \in Slot : (\A s \in Stack : saved[s] # slot) => StackIn(slot) = NoSlot
  BY DEF StackIn
<1>9. AttachedTo \in [Coro -> Stack \cup {NoSlot}]
  BY StackInType DEF AttachedTo, Attacher
<1>10. GoesOnAt \in [Stack -> Stack \cup {NoSlot}]
  BY StackInType DEF GoesOnAt
<1>11. chain_head # NULL => main_react \in Slot
  BY <1>1, <1>2 DEF Shape, Places
<1>12. \A c \in Coro : (\A s \in Stack : saved[s] # CallerCtx(c)) => AttachedTo[c] = NoSlot
  BY <1>4, <1>8
<1>13. \A c \in Coro, s \in Stack : saved[s] = CallerCtx(c) => AttachedTo[c] = s
  BY <1>4, <1>7
<1>14. \A c \in Coro, s \in Stack :
          state[c] = "detached" /\ saved[s] = Context(c) => GoesOnAt[c] = s
  BY <1>5, <1>7
<1>15. \A s \in Stack : chain_head # NULL /\ saved[s] = main_react => GoesOnAt[NULL] = s
  BY <1>6, <1>7, <1>11
<1> QED
  BY <1>5, <1>6, <1>9, <1>10, <1>12, <1>13, <1>14, <1>15 DEF View

LEMMA IInvViewNext == IInv' => View'
BY IInvView, PTL

\* What a component system sees of the operating component.
LEMMA Heading ==
    ASSUME IInv, NEW head \in [Stack -> Stack], NEW depth \in [Stack -> Nat],
           Shape(head, depth)
    PROVE  Comp!OperatingHead = head[on]
BY OperatingHeadIs, ChainHead DEF Shape, Operating

\* NEW and CALL attach the object to the operating one.
LEMMA AttachedComponents ==
    ASSUME IInv, IInv', NEW head \in [Stack -> Stack], NEW depth \in [Stack -> Nat],
           Shape(head, depth), NEW c \in Coro, Attached(c, head, depth)
    PROVE  Comp!Begin(c) \/ Comp!CallAs(c)
<1> USE SlotFacts
<1>1. View /\ View' /\ TypeOK
  BY IInvView, IInvViewNext DEF IInv
<1>2. /\ on \in Stack /\ saved[on] = NoSlot /\ chain_head = head[on] /\ head[NULL] = NULL
      /\ \A x \in Stack : saved[x] # CallerCtx(c)
  <2>1. depth[c] = 0
    BY DEF Attached
  <2>2. \A x \in Stack : saved[x] # CallerCtx(c)
    BY <1>1, <2>1, Unused
  <2> QED
    BY <1>1, <2>2 DEF Shape, Operating, Paths, TypeOK
<1>3. /\ c # on /\ state[c] \in {"new", "detached"} /\ head[c] = c
      /\ (\A x \in Stack : head[x] = c => x = c)
      /\ saved[c] \in {NoSlot, Context(c)} /\ (\A x \in Stack : saved[x] = Context(c) => x = c)
      /\ on' = c /\ chain_head' = head[on]
      /\ main_react' = IF on = NULL THEN CallerCtx(c) ELSE main_react
  BY DEF Attached
<1>4. \A x \in Stack : saved'[x] = IF x = c THEN NoSlot ELSE IF x = on THEN CallerCtx(c)
                                   ELSE saved[x]
  BY <1>1, <1>3 DEF Attached, TypeOK
<1>5. \A x \in Coro : state'[x] = IF x = c THEN "running" ELSE state[x]
  BY <1>1 DEF Attached, TypeOK
<1>6. c # Comp!OperatingHead
  BY <1>2, <1>3, Heading
<1>7. AttachedTo[c] = NoSlot
  BY <1>1, <1>2 DEF View
<1>8. AttachedTo' = [AttachedTo EXCEPT ![c] = on]
  <2>1. AttachedTo'[c] = on
    BY <1>1, <1>2, <1>3, <1>4 DEF View
  <2>2. ASSUME NEW x \in Coro, x # c PROVE AttachedTo'[x] = AttachedTo[x]
    <3>1. \A y \in Stack : saved'[y] = CallerCtx(x) <=> saved[y] = CallerCtx(x)
      BY <2>2, <1>2, <1>3, <1>4
    <3> QED
      BY <3>1, <1>1 DEF View
  <2> QED
    BY <2>1, <2>2, <1>1 DEF View
<1>9. GoesOnAt' = [GoesOnAt EXCEPT ![c] = NoSlot]
  <2>1. GoesOnAt'[c] = NoSlot
    BY <1>1, <1>5 DEF View
  <2>2. ASSUME NEW x \in Coro, x # c PROVE GoesOnAt'[x] = GoesOnAt[x]
    <3>1. CASE state[x] = "detached"
      <4>1. PICK y \in Stack : saved[y] = Context(x)
        BY <3>1 DEF Shape, Objects
      <4>2. saved'[y] = Context(x) /\ state'[x] = "detached"
        BY <2>2, <3>1, <4>1, <1>2, <1>3, <1>4, <1>5
      <4> QED
        BY <3>1, <4>1, <4>2, <1>1 DEF View
    <3>2. CASE state[x] # "detached"
      BY <2>2, <3>2, <1>1, <1>5 DEF View
    <3> QED
      BY <3>1, <3>2
  <2>3. GoesOnAt'[NULL] = GoesOnAt[NULL]
    <3>1. CASE head[on] = NULL
      BY <3>1, <1>1, <1>2, <1>3 DEF View
    <3>2. CASE head[on] # NULL
      <4>1. PICK y \in Stack : saved[y] = main_react /\ head[y] = NULL /\ main_react \in Slot
        BY <3>2 DEF Shape, Places
      <4>2. y # c /\ y # on /\ main_react' = main_react
        BY <3>2, <4>1, <1>2, <1>3
      <4> QED
        BY <3>2, <4>1, <4>2, <1>1, <1>2, <1>3, <1>4 DEF View
    <3> QED
      BY <3>1, <3>2
  <2> QED
    BY <2>1, <2>2, <2>3, <1>1 DEF View
<1>10. CASE state[c] = "new"
  <2>1. GoesOnAt[c] = NoSlot
    BY <1>1, <1>10 DEF View
  <2>2. GoesOnAt' = GoesOnAt
    BY <2>1, <1>1, <1>9 DEF View
  <2> QED
    BY <2>1, <2>2, <1>3, <1>6, <1>7, <1>8 DEF Comp!Begin
<1>11. CASE state[c] = "detached"
  <2>1. GoesOnAt[c] = c
    <3>1. PICK y \in Stack : saved[y] = Context(c)
      BY <1>11 DEF Shape, Objects
    <3> QED
      BY <3>1, <1>1, <1>3, <1>11 DEF View
  <2> QED
    BY <2>1, <1>3, <1>6, <1>8, <1>9 DEF Comp!CallAs, Comp!Suspended
<1> QED
  BY <1>3, <1>10, <1>11

\* DETACH and the end of a body: the object leaves its component.
LEMMA LeftComponents ==
    ASSUME IInv, IInv', NEW head \in [Stack -> Stack], NEW depth \in [Stack -> Nat],
           Shape(head, depth), NEW c \in Coro, NEW left \in {"detached", "terminated"},
           NEW s \in Stack, Left(c, left, s, head, depth)
    PROVE  IF left = "detached" THEN Comp!DetachAs(c) ELSE Comp!End
<1> USE SlotFacts
<1>1. View /\ View' /\ TypeOK
  BY IInvView, IInvViewNext DEF IInv
<1>2. /\ c = on /\ s # c /\ on' = s /\ chain_head' = head[s] /\ main_react' = main_react
      /\ state' = [state EXCEPT ![c] = left]
      /\ saved' = [saved EXCEPT ![c] = IF left = "detached" THEN Context(c) ELSE NoSlot,
                                ![s] = NoSlot]
  BY DEF Left
<1>3. \A x \in Stack : saved'[x] = IF x = s THEN NoSlot
                                ELSE IF x = c
                                  THEN IF left = "detached" THEN Context(c) ELSE NoSlot
                                ELSE saved[x]
  BY <1>1, <1>2 DEF TypeOK
<1>4. \A x \in Coro : state'[x] = IF x = c THEN left ELSE state[x]
  BY <1>1, <1>2 DEF TypeOK
<1>5. saved[c] = NoSlot /\ chain_head = head[c] /\ \A x \in Stack : saved[x] # Context(c)
  BY <1>1, <1>2, Unused DEF Shape, Operating
<1>6. \A x, y \in Stack : saved[x] \in Slot /\ saved[x] = saved[y] => x = y
  BY DEF Shape, Places
<1>7. GoesOnAt'[c] = IF left = "detached" THEN c ELSE NoSlot
  BY <1>1, <1>2, <1>3, <1>4, ZenonT(30) DEF View
<1>8. ASSUME NEW x \in Coro, x # c, saved[s] # Context(x)
      PROVE  GoesOnAt'[x] = GoesOnAt[x]
  <2>1. CASE state[x] = "detached"
    <3>1. PICK y \in Stack : saved[y] = Context(x)
      BY <2>1 DEF Shape, Objects
    <3>2. saved'[y] = Context(x) /\ state'[x] = "detached"
      BY <1>3, <1>4, <1>5, <1>8, <2>1, <3>1
    <3> QED
      BY <1>1, <2>1, <3>1, <3>2 DEF View
  <2>2. CASE state[x] # "detached"
    BY <1>1, <1>4, <1>8, <2>2 DEF View
  <2> QED
    BY <2>1, <2>2
<1>9. ASSUME NEW x \in Coro, saved[s] # CallerCtx(x)
      PROVE  AttachedTo'[x] = AttachedTo[x]
  <2>1. \A y \in Stack : saved'[y] = CallerCtx(x) <=> saved[y] = CallerCtx(x)
    BY <1>3, <1>5, <1>9
  <2> QED
    BY <1>1, <2>1 DEF View
<1> DEFINE next == IF left = "detached" THEN on ELSE NoSlot
<1>10. Comp!Leave(c, next)
  <2>1. CASE depth[c] > 0
    <3>1. saved[s] = CallerCtx(c) /\ head[s] = head[c]
      BY <2>1 DEF Left, Shape, Paths
    <3>2. AttachedTo[c] = s
      BY <1>1, <3>1 DEF View
    <3>3. AttachedTo' = [AttachedTo EXCEPT ![c] = NoSlot]
      <4>1. \A y \in Stack : saved'[y] # CallerCtx(c)
        BY <1>3, <1>5, <1>6, <3>1
      <4>2. AttachedTo'[c] = NoSlot
        BY <1>1, <4>1 DEF View
      <4>3. \A x \in Coro : x # c => AttachedTo'[x] = AttachedTo[x]
        BY <1>9, <3>1
      <4> QED
        BY <1>1, <4>2, <4>3 DEF View
    <3>4. GoesOnAt' = [GoesOnAt EXCEPT ![c] = next]
      <4>1. \A x \in Coro : x # c => GoesOnAt'[x] = GoesOnAt[x]
        BY <1>8, <3>1
      <4>2. GoesOnAt'[NULL] = GoesOnAt[NULL]
        <5>1. CASE chain_head = NULL
          BY <1>1, <1>2, <1>5, <3>1, <5>1 DEF View
        <5>2. CASE chain_head # NULL
          <6>1. PICK y \in Stack : /\ saved[y] = main_react
                                   /\ main_react \in {MainResumeCtx} \cup {Context(x) : x \in Coro}
            BY <1>2, <1>5, <5>2 DEF Shape, Places
          <6>2. y # c /\ y # s
            BY <1>5, <3>1, <6>1
          <6> QED
            BY <1>1, <1>2, <1>3, <1>5, <3>1, <5>2, <6>1, <6>2 DEF View
        <5> QED
          BY <5>1, <5>2
      <4> QED
        BY <1>1, <1>2, <1>7, <4>1, <4>2 DEF View
    <3> QED
      BY <1>2, <3>2, <3>3, <3>4 DEF Comp!Leave
  <2>2. CASE ~ depth[c] > 0
    <3>1. /\ saved[s] = main_react /\ head[s] = NULL /\ head[c] = c
          /\ main_react \in {MainResumeCtx} \cup {Context(x) : x \in Coro}
      BY <2>2 DEF Left, Shape, Paths
    <3>2. AttachedTo[c] = NoSlot
      <4>1. depth[c] = 0
        BY <2>2
      <4>2. \A y \in Stack : saved[y] # CallerCtx(c)
        BY <1>1, <4>1, Unused
      <4> QED
        BY <1>1, <4>2 DEF View
    <3>3. AttachedTo' = AttachedTo
      <4>1. \A x \in Coro : AttachedTo'[x] = AttachedTo[x]
        BY <1>9, <3>1
      <4> QED
        BY <1>1, <4>1 DEF View
    <3>4. GoesOnAt[NULL] = s
      BY <1>1, <1>5, <3>1 DEF View
    <3>5. GoesOnAt' = [GoesOnAt EXCEPT ![c] = next, ![NULL] = NoSlot]
      <4>1. GoesOnAt'[NULL] = NoSlot
        BY <1>1, <1>2, <3>1 DEF View
      <4>2. ASSUME NEW x \in Coro, x # c PROVE GoesOnAt'[x] = GoesOnAt[x]
        <5>1. CASE saved[s] # Context(x)
          BY <1>8, <4>2, <5>1
        <5>2. CASE saved[s] = Context(x)
          <6>1. MainWaitsAt(head, Context(x))
            BY <1>2, <3>1, <5>2 DEF MainWaitsAt
          <6>2. state[x] = "running"
            BY <5>2, <6>1 DEF Shape, Places
          <6> QED
            BY <1>1, <1>4, <4>2, <6>2 DEF View
        <5> QED
          BY <5>1, <5>2
      <4> QED
        BY <1>1, <1>2, <1>7, <4>1, <4>2 DEF View
    <3> QED
      BY <1>2, <3>2, <3>3, <3>4, <3>5 DEF Comp!Leave
  <2> QED
    BY <2>1, <2>2
<1>11. CASE left = "detached"
  <2>1. c \in Comp!Attachment!Chain(on, Comp!Attacher)
    <3>1. c \in DOMAIN Comp!Attacher
      BY DEF Comp!Attacher, Comp!Place
    <3> QED
      BY <1>2, <3>1 DEF Comp!Attachment!Chain
  <2> QED
    BY <1>10, <1>11, <2>1 DEF Comp!DetachAs
<1>12. CASE left = "terminated"
  BY <1>2, <1>10, <1>12 DEF Comp!End
<1> QED
  BY <1>11, <1>12

\* RESUME suspends the operating component and lets another one go on.
LEMMA ResumedComponents ==
    ASSUME IInv, IInv', NEW head \in [Stack -> Stack], NEW depth \in [Stack -> Nat],
           Shape(head, depth), NEW c \in Coro, NEW s \in Stack, Resumed(c, s, head, depth)
    PROVE  Comp!ResumeAs(c)
<1> USE SlotFacts
<1>1. View /\ View' /\ TypeOK
  BY IInvView, IInvViewNext DEF IInv
<1>2. PICK h \in Stack : h = head[on]
  BY <1>1 DEF TypeOK
<1>3. PICK slot \in {MainResumeCtx} \cup {Context(x) : x \in Coro} :
         slot = ResumedFrom(head) /\ \A x \in Stack : saved[x] # slot
  BY <1>1, ResumedFromUnused
<1>4. /\ state[c] = "detached" /\ saved[s] = Context(c)
      /\ state' = [x \in Coro |-> IF x = h THEN "detached"
                                  ELSE IF x = c THEN "running" ELSE state[x]]
      /\ main_react' = IF h = NULL THEN slot ELSE main_react
      /\ saved' = [saved EXCEPT ![on] = slot, ![s] = NoSlot]
      /\ on' = s /\ chain_head' = c
  BY <1>2, <1>3 DEF Resumed
<1>5. on \in Stack /\ saved[on] = NoSlot /\ chain_head = h /\ head[NULL] = NULL
  BY <1>1, <1>2 DEF Shape, Operating, Paths, TypeOK
<1>6. h # c /\ head[s] = c /\ s # on /\ ~ MainWaitsAt(head, Context(c))
  BY <1>2, <1>4, <1>5 DEF Shape, Places
<1>7. slot = IF on = NULL THEN MainResumeCtx ELSE IF h = NULL THEN Context(on) ELSE Context(h)
  BY <1>2, <1>3 DEF ResumedFrom
<1>8. \A x \in Stack : saved'[x] = IF x = s THEN NoSlot ELSE IF x = on THEN slot ELSE saved[x]
  BY <1>1, <1>4 DEF TypeOK
<1>9. \A x \in Coro : state'[x] = IF x = h THEN "detached"
                                  ELSE IF x = c THEN "running" ELSE state[x]
  BY <1>4
<1>10. Comp!OperatingHead = h
  BY <1>2, Heading
<1>11. GoesOnAt[c] = s
  BY <1>1, <1>4 DEF View
<1>12. AttachedTo' = AttachedTo
  <2>1. ASSUME NEW x \in Coro PROVE AttachedTo'[x] = AttachedTo[x]
    <3>1. /\ slot # CallerCtx(x) /\ NoSlot # CallerCtx(x)
          /\ saved[s] # CallerCtx(x) /\ saved[on] # CallerCtx(x)
      BY <1>4, <1>5
    <3>2. \A y \in Stack : saved'[y] = CallerCtx(x) <=> saved[y] = CallerCtx(x)
      BY <3>1, <1>8
    <3> QED
      BY <1>1, <3>2 DEF View
  <2> QED
    BY <1>1, <2>1 DEF View
<1>13. GoesOnAt' = [GoesOnAt EXCEPT ![h] = on, ![c] = NoSlot]
  <2>1. GoesOnAt'[c] = NoSlot
    BY <1>1, <1>6, <1>9 DEF View
  <2>2. GoesOnAt'[h] = on
    <3>1. CASE h = NULL
      BY <1>1, <1>4, <1>5, <1>6, <1>8, <3>1, ZenonT(30) DEF View
    <3>2. CASE h # NULL
      <4>1. slot = Context(h)
        BY <1>2, <1>5, <1>7, <3>2
      <4> QED
        BY <1>1, <1>5, <1>6, <1>8, <1>9, <3>2, <4>1 DEF View
    <3> QED
      BY <3>1, <3>2
  <2>3. ASSUME NEW x \in Coro, x # c, x # h PROVE GoesOnAt'[x] = GoesOnAt[x]
    <3>1. CASE state[x] = "detached"
      <4>1. PICK y \in Stack : saved[y] = Context(x)
        BY <3>1 DEF Shape, Objects
      <4>2. saved'[y] = Context(x) /\ state'[x] = "detached"
        BY <1>4, <1>5, <1>8, <1>9, <2>3, <3>1, <4>1
      <4> QED
        BY <1>1, <3>1, <4>1, <4>2 DEF View
    <3>2. CASE state[x] # "detached"
      BY <1>1, <1>9, <2>3, <3>2 DEF View
    <3> QED
      BY <3>1, <3>2
  <2>4. h # NULL => GoesOnAt'[NULL] = GoesOnAt[NULL]
    <3> SUFFICES ASSUME h # NULL PROVE GoesOnAt'[NULL] = GoesOnAt[NULL]
      OBVIOUS
    <3>1. PICK y \in Stack : saved[y] = main_react /\ main_react \in Slot
      BY <1>2 DEF Shape, Places
    <3>2. y # s
      BY <1>2, <1>4, <1>6, <3>1 DEF MainWaitsAt
    <3>3. saved'[y] = main_react' /\ chain_head' # NULL
      BY <1>4, <1>5, <1>8, <3>1, <3>2
    <3> QED
      BY <1>1, <1>5, <3>1, <3>3 DEF View
  <2> QED
    BY <1>1, <2>1, <2>2, <2>3, <2>4 DEF View
<1> QED
  BY <1>4, <1>6, <1>10, <1>11, <1>12, <1>13 DEF Comp!ResumeAs, Comp!Suspended

LEMMA InitComponents == Init => Comp!ComponentsInit
<1> SUFFICES ASSUME Init PROVE Comp!ComponentsInit
  OBVIOUS
<1> USE SlotFacts
<1>1. View
  BY InitIInv, IInvView
<1>2. /\ on = NULL /\ chain_head = NULL
      /\ \A x \in Coro : state[x] = "new"
      /\ \A s \in Stack : saved[s] = NoSlot
  BY DEF Init
<1>3. AttachedTo = [x \in Coro |-> NoSlot]
  BY <1>1, <1>2 DEF View
<1>4. GoesOnAt = [x \in Stack |-> NoSlot]
  BY <1>1, <1>2 DEF View
<1> QED
  BY <1>2, <1>3, <1>4 DEF Comp!ComponentsInit, Comp!Place, Stack

LEMMA StepComponents ==
    ASSUME IInv, IInv', [PlainNext]_vars
    PROVE  [Comp!ComponentsNext]_(Comp!compVars)
<1>1. PICK head \in [Stack -> Stack], depth \in [Stack -> Nat] : Shape(head, depth)
  BY DEF IInv
<1>2. TypeOK
  BY DEF IInv
<1>3. ASSUME NEW c \in Coro, New(c) \/ PlainCall(c)
      PROVE  Comp!Begin(c) \/ Comp!CallAs(c)
  <2>1. Attached(c, head, depth)
    BY <1>1, <1>2, <1>3, NewEffect, CallEffect
  <2> QED
    BY <1>1, <2>1, AttachedComponents
<1>4. ASSUME NEW c \in Coro, OwnDetach(c)
      PROVE  Comp!DetachAs(c)
  <2>1. PICK s \in Stack : Left(c, "detached", s, head, depth)
    BY <1>1, <1>2, <1>4, DetachEffect
  <2> QED
    BY <1>1, <2>1, LeftComponents
<1>5. CASE Terminate
  <2>1. PICK c \in Coro : c = on
    BY <1>1, <1>2, <1>5, TerminateEffect
  <2>2. PICK s \in Stack : Left(c, "terminated", s, head, depth)
    BY <1>1, <1>2, <1>5, <2>1, TerminateEffect
  <2>3. Comp!End
    BY <1>1, <2>2, LeftComponents
  <2> QED
    BY <2>3 DEF Comp!ComponentsNext
<1>6. ASSUME NEW c \in Coro, Resume(c)
      PROVE  Comp!ResumeAs(c)
  <2>1. PICK s \in Stack : Resumed(c, s, head, depth)
    BY <1>1, <1>2, <1>6, ResumeEffect
  <2> QED
    BY <1>1, <2>1, ResumedComponents
<1>7. ASSUME UNCHANGED <<state, main_react, on, saved>>
      PROVE  UNCHANGED Comp!compVars
  BY <1>7 DEF Comp!compVars, AttachedTo, GoesOnAt, Attacher, StackIn, ComponentHead
<1> QED
  BY <1>3, <1>4, <1>5, <1>6, <1>7
     DEF PlainNext, Common, Refused, EndProgram, vars, Comp!ComponentsNext

\* Stacks and contexts implement the components of Simula.
THEOREM Implementation == PlainSpec => ImplementsComponents
<1>1. IInv /\ IInv' /\ [PlainNext]_vars => [Comp!ComponentsNext]_(Comp!compVars)
  BY StepComponents
<1> QED
  BY <1>1, InitComponents, Invariance, PTL
     DEF PlainSpec, PlainNext, ImplementsComponents, Comp!ComponentsSpec
=============================================================================
