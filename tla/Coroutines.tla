----------------------------- MODULE Coroutines -----------------------------
(***************************************************************************)
(* The coroutine layer of the runtime (runtime/simula_rt.c, the ucontext   *)
(* version): NEW of an object with a body, DETACH, RESUME, CALL and the    *)
(* end of a body, as switches between C stacks.                            *)
(*                                                                         *)
(* Each object has a stack of its own and two places to save a context in, *)
(* context and caller_ctx; the main program has _main_resume_ctx.  A       *)
(* stack that is suspended can go on only from the place it was saved in   *)
(* last, as long as no other stack was saved there since: saved[s] is that *)
(* place.  Switching to a place nobody can go on from is undefined.        *)
(*                                                                         *)
(* One stack runs at a time.  What its code calls next is arbitrary.  A    *)
(* suspended stack holds the locals prev and prev_head of the function     *)
(* that suspended it, and assigns them back when it goes on.               *)
(***************************************************************************)
EXTENDS Naturals

CONSTANTS
    Coro,   \* the objects, each with its SimulaCoro
    NULL,   \* the null pointer, standing for the main program
    NoSlot, \* a stack that is not suspended
    Lost    \* a suspended stack whose context was overwritten

Stack == Coro \cup {NULL}

\* _main_resume_ctx, where RESUME saves the main program.
MainResumeCtx == <<"main_resume_ctx", NULL>>

Slot == ({"context", "caller_ctx"} \X Coro) \cup {MainResumeCtx}

ASSUME CoroutinesAssumption ==
    /\ NULL \notin Coro
    /\ NoSlot \notin Slot \cup Stack
    /\ Lost \notin Slot \cup {NoSlot}

VARIABLES
    state,      \* coro->state
    via_resume, \* coro->via_resume
    current,    \* _coro_current
    main_react, \* _main_react
    chain_head, \* _chain_head
    on,         \* the stack that runs
    saved,      \* where each suspended stack can go on from
    frame,      \* the locals each suspended stack assigns back
    status      \* whether the program runs, or how it ended

vars == <<state, via_resume, current, main_react, chain_head, on, saved, frame, status>>

Frame == [restores : BOOLEAN, prev : Stack, prev_head : Stack]

\* detach assigns nothing after its switch.
DetachFrame == [restores |-> FALSE, prev |-> NULL, prev_head |-> NULL]

Init ==
    /\ state = [c \in Coro |-> "new"]
    /\ via_resume = [c \in Coro |-> FALSE]
    /\ current = NULL
    /\ main_react = NoSlot
    /\ chain_head = NULL
    /\ on = NULL
    /\ saved = [s \in Stack |-> NoSlot]
    /\ frame = [s \in Stack |-> DetachFrame]
    /\ status = "running"

-----------------------------------------------------------------------------
(* Faulty variants of definitions below: with one of them in the place of  *)
(* the right one, a property of this module fails.                         *)

\* The main program's case forgotten: it has no context of its own.
SlotWithoutMain ==
    IF current # NULL /\ ~ via_resume[current] /\ chain_head # NULL
      THEN <<"context", chain_head>> ELSE <<"context", current>>

\* An attached resumer saved in its own context, not in its head's.
SlotWithoutHead == IF current = NULL THEN MainResumeCtx ELSE <<"context", current>>

\* DETACH and the end always return to whoever transferred control in.
ExitToCaller(c) == <<"caller_ctx", c>>

\* prev_head not saved.
FrameWithoutHead == [restores |-> TRUE, prev |-> current, prev_head |-> NULL]

\* The check that the object is detached, forgotten.
TransferableUnchecked(c) == status = "running" /\ state[c] \in {"running", "detached"}

-----------------------------------------------------------------------------
(* Switching.                                                              *)

\* start, resume and call assign _coro_current and _chain_head back.
TransferFrame == [restores |-> TRUE, prev |-> current, prev_head |-> chain_head]

\* The running stack is saved in slot; whoever was saved there is lost.
SavedIn(slot) ==
    [s \in Stack |-> IF s = on THEN slot
                     ELSE IF saved[s] = slot THEN Lost ELSE saved[s]]

\* Control goes to slot, when the places are as in places and the globals
\* were set to now (_coro_current) and head (_chain_head) before.
GoTo(slot, places, now, head) ==
    IF \E s \in Stack : places[s] = slot
      THEN LET s == CHOOSE x \in Stack : places[x] = slot
           IN  /\ on' = s
               /\ saved' = [places EXCEPT ![s] = NoSlot]
               /\ current' = IF frame'[s].restores THEN frame'[s].prev ELSE now
               /\ chain_head' = IF frame'[s].restores THEN frame'[s].prev_head ELSE head
               /\ UNCHANGED status
      ELSE /\ status' = "stale jump"
           /\ saved' = places
           /\ current' = now /\ chain_head' = head
           /\ UNCHANGED on

\* swapcontext(from, to) in a function whose locals are f.
Swap(from, to, f, now, head) ==
    /\ frame' = [frame EXCEPT ![on] = f]
    /\ GoTo(to, SavedIn(from), now, head)

\* Where the detach or the end of c goes.
ExitOf(c) ==
    IF via_resume[c] /\ main_react # NoSlot THEN main_react ELSE <<"caller_ctx", c>>

Running == status = "running"

-----------------------------------------------------------------------------
(* The operations of the running code.                                     *)

\* NEW: simula_coro_create and simula_coro_start.
New(c) ==
    /\ Running
    /\ state[c] = "new"
    /\ state' = [state EXCEPT ![c] = "running"]
    /\ via_resume' = [via_resume EXCEPT ![c] = FALSE]
    /\ main_react' = IF current = NULL THEN <<"caller_ctx", c>> ELSE main_react
    /\ frame' = [frame EXCEPT ![on] = TransferFrame]
    /\ saved' = SavedIn(<<"caller_ctx", c>>)
    /\ on' = c
    /\ current' = c
    /\ UNCHANGED <<chain_head, status>>

\* DETACH: simula_coro_detach of c.  The statement detaches the object whose
\* text it stands in (this), which need not be the one whose stack runs.
Detach(c) ==
    /\ Running
    /\ state[c] # "new"
    /\ state' = [state EXCEPT ![c] = "detached"]
    /\ Swap(<<"context", c>>, ExitOf(c), DetachFrame, current, chain_head)
    /\ UNCHANGED <<via_resume, main_react>>

\* The checks at the beginning of simula_coro_resume and simula_coro_call.
Transferable(c) == Running /\ state[c] = "detached"

\* RESUME and CALL of an object that is not detached end the program.
Refused(c) ==
    /\ Running
    /\ state[c] \in {"running", "terminated"}
    /\ status' = "transfer error"
    /\ UNCHANGED <<state, via_resume, current, main_react, chain_head, on, saved, frame>>

\* Where simula_coro_resume saves the resumer.
ResumerSlot ==
    CASE current = NULL       -> MainResumeCtx
      [] current # NULL /\ via_resume[current] -> <<"context", current>>
      [] current # NULL /\ ~ via_resume[current] /\ chain_head # NULL ->
            <<"context", chain_head>>
      [] OTHER                -> <<"context", current>>

\* The component that simula_coro_resume marks as detached, NULL for the
\* main program's.
ResumerHead ==
    IF current # NULL /\ via_resume[current] THEN current
    ELSE IF current # NULL THEN chain_head ELSE NULL

\* RESUME: simula_coro_resume.
Resume(c) ==
    /\ Transferable(c)
    /\ via_resume' = [via_resume EXCEPT ![c] = TRUE]
    /\ state' = [x \in Coro |-> IF x = ResumerHead THEN "detached"
                                ELSE IF x = c THEN "running" ELSE state[x]]
    /\ main_react' = IF ResumerHead = NULL THEN ResumerSlot ELSE main_react
    /\ Swap(ResumerSlot, <<"context", c>>, TransferFrame, c, c)

\* CALL: simula_coro_call.
Call(c) ==
    /\ Transferable(c)
    /\ state' = [state EXCEPT ![c] = "running"]
    /\ via_resume' = [via_resume EXCEPT ![c] = FALSE]
    /\ main_react' = IF current = NULL THEN <<"caller_ctx", c>> ELSE main_react
    /\ Swap(<<"caller_ctx", c>>, <<"context", c>>, TransferFrame, c, chain_head)

\* The end of a body: coro_trampoline, whose local self is the stack's owner.
Terminate ==
    /\ Running
    /\ on # NULL
    /\ state' = [state EXCEPT ![on] = "terminated"]
    /\ UNCHANGED <<via_resume, main_react, frame>>
    /\ GoTo(ExitOf(on), saved, current, chain_head)

\* The main program ends, whatever is suspended.
EndProgram ==
    /\ Running
    /\ on = NULL
    /\ status' = "finished"
    /\ UNCHANGED <<state, via_resume, current, main_react, chain_head, on, saved, frame>>

Next ==
    \/ \E c \in Coro : New(c) \/ Detach(c) \/ Resume(c) \/ Call(c) \/ Refused(c)
    \/ Terminate
    \/ EndProgram

Spec == Init /\ [][Next]_vars

-----------------------------------------------------------------------------
(* Components, as the stacks show them.                                    *)

\* The stack that goes on when control goes to slot.
StackIn(slot) ==
    IF \E s \in Stack : saved[s] = slot THEN CHOOSE s \in Stack : saved[s] = slot ELSE NoSlot

\* The stack c returns to when it leaves while attached.
Attacher(c) == IF c = NULL THEN NoSlot ELSE StackIn(<<"caller_ctx", c>>)

Attachment == INSTANCE Chains

ComponentHead(s) == Attachment!Head(s, [x \in Stack |-> Attacher(x)])

\* The objects' attachments, and where each suspended component goes on.
AttachedTo == [c \in Coro |-> Attacher(c)]

GoesOnAt ==
    [s \in Stack |->
        IF s = NULL
          THEN IF ComponentHead(on) = NULL \/ main_react = NoSlot
                 THEN NoSlot ELSE StackIn(main_react)
          ELSE IF state[s] = "detached" THEN StackIn(<<"context", s>>) ELSE NoSlot]

-----------------------------------------------------------------------------
(* Properties.                                                             *)

TypeOK ==
    /\ state \in [Coro -> {"new", "running", "detached", "terminated"}]
    /\ via_resume \in [Coro -> BOOLEAN]
    /\ current \in Stack
    /\ main_react \in Slot \cup {NoSlot}
    /\ chain_head \in Stack
    /\ on \in Stack
    /\ saved \in [Stack -> Slot \cup {NoSlot, Lost}]
    /\ frame \in [Stack -> Frame]
    /\ status \in {"running", "transfer error", "stale jump", "finished"}

\* Control never goes to a context nobody can go on from: no detach, end,
\* RESUME or CALL switches into a stale frame (simula_rt.c:172-176).
NoStaleJump == status # "stale jump"

\* No suspended stack is overwritten, the main program's included: every
\* place to save a context in has one user at a time (simula_rt.c:178-180).
NothingLost == \A s \in Stack : saved[s] # Lost

\* _chain_head is the head of the operating chain, NULL for the main
\* program's component (simula_rt.c:182-183).
ChainHeadIsHead == Running => chain_head = ComponentHead(on)

\* The objects marked detached are exactly those suspended at their context
\* as heads of components: RESUME and CALL accept nobody who waits there as a
\* part of the main program's component, and refuse nobody who could go on.
DetachedIsResumable ==
    Running =>
        \A c \in Coro :
            state[c] = "detached" <=>
                /\ StackIn(<<"context", c>>) # NoSlot
                /\ ComponentHead(on) = NULL \/ main_react # <<"context", c>>

\* The components the stacks represent.
Comp == INSTANCE Components
          WITH Object     <- Coro,
               Main       <- NULL,
               None       <- NoSlot,
               operating  <- on,
               attachedTo <- AttachedTo,
               goesOnAt   <- GoesOnAt

\* Stacks, saved contexts and the three globals behave as a system of
\* components: every transfer of control lands where Simula says.
ImplementsComponents == Comp!ComponentsSpec
=============================================================================
