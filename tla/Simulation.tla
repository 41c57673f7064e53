----------------------------- MODULE Simulation -----------------------------
(***************************************************************************)
(* The SIMULATION environment of the runtime (runtime/simula_rt.c): the    *)
(* sequencing set (SQS), the scheduling statements ACTIVATE, REACTIVATE,   *)
(* HOLD, PASSIVATE and CANCEL, the end of a process body, and the loop in  *)
(* which the main program dispatches event notices.                        *)
(*                                                                         *)
(* Control is with one actor at a time.  Between two runtime calls it runs *)
(* its own code, which the model leaves arbitrary: every statement that is *)
(* legal in that place may come next.  A process gives control up only by  *)
(* detaching its coroutine, which always lands in the main loop.           *)
(*                                                                         *)
(* A notice keeps the process and its event time; the field seq of the C   *)
(* struct is written and never read, and is left out.  Event times are     *)
(* integers here (the code only adds and compares them).                   *)
(***************************************************************************)
EXTENDS Integers, SequencesExt

CONSTANTS
    Proc,       \* the process objects
    NULL,       \* the null object: the main program, and NONE
    MaxTime     \* bound: no statement names a later time

ASSUME SimulationAssumption ==
    /\ NULL \notin Proc \cup Int
    /\ MaxTime \in Nat

VARIABLES
    sqs,        \* sim_sqs: the sequence of event notices
    time,       \* sim_time_v
    current,    \* sim_current_obj
    terminated, \* the processes whose SimProcState says terminated
    coro,       \* the state of every process's coroutine
    loop,       \* whether the main program is inside sim_main_loop, and how
    until,      \* the argument of that sim_main_loop
    status      \* whether the program still runs, and how it ended if not

vars == <<sqs, time, current, terminated, coro, loop, until, status>>

Actor  == Proc \cup {NULL}
Notice == [obj : Proc, evtime : Nat]
Loops  == {"none", "timed", "drain"}

\* How a program ends: at its END, or in one of the runtime errors.
Ends == {"finished", "resume error", "passivate error", "evtime error"}

Init ==
    /\ sqs = << >>
    /\ time = 0
    /\ current = NULL
    /\ terminated = {}
    /\ coro = [p \in Proc |-> "new"]
    /\ loop = "none"
    /\ until = 0
    /\ status = "running"

-----------------------------------------------------------------------------
(* Faulty variants of definitions below.  With one of them in the place of *)
(* the right one, a property of this module or of SimulationFifo fails.    *)

\* sim_remove_notice forgotten.
NothingRemoved(s, p) == s

\* sim_insert always at the end.
RankLast(s, t, prior) == Len(s) + 1

\* sim_insert stopping at notices for the same time.
RankBeforeEqual(s, t, prior) ==
    Min({i \in 1 .. Len(s) + 1 : i <= Len(s) => s[i].evtime >= t})

\* Event times in the past kept.
Unclamped(t) == t

\* Control handed over without suspending the coroutine.
YieldUndetached(c) == current' = NULL /\ UNCHANGED coro

\* sim_main_loop with < for <=.
DueBeforeUntil == sqs # << >> /\ (loop = "drain" \/ Head(sqs).evtime < until)

-----------------------------------------------------------------------------
(* The list operations of the sequencing set, as functions of a list s.    *)

\* sim_has_notice: some notice of s is p's.
HasNotice(s, p) == \E i \in DOMAIN s : s[i].obj = p

\* sim_remove_notice: s without the first notice of p.
Without(s, p) == RemoveFirstMatch(s, LAMBDA n : n.obj = p)

\* The place of the first notice of p in s.
PlaceOf(s, p) == SelectInSeq(s, LAMBDA n : n.obj = p)

\* Where sim_insert stops: the first place whose notice is not to be passed
\* by one for time t.
Rank(s, t, prior) ==
    Min({i \in 1 .. Len(s) + 1 :
            i <= Len(s) => s[i].evtime > t \/ (s[i].evtime = t /\ prior)})

\* An event time in the past is moved to the present.
Clamped(t) == IF t < time THEN time ELSE t

\* sim_insert: s with a notice of p for time t.
Insert(s, p, t, prior) ==
    InsertAt(s, Rank(s, Clamped(t), prior), [obj |-> p, evtime |-> Clamped(t)])

-----------------------------------------------------------------------------
(* Who has control.                                                        *)

Born(p) == p \in Proc /\ coro[p] # "new"

\* Actor c runs its own code: c is the operating process, or c is the main
\* program outside of its dispatching loop.
Control(c) ==
    /\ status = "running"
    /\ current = c
    /\ c = NULL => loop = "none"

\* Process c leaves control to the main loop, at simula_coro_detach.  The
\* loop's first assignment after the switch makes the main program current.
Yield(c) ==
    /\ coro' = [coro EXCEPT ![c] = "detached"]
    /\ current' = NULL

\* A statement about p that makes p yield exactly when p is the operating
\* process itself.
YieldIfSelf(c, p) ==
    IF p = c THEN Yield(c) ELSE UNCHANGED <<coro, current>>

\* The main program enters sim_main_loop.
EnterLoop(how, t) == loop' = how /\ until' = t

\* NEW of a process class.  The prelude's first statement is DETACH, so the
\* new object is suspended and control is back with its creator.
NewProcess(c, p) ==
    /\ Control(c)
    /\ coro[p] = "new"
    /\ coro' = [coro EXCEPT ![p] = "detached"]
    /\ UNCHANGED <<sqs, time, current, terminated, loop, until, status>>

-----------------------------------------------------------------------------
(* The scheduling statements.  Where the C function returns early nothing  *)
(* changes: such a call is a stuttering step.                              *)

\* The process can be scheduled at all, and REACTIVATE is used where it
\* already is.
MayActivate(c, p, reactivate) ==
    /\ Control(c)
    /\ Born(p)
    /\ p \notin terminated
    /\ HasNotice(sqs, p) \/ p = c => reactivate

\* simula_sim_activate: (RE)ACTIVATE p AT t [PRIOR], and DELAY, whose
\* generated code adds TIME to its argument.
Activate(c, p, t, prior, reactivate) ==
    /\ MayActivate(c, p, reactivate)
    /\ sqs' = Insert(Without(sqs, p), p, t, prior)
    /\ YieldIfSelf(c, p)
    /\ UNCHANGED <<time, terminated, loop, until, status>>

\* simula_sim_activate_rel when q has no notice: only REACTIVATE acts, and
\* leaves p passive.
ActivateNextToIdle(c, p, q, reactivate) ==
    /\ Control(c)
    /\ Born(p) /\ p \notin terminated
    /\ Born(q) /\ ~ HasNotice(sqs, q)
    /\ reactivate
    /\ sqs' = Without(sqs, p)
    /\ YieldIfSelf(c, p)
    /\ UNCHANGED <<time, terminated, loop, until, status>>

\* simula_sim_activate_rel: p takes the event time of q and a place next to
\* it.  If p is q, its own notice is gone when q is looked up again.
ActivateNextTo(c, p, q, before, reactivate) ==
    /\ MayActivate(c, p, reactivate)
    /\ HasNotice(sqs, q)
    /\ LET rest  == Without(sqs, p)
           place == PlaceOf(rest, q)
       IN  IF HasNotice(rest, q)
             THEN /\ sqs' = InsertAt(rest, IF before THEN place ELSE place + 1,
                                     [obj |-> p, evtime |-> rest[place].evtime])
                  /\ YieldIfSelf(c, p)
             ELSE /\ sqs' = rest
                  /\ UNCHANGED <<coro, current>>
    /\ UNCHANGED <<time, terminated, loop, until, status>>

\* simula_sim_activate_now: (RE)ACTIVATE p.  A process queues its own
\* continuation behind p and yields; the main program dispatches whatever is
\* due at the present time.
ActivateNow(c, p, reactivate) ==
    /\ MayActivate(c, p, reactivate)
    /\ p # c
    /\ LET rest == Without(sqs, p)
           self == IF c = NULL THEN rest ELSE Insert(rest, c, time, TRUE)
       IN  sqs' = Insert(self, p, time, TRUE)
    /\ IF c = NULL
         THEN EnterLoop("timed", time) /\ UNCHANGED <<coro, current>>
         ELSE Yield(c) /\ UNCHANGED <<loop, until>>
    /\ UNCHANGED <<time, terminated, status>>

\* simula_sim_hold: HOLD(dt).
Hold(c, dt) ==
    LET t == time + (IF dt < 0 THEN 0 ELSE dt)
    IN  /\ Control(c)
        /\ t <= MaxTime
        /\ IF c = NULL
             THEN EnterLoop("timed", t) /\ UNCHANGED <<sqs, coro, current>>
             ELSE /\ sqs' = Insert(sqs, c, t, FALSE)
                  /\ Yield(c)
                  /\ UNCHANGED <<loop, until>>
        /\ UNCHANGED <<time, terminated, status>>

\* simula_sim_passivate: PASSIVATE.
Passivate(c) ==
    /\ Control(c)
    /\ IF c = NULL
         THEN EnterLoop("drain", 0) /\ UNCHANGED <<coro, current>>
         ELSE Yield(c) /\ UNCHANGED <<loop, until>>
    /\ UNCHANGED <<sqs, time, terminated, status>>

\* simula_sim_cancel: CANCEL(p); cancelling the operating process is
\* PASSIVATE.
Cancel(c, p) ==
    /\ Control(c)
    /\ Born(p)
    /\ sqs' = Without(sqs, p)
    /\ YieldIfSelf(c, p)
    /\ UNCHANGED <<time, terminated, loop, until, status>>

\* simula_sim_terminate, reached at the end of every process body: the
\* process detaches in a loop it never leaves.
Terminate(c) ==
    /\ Control(c)
    /\ c \in Proc
    /\ terminated' = terminated \cup {c}
    /\ sqs' = Without(sqs, c)
    /\ Yield(c)
    /\ UNCHANGED <<time, loop, until, status>>

\* simula_sim_evtime of an idle process is a runtime error.
EvtimeOfIdle(c, p) ==
    /\ Control(c)
    /\ Born(p) /\ p # c /\ ~ HasNotice(sqs, p)
    /\ status' = "evtime error"
    /\ UNCHANGED <<sqs, time, current, terminated, coro, loop, until>>

\* The main program reaches its END.
EndProgram ==
    /\ Control(NULL)
    /\ status' = "finished"
    /\ UNCHANGED <<sqs, time, current, terminated, coro, loop, until>>

-----------------------------------------------------------------------------
(* sim_main_loop.                                                          *)

InLoop == status = "running" /\ current = NULL /\ loop # "none"

\* The loop's condition; "drain" is the loop until INFINITY.
Due == sqs # << >> /\ (loop = "drain" \/ Head(sqs).evtime <= until)

\* One turn of the loop: the first notice is taken, time moves to it, and
\* its process is resumed.  A terminated process is skipped; RESUME itself
\* refuses a coroutine that is not detached.
Dispatch ==
    /\ InLoop
    /\ Due
    /\ sqs' = Tail(sqs)
    /\ time' = Head(sqs).evtime
    /\ LET p == Head(sqs).obj
       IN  IF p \in terminated
             THEN UNCHANGED <<coro, current, status>>
             ELSE IF coro[p] = "detached"
               THEN /\ current' = p
                    /\ coro' = [coro EXCEPT ![p] = "running"]
                    /\ UNCHANGED status
               ELSE /\ current' = p
                    /\ status' = "resume error"
                    /\ UNCHANGED coro
    /\ UNCHANGED <<terminated, loop, until>>

\* The loop ends: a timed one moves time up to its limit and the main
\* program continues; PASSIVATE of the main program reports an error.
LeaveLoop ==
    /\ InLoop
    /\ ~ Due
    /\ IF loop = "timed"
         THEN time' = Clamped(until) /\ UNCHANGED status
         ELSE status' = "passivate error" /\ UNCHANGED time
    /\ EnterLoop("none", 0)
    /\ UNCHANGED <<sqs, current, terminated, coro>>

-----------------------------------------------------------------------------
\* The arguments a statement may name: times before the present included.
Times == -1 .. MaxTime

Statement(c) ==
    \/ \E p \in Proc : NewProcess(c, p)
    \/ \E p \in Proc, t \in Times, prior, re \in BOOLEAN : Activate(c, p, t, prior, re)
    \/ \E p, q \in Proc, re \in BOOLEAN : ActivateNextToIdle(c, p, q, re)
    \/ \E p, q \in Proc, before, re \in BOOLEAN : ActivateNextTo(c, p, q, before, re)
    \/ \E p \in Proc, re \in BOOLEAN : ActivateNow(c, p, re)
    \/ \E dt \in Times : Hold(c, dt)
    \/ Passivate(c)
    \/ \E p \in Proc : Cancel(c, p)
    \/ Terminate(c)
    \/ \E p \in Proc : EvtimeOfIdle(c, p)

MainLoop == Dispatch \/ LeaveLoop

Next ==
    \/ \E c \in Actor : Statement(c)
    \/ MainLoop
    \/ EndProgram

Spec == Init /\ [][Next]_vars

-----------------------------------------------------------------------------
(* Type invariant.                                                         *)

TypeOK ==
    /\ sqs \in Seq(Notice)
    /\ time \in Nat
    /\ current \in Actor
    /\ terminated \subseteq Proc
    /\ coro \in [Proc -> {"new", "detached", "running"}]
    /\ loop \in Loops
    /\ until \in Nat
    /\ status \in Ends \cup {"running"}

(* Safety.                                                                 *)

\* A process has at most one notice, and the operating process and the
\* terminated ones have none.  sim_remove_notice deletes only the first one
\* it meets and relies on there being no second (simula_rt.c:1302).
OneNotice ==
    /\ \A i, j \in DOMAIN sqs : sqs[i].obj = sqs[j].obj => i = j
    /\ ~ HasNotice(sqs, current)
    /\ \A p \in terminated : ~ HasNotice(sqs, p)

\* The sequencing set is in the order of event times and never behind the
\* present, whatever mixture of AT, BEFORE, AFTER, PRIOR and direct
\* activation built it.  The dispatching loop looks at the head only.
Ordered ==
    /\ \A i, j \in DOMAIN sqs : i < j => sqs[i].evtime <= sqs[j].evtime
    /\ \A i \in DOMAIN sqs : time <= sqs[i].evtime

\* The loop never resumes a process whose coroutine is not detached, so the
\* RESUME errors of the coroutine layer cannot come out of scheduling.
ResumesOnlyDetached == status # "resume error"

\* The coroutine states and the sequencing set agree: exactly the operating
\* process runs, whoever waits in the set is suspended in a detach, a
\* terminated process never operates again, a process operates only on
\* behalf of a loop of the main program, and a timed loop is not late.
Consistent ==
    /\ status = "running" => \A p \in Proc : coro[p] = "running" <=> p = current
    /\ \A i \in DOMAIN sqs : coro[sqs[i].obj] = "detached"
    /\ current \notin terminated
    /\ current \in Proc => loop # "none"
    /\ loop = "timed" => time <= until

\* When a loop of the main program ends, the clock shows exactly the time
\* the program asked for and nothing is left to do up to that time (HOLD in
\* main, "drive the event loop for dt time units").
HoldIsExact ==
    [][loop = "timed" /\ loop' = "none"
         => /\ time' = until
            /\ \A i \in DOMAIN sqs' : sqs'[i].evtime > time']_vars

-----------------------------------------------------------------------------
(* The abstract scheduler this one implements.                             *)

\* When p is due: the time of its notice, or never.
DueTime(p) ==
    IF HasNotice(sqs, p) THEN sqs[PlaceOf(sqs, p)].evtime ELSE NULL

Events == INSTANCE DiscreteEvents
            WITH now    <- time,
                 due    <- [p \in Proc |-> DueTime(p)],
                 active <- current,
                 Never  <- NULL

\* The sequencing set and its loop behave as a discrete event scheduler: the
\* process dispatched is always one of the earliest, the clock does not move
\* while a process operates and never overtakes a pending event.
ImplementsEvents == Events!Spec
=============================================================================
