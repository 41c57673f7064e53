--------------------------- MODULE SimulationFifo ---------------------------
(***************************************************************************)
(* Programs that schedule without jumping the queue: they use NEW, plain   *)
(* ACTIVATE AT / DELAY, HOLD and PASSIVATE, and no PRIOR, BEFORE, AFTER,   *)
(* direct activation, REACTIVATE or CANCEL.  For these the runtime owes    *)
(* every process its turn.                                                 *)
(***************************************************************************)
EXTENDS Simulation

FifoStatement(c) ==
    \/ \E p \in Proc : NewProcess(c, p)
    \/ \E p \in Proc, t \in Times : Activate(c, p, t, FALSE, FALSE)
    \/ \E dt \in Times : Hold(c, dt)
    \/ Passivate(c)
    \/ Terminate(c)

\* A statement by which process c gives up control.
GivesUp(c) == (\E dt \in Times : Hold(c, dt)) \/ Passivate(c) \/ Terminate(c)

FifoNext == (\E c \in Actor : FifoStatement(c)) \/ MainLoop \/ EndProgram

\* The runtime's loop keeps turning, and the body of a process does not
\* compute for ever without reaching a statement that gives up control.
FifoSpec ==
    /\ Init /\ [][FifoNext]_vars
    /\ WF_vars(MainLoop)
    /\ WF_vars(\E c \in Proc : GivesUp(c))

-----------------------------------------------------------------------------
\* A process whose notice is due now gets control while the main program
\* dispatches, although others may HOLD(0) again and again: a notice is
\* ranked behind those that wait for the same time.
DueProcessRuns ==
    \A p \in Proc :
        (/\ status = "running" /\ loop # "none"
         /\ \E i \in DOMAIN sqs : sqs[i] = [obj |-> p, evtime |-> time])
        ~> (current = p)
=============================================================================
