----------------------------- MODULE MCDevices -----------------------------
(***************************************************************************)
(* The two classes that hand requests to a device, on small instances:     *)
(* CoIoUring and IoSink.  They share no state; a behaviour is one of       *)
(* either, and the variables of the other stay as they are at first.       *)
(***************************************************************************)
EXTENDS CoIoUring, IoSink

VARIABLE device    \* which one

devicesVars == <<device, vars, sinkVars>>

DevicesInit ==
    /\ Init /\ SinkInit
    /\ \/ device = "uring"
       \/ device = "sink" /\ ~partial /\ ~asserts

OfUring(A) == device = "uring" /\ A /\ UNCHANGED <<device, sinkVars>>
OfSink(A)  == device = "sink" /\ A /\ UNCHANGED <<device, vars>>

DevicesNext == OfUring(Next) \/ OfSink(SinkNext)

\* The fairness of FairSpec and of SinkFairSpec.
DevicesSpec ==
    /\ DevicesInit /\ [][DevicesNext]_devicesVars
    /\ WF_devicesVars(OfUring(RunLoop))
    /\ \A r \in Requests :
          /\ WF_devicesVars(OfUring(Answer(r)))
          /\ WF_devicesVars(OfUring(SubmitPush(r) \/ SubmitSignal(r)))
    /\ WF_devicesVars(OfSink(Drain)) /\ SF_devicesVars(OfSink(Accept))
    /\ \A r \in SinkRequests : WF_devicesVars(OfSink(KernelAnswers(r)))
=============================================================================
