------------------------------ MODULE Programs -------------------------------
(***************************************************************************)
(* The programs above and below the servers: the start-up of the block     *)
(* driver (drivers/virtio/blk/src/main.rs; its service is BlockDevice),    *)
(* init's log thread, the crasher and allocsmoke programs of base/, and an *)
(* application that calls the servers once init has handed over.           *)
(***************************************************************************)
EXTENDS Processes, SequencesExt

CONSTANTS
  Crashers, Smokes,     \* the threads that run crasher and allocsmoke
  HEAP_INITIAL_PAGES, FRAMES_PER_REQUEST

VARIABLE pr   \* thread -> where it is, and what it has obtained

Programmes == {"blk", "app"} \cup Crashers \cup Smokes

NewProgram == [pc |-> "start", caps |-> <<>>, pages |-> 0, script |-> <<>>]

ProgramsInit(script) ==
  pr = [t \in Programmes |->
          IF t = "app" THEN [NewProgram EXCEPT !.script = script] ELSE NewProgram]

At(t, pc) == pr[t].pc = pc
PrStep(t, pc) == pr' = [pr EXCEPT ![t].pc = pc]
PrQuiet == UNCHANGED <<inbox, answer>>

\* thread_exit, and a fault.
Exit(t, reason) ==
  /\ PrStep(t, "ended") /\ PrQuiet
  /\ threads' = Ended(t) /\ events' = Posted(t, reason)

\* The driver: bootstrap_caps, query_device_info, rings and buffer.
BlkRequest ==
  /\ Running("blk") /\ pr["blk"].pc \in {"start", "start2"}
  /\ request_round("blk") /\ UNCHANGED processVars
  /\ PrStep("blk", IF At("blk", "start") THEN "round1" ELSE "round2")

BlkRound1 ==
  /\ At("blk", "round1") /\ Answered("blk") /\ UNCHANGED faults
  /\ IF answer["blk"].label = "MORE" /\ Len(answer["blk"].caps) >= 4
       THEN PrStep("blk", "start2") /\ PrQuiet /\ threads' = Keep("blk") /\ UNCHANGED events
       ELSE Exit("blk", "exit")

BlkRound2 ==
  /\ At("blk", "round2") /\ Answered("blk") /\ UNCHANGED faults
  /\ IF answer["blk"].label = "DONE" /\ Len(answer["blk"].caps) >= 2
       THEN /\ CallCap("blk", answer["blk"].caps[2], [op |-> "QUERY_DEVICE_INFO"])
            /\ pr' = [pr EXCEPT !["blk"].pc = "info", !["blk"].caps = answer["blk"].caps]
            /\ threads' = Keep("blk") /\ UNCHANGED events
       ELSE Exit("blk", "exit")

\* Mapping the device, its reset and negotiation come before the first page is
\* asked for, the registration of the interrupt after the second.
request_frames(t, count, pc) ==
  /\ CallCap(t, pr[t].caps[1], [op |-> "REQUEST_FRAMES", count |-> count])
  /\ PrStep(t, pc) /\ UNCHANGED <<threads, events>>

BlkDevice ==
  /\ pr["blk"].pc \in {"info", "ring", "data"} /\ Answered("blk")
  /\ \/ /\ answer["blk"].label = "SUCCESS" /\ Works
        /\ CASE At("blk", "info") -> request_frames("blk", 1, "ring")
             [] At("blk", "ring") -> request_frames("blk", 1, "data")
             [] At("blk", "data") -> PrStep("blk", "serve") /\ PrQuiet
                                     /\ UNCHANGED <<threads, events>>
     \/ answer["blk"].label # "SUCCESS" /\ Exit("blk", "exit") /\ Works
     \/ answer["blk"].label = "SUCCESS" /\ Exit("blk", "exit") /\ Fails

\* The driver's service; a device error is one of the failures granted.
BlkServes ==
  /\ At("blk", "serve") /\ UNCHANGED <<pr, threads, events>>
  /\ \/ AnswerRead /\ (IF answer'[Oldest("blk").from].label = "DEVICE_STATUS" THEN Fails ELSE Works)
     \/ AnswerRegister /\ Works

\* log_receive_loop: the log thread answers whoever calls and calls nobody.
log_receive_loop ==
  /\ Running("log") /\ Waiting("log")
  /\ Respond("log", [label |-> "SUCCESS"])
  /\ UNCHANGED <<pr, processVars>>

\* crasher: bootstrap, a probe of the service manager where it has one, a
\* sleep, a fault.
CrasherStart(t) ==
  /\ Running(t) /\ At(t, "start")
  /\ request_round(t) /\ PrStep(t, "round") /\ UNCHANGED processVars

probe_svcmgr(t) ==
  /\ At(t, "round") /\ Answered(t) /\ UNCHANGED <<events, faults>>
  /\ IF GotRound(t) /\ Len(answer[t].caps) >= 2
       THEN /\ CallCap(t, answer[t].caps[2], [op |-> "QUERY_ENDPOINT", name |-> "probe"])
            /\ PrStep(t, "probed") /\ threads' = Keep(t)
       ELSE PrStep(t, "asleep") /\ PrQuiet
            /\ threads' = IF GotRound(t) THEN Keep(t) ELSE threads

Crash(t) ==
  /\ At(t, "asleep") \/ (At(t, "probed") /\ Answered(t))
  /\ Exit(t, "fault") /\ UNCHANGED faults

\* allocsmoke: bootstrap, the heap's pages in batches, exit.
SmokeStart(t) ==
  /\ Running(t) /\ At(t, "start")
  /\ request_round(t) /\ PrStep(t, "round") /\ UNCHANGED processVars

Batch(mapped) ==
  IF HEAP_INITIAL_PAGES - mapped <= FRAMES_PER_REQUEST
    THEN HEAP_INITIAL_PAGES - mapped ELSE FRAMES_PER_REQUEST

SmokeRound(t) ==
  /\ At(t, "round") /\ Answered(t) /\ UNCHANGED faults
  /\ IF GotRound(t) /\ Len(answer[t].caps) >= 2
       THEN /\ CallCap(t, answer[t].caps[2], [op |-> "REQUEST_FRAMES", count |-> Batch(0)])
            /\ pr' = [pr EXCEPT ![t].pc = "heap", ![t].caps = Tail(answer[t].caps)]
            /\ threads' = Keep(t) /\ UNCHANGED events
       ELSE Exit(t, "exit")

bootstrap_from_procmgr(t) ==
  /\ At(t, "heap") /\ Answered(t)
  /\ LET mapped == pr[t].pages + Batch(pr[t].pages)
         got == answer[t].label = "SUCCESS" /\ Len(answer[t].frames) = Batch(pr[t].pages)
     IN  \/ /\ got /\ mapped < HEAP_INITIAL_PAGES /\ Works /\ UNCHANGED <<threads, events>>
            /\ CallCap(t, pr[t].caps[1], [op |-> "REQUEST_FRAMES", count |-> Batch(mapped)])
            /\ pr' = [pr EXCEPT ![t].pages = mapped]
         \/ /\ got /\ mapped = HEAP_INITIAL_PAGES /\ Works
            /\ pr' = [pr EXCEPT ![t].pc = "ended", ![t].pages = mapped]
            /\ PrQuiet /\ threads' = Ended(t) /\ events' = Posted(t, "exit")
         \/ ~got /\ Works /\ Exit(t, "exit")
         \/ got /\ Fails /\ Exit(t, "exit")

\* The application: one script, call by call, until an OPEN fails.  A call to
\* "last" goes through the capability of the last OPEN.
AppCall(call, caps) ==
  CallCap("app", IF call.to.ep = "last" THEN caps[1] ELSE call.to, call.m)

AppStart ==
  /\ threads["init"].state = "ended" /\ threads["log"].state = "running"
  /\ threads["svcmgr"].state = "running" /\ At("app", "start") /\ pr["app"].script # <<>>
  /\ AppCall(Head(pr["app"].script), <<>>)
  /\ PrStep("app", "called")
  /\ threads' = [threads EXCEPT !["app"].state = "running"]
  /\ UNCHANGED <<events, faults>>

AppNext ==
  /\ At("app", "called") /\ Answered("app") /\ UNCHANGED faults
  /\ LET left == Tail(pr["app"].script)
         open == Head(pr["app"].script).m.op = "OPEN"
         opened == answer["app"].label = "SUCCESS"
         caps == IF open /\ opened THEN <<answer["app"].cap>> ELSE pr["app"].caps
     IN  IF left = <<>> \/ (open /\ ~opened)
           THEN Exit("app", "exit")
           ELSE /\ AppCall(Head(left), caps)
                /\ pr' = [pr EXCEPT !["app"].script = left, !["app"].caps = caps]
                /\ UNCHANGED <<threads, events>>

PrNext ==
  \/ BlkRequest \/ BlkRound1 \/ BlkRound2 \/ BlkDevice
  \/ log_receive_loop
  \/ \E t \in Crashers : CrasherStart(t) \/ probe_svcmgr(t) \/ Crash(t)
  \/ \E t \in Smokes : SmokeStart(t) \/ SmokeRound(t) \/ bootstrap_from_procmgr(t)
  \/ AppStart \/ AppNext

=============================================================================
