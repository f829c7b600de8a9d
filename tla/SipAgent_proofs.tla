---------------------------- MODULE SipAgent_proofs ---------------------------
(* Proofs about SipAgent, for any of the programs, any number of events    *)
(* and any bound on the queue.                                             *)
EXTENDS SipAgent, TLAPS

Running == {"agent", "commands", "url", "to", "message", "loop", "cleanup"}

(* What exists at each place of main. Only an orderly end closes the       *)
(* library, and nothing releases demo5's memory home.                      *)
ResourcesInv ==
  /\ su = IF at = "start" THEN "none" ELSE IF at = "done" THEN "destroyed" ELSE "alive"
  /\ home = IF at = "start" \/ program # "demo5" THEN "none" ELSE "alive"
  /\ at \in {"start", "init"} => root = "none" /\ agent = "none" /\ handle = "none"
  /\ at = "root" => root = "alive" /\ agent = "none" /\ handle = "none"
  /\ at \in Running => root = "alive"
  /\ at = "failed" => root # "alive" /\ agent # "alive" /\ handle # "alive"
  /\ at = "done" => root # "alive" /\ agent # "alive" /\ handle # "alive"
  /\ CASE at = "to" -> blocks = {"url"}
       [] at = "message" -> blocks = {"url", "sip_to"}
       [] OTHER -> blocks = {}

(* Only miniserver destroys the agent before main releases it, and main of *)
(* miniserver never gets there, since nothing breaks its loop. What breaks *)
(* the loop of demo3 and demo4 asks for the shutdown first.                *)
DestroyInv ==
  /\ destroys \in {0, 1}
  /\ agent # "destroyed" => destroys = 0
  /\ destroys > 0 => at \in Ends \/ program = "miniserver"
  /\ at = "cleanup" => broken
  /\ broken => program \in {"demo3", "demo4", "demo5"}
  /\ (broken /\ program \in {"demo3", "demo4"}) => shutdown # "no"
  /\ ShutdownFirst

IInv == TypeOK /\ ResourcesInv /\ DestroyInv

LEMMA InitIInv == Init => IInv
  <1> SUFFICES ASSUME Init PROVE IInv
    OBVIOUS
  <1>1. TypeOK
    <2>1. queue \in Seq(Event \cup Answer)
      BY DEF Init
    <2>2. emitted \in 0 .. MaxEvents
      BY BoundsAssumption DEF Init
    <2>3. program \in Programs /\ at \in MainPC
      BY DEF Init, MainPC
    <2> QED
      BY <2>1, <2>2, <2>3 DEF Init, TypeOK, Life
  <1>2. ResourcesInv
    BY DEF Init, ResourcesInv, Running
  <1>3. DestroyInv
    BY DEF Init, DestroyInv, ShutdownFirst
  <1> QED
    BY <1>1, <1>2, <1>3 DEF IInv

(* What a delivered event does to the shutdown, the loop and the agent, in *)
(* the programs' own terms.                                                *)
LEMMA DeliverEffect ==
  ASSUME TypeOK, Deliver
  PROVE  /\ shutdown' \in {shutdown, "asked"}
         /\ {broken', answered', final'} \subseteq BOOLEAN
         /\ (broken' /\ ~broken) => program \in {"demo3", "demo4", "demo5"}
         /\ (broken' /\ ~broken /\ program \in {"demo3", "demo4"}) => shutdown' = "asked"
         /\ \/ agent' = agent /\ destroys' = destroys
            \/ /\ program = "miniserver"
               /\ agent' = "destroyed" /\ destroys' = destroys + 1
  <1> USE DEF Deliver, React, DestroyAgent, TypeOK, Answers
  <1>0. program \in {"demo2", "demo3", "demo4", "demo5", "miniserver"}
    BY ProgramsAssumption
  <1>1. CASE program = "demo2"
    BY <1>1 DEF Demo2Callback
  <1>2. CASE program = "demo3"
    BY <1>2 DEF Demo3Callback, Demo3Leaves
  <1>3. CASE program = "demo4"
    BY <1>3 DEF Demo4Callback, Demo4Leaves
  <1>4. CASE program = "demo5"
    BY <1>4 DEF Demo5Callback
  <1>5. CASE program = "miniserver"
    BY <1>5 DEF MiniserverCallback
  <1> QED
    BY <1>0, <1>1, <1>2, <1>3, <1>4, <1>5

LEMMA NextIInv == IInv /\ [Next]_vars => IInv'
  <1> SUFFICES ASSUME IInv, [Next]_vars PROVE IInv'
    OBVIOUS
  <1> USE ProgramsAssumption, BoundsAssumption
          DEF IInv, TypeOK, MainPC, Life, Ends, Running, Go, Step, library, status, resources
  <1>1. ASSUME InitLibrary \/ CreateRoot \/ CreateAgent PROVE IInv'
    <2> USE <1>1 DEF InitLibrary, CreateRoot, CreateAgent, WithoutRoot
    <2>1. TypeOK'
      BY DEF ResourcesInv
    <2>2. ResourcesInv'
      BY DEF ResourcesInv
    <2>3. DestroyInv'
      BY DEF ResourcesInv, DestroyInv, ShutdownFirst
    <2> QED
      BY <2>1, <2>2, <2>3
  <1>2. ASSUME Request \/ OpenCall \/ LeaveLoop PROVE IInv'
    <2> USE <1>2 DEF Request, OpenCall, LeaveLoop
    <2>1. TypeOK'
      OBVIOUS
    <2>2. ResourcesInv'
      BY DEF ResourcesInv
    <2>3. DestroyInv'
      BY DEF DestroyInv, ShutdownFirst
    <2> QED
      BY <2>1, <2>2, <2>3
  <1>3. ASSUME Messages PROVE IInv'
    <2> USE <1>3 DEF Messages, Command, MakeUrl, MakeTo, SendMessage, EndOfCommands,
                     FreedWithoutTo
    <2>1. TypeOK'
      BY DEF ResourcesInv
    <2>2. ResourcesInv'
      BY DEF ResourcesInv
    <2>3. DestroyInv'
      BY DEF DestroyInv, ShutdownFirst
    <2> QED
      BY <2>1, <2>2, <2>3
  <1>4. ASSUME Cleanup PROVE IInv'
    <2> USE <1>4 DEF Cleanup, DestroyAgent
    <2>1. destroys = 0
      BY DEF DestroyInv
    <2>2. TypeOK'
      OBVIOUS
    <2>3. ResourcesInv'
      BY DEF ResourcesInv
    <2>4. DestroyInv'
      BY <2>1 DEF DestroyInv, ShutdownFirst
    <2> QED
      BY <2>2, <2>3, <2>4
  <1>5. ASSUME Deliver PROVE IInv'
    <2>1. /\ at = "loop" /\ agent = "alive"
          /\ at' \in {"loop", "aborted"}
          /\ UNCHANGED <<program, su, home, root, handle, blocks, emitted>>
      BY <1>5 DEF Deliver
    <2>2. queue' \in Seq(Event \cup Answer)
      BY <1>5 DEF Deliver
    <2>3. TypeOK'
      BY <1>5, <2>1, <2>2, DeliverEffect
    <2>4. ResourcesInv'
      BY <2>1 DEF ResourcesInv
    <2>5. DestroyInv'
      BY <1>5, <2>1, DeliverEffect DEF DestroyInv, ShutdownFirst
    <2> QED
      BY <2>3, <2>4, <2>5
  <1>6. ASSUME AnswerShutdown PROVE IInv'
    <2>1. PICK a \in Answer : queue' = Append(queue, a)
      BY <1>6 DEF AnswerShutdown, Answer
    <2>2. queue' \in Seq(Event \cup Answer)
      BY <2>1
    <2>3. /\ shutdown' \in {"started", "answered"}
          /\ UNCHANGED <<program, at, su, home, root, agent, handle, blocks,
                        emitted, broken, answered, final, destroys>>
      BY <1>6 DEF AnswerShutdown
    <2>4. TypeOK'
      BY <2>2, <2>3
    <2>5. ResourcesInv' /\ DestroyInv'
      BY <2>3 DEF ResourcesInv, DestroyInv, ShutdownFirst
    <2> QED
      BY <2>4, <2>5
  <1>7. ASSUME NEW e \in Event, Emit(e) PROVE IInv'
    <2> USE <1>7 DEF Emit
    <2>1. TypeOK'
      OBVIOUS
    <2>2. ResourcesInv' /\ DestroyInv'
      BY DEF ResourcesInv, DestroyInv, ShutdownFirst
    <2> QED
      BY <2>1, <2>2
  <1>8. CASE UNCHANGED vars
    BY <1>8 DEF vars, ResourcesInv, DestroyInv, ShutdownFirst
  <1> QED
    BY <1>1, <1>2, <1>3, <1>4, <1>5, <1>6, <1>7, <1>8 DEF Next, Main

(* The variables of the programs keep their types, and an agent only       *)
(* exists in an event loop that exists.                                    *)
THEOREM TypeCorrect == Spec => []TypeOK
  <1>1. IInv => TypeOK
    BY DEF IInv
  <1> QED
    BY InitIInv, NextIInv, <1>1, PTL DEF Spec

(* No agent is destroyed twice, nothing that lives in the event loop       *)
(* outlives the program's return, an orderly end closes the library and no *)
(* message leaks memory, whatever events come and in whatever order.       *)
THEOREM ReleaseCorrect == Spec => []ReleasedOnce
  <1>1. IInv => ReleasedOnce
    BY DEF IInv, ResourcesInv, DestroyInv, ReleasedOnce
  <1> QED
    BY InitIInv, NextIInv, <1>1, PTL DEF Spec

(* What is left behind all the same: a program that gives up for want of a *)
(* loop or an agent returns with the library open (lines 85 and 97 of      *)
(* demo4.c, and the same in the others), although                          *)
(* docs/Sofia-SIP_doc.md, lines 11-12, asks for it to be closed at the end *)
(* of an application; and demo5 returns with the memory home of its line   *)
(* 145.                                                                    *)
LeftOpen == /\ at = "failed" => su = "alive"
            /\ (program = "demo5" /\ at \in {"done", "failed"}) => home = "alive"

(* Every failed start leaves the library open, and every run of demo5 its  *)
(* memory home, whatever events come.                                      *)
THEOREM LibraryLeftOpen == Spec => []LeftOpen
  <1>1. IInv => LeftOpen
    BY DEF IInv, ResourcesInv, LeftOpen
  <1> QED
    BY InitIInv, NextIInv, <1>1, PTL DEF Spec

(* demo3 and demo4 ask for the shutdown before they release the agent,     *)
(* whatever made them leave the loop.                                      *)
THEOREM ShutdownCorrect == Spec => []ShutdownFirst
  <1>1. IInv => ShutdownFirst
    BY DEF IInv, DestroyInv
  <1> QED
    BY InitIInv, NextIInv, <1>1, PTL DEF Spec
=============================================================================
