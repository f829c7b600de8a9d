------------------------------- MODULE SipAgent -------------------------------
(***************************************************************************)
(* The SIP programs demos/demo2.c to demo5.c and demos/docs/miniserver.c.  *)
(* Each creates an event loop (su_root) and a user agent (nua), may send   *)
(* requests, and then runs the loop, which calls the program's callback    *)
(* for every event of the agent.                                           *)
(*                                                                         *)
(* Sofia-SIP is not part of the repository. Its stack works beside main,   *)
(* queues events in any order, answers a shutdown in two steps, and stops  *)
(* calling the callback when the agent is destroyed. Destroying an agent   *)
(* before a final answer to nua_shutdown was delivered fails an assertion  *)
(* unless the library was built without them.                              *)
(***************************************************************************)
EXTENDS Naturals, Sequences

CONSTANTS Programs,   \* the programs to look at
          MaxEvents,  \* bound on the events that answer no shutdown
          MaxQueue    \* bound on the events that wait for the loop

ASSUME ProgramsAssumption ==
  Programs \subseteq {"demo2", "demo3", "demo4", "demo5", "miniserver"}
ASSUME BoundsAssumption == MaxEvents \in Nat /\ MaxQueue \in Nat \ {0}

VARIABLES program,   \* which of the programs this is
          at,        \* where main is
          su,        \* the library: "none", "alive" or "destroyed"
          home,      \* demo5's memory home, in the same way
          root,      \* the event loop
          agent,     \* nua
          handle,    \* invite_handle and inv_handle
          blocks,    \* what send_sip_message allocated and did not free
          queue,     \* the events not yet delivered
          broken,    \* su_root_break was called
          answered,  \* history: a BYE was answered
          shutdown,  \* how far the last nua_shutdown came
          final,     \* a final answer to nua_shutdown was delivered
          destroys,  \* how often nua_destroy was called
          emitted    \* how many events there were, answers to shutdown aside

library == <<queue, emitted>>
resources == <<su, home, root, agent, handle, blocks>>
status == <<broken, answered, shutdown, final, destroys>>
vars == <<program, at, resources, library, status>>

(* What the callbacks distinguish. demo3 and demo4 test for the event of   *)
(* number 10.                                                              *)
Event == [event : {"number_10", "nua_r_invite"}, status : {180, 200, 486}]
         \cup [event : {"nua_i_invite", "nua_i_ack", "nua_i_bye",
                        "nua_i_message", "nua_r_message", "other"},
               status : {200}]
Answer == [event : {"nua_r_shutdown"}, status : {100, 200}]

Ends == {"done", "failed", "aborted"}
MainPC == Ends \cup {"start", "init", "root", "agent", "commands", "url", "to",
                     "message", "loop", "cleanup"}
Life == {"none", "alive", "destroyed"}

Go(from, to) == at = from /\ at' = to
Step(from, to) == Go(from, to) /\ UNCHANGED <<program, library, status>>

-----------------------------------------------------------------------------
(* The library.                                                            *)

(* Something happens in the network, or the stack reports on a request.    *)
Emit(e) == /\ agent = "alive" /\ at \notin Ends
           /\ emitted < MaxEvents /\ Len(queue) < MaxQueue
           /\ queue' = Append(queue, e)
           /\ emitted' = emitted + 1
           /\ UNCHANGED <<program, at, resources, status>>

(* Ending what is under way takes time, in which the stack reports 100.    *)
AnswerShutdown ==
  /\ agent = "alive" /\ at \notin Ends /\ Len(queue) < MaxQueue
  /\ \/ /\ shutdown = "asked"
        /\ shutdown' = "started"
        /\ queue' = Append(queue, [event |-> "nua_r_shutdown", status |-> 100])
     \/ /\ shutdown \in {"asked", "started"}
        /\ shutdown' = "answered"
        /\ queue' = Append(queue, [event |-> "nua_r_shutdown", status |-> 200])
  /\ UNCHANGED <<program, at, resources, emitted, broken, answered, final, destroys>>

(* nua_destroy.                                                            *)
DestroyAgent == /\ agent' = "destroyed"
                /\ destroys' = destroys + 1

-----------------------------------------------------------------------------
(* The callbacks: what each does with an event. What it only prints, and   *)
(* the answers and acknowledgements it hands to the stack, change nothing  *)
(* here, except that answered remembers the answer to a BYE.               *)

(* A callback may ask for the shutdown, leave the loop, and destroy nua.   *)
React(asks, leaves, destroying) ==
  /\ shutdown' = IF asks THEN "asked" ELSE shutdown
  /\ broken' = (broken \/ leaves)
  /\ IF destroying THEN DestroyAgent ELSE UNCHANGED <<agent, destroys>>

(* Prints only.                                                            *)
Demo2Callback(e) == React(FALSE, FALSE, FALSE)

(* The events demo3 and demo4 have no branch for.                          *)
Demo3Default(e) == e.event \notin {"nua_i_invite", "number_10", "nua_i_ack"}
Demo4Default(e) == Demo3Default(e) /\ e.event # "nua_i_bye"

(* Mutants: the last branch of demo3 does not leave the loop; a BYE leaves *)
(* that of demo4, as it does in demo5.                                     *)
Demo3Stays(e) == FALSE
Demo4Hangup(e) == Demo3Default(e)

Demo3Leaves(e) == Demo3Default(e)
Demo4Leaves(e) == Demo4Default(e)

(* A final status shuts the agent down; every event without a branch of    *)
(* its own, the answer to that shutdown included, also leaves the loop.    *)
Demo3Callback(e) ==
  React(Demo3Default(e) \/ (e.event = "number_10" /\ e.status >= 200),
        Demo3Leaves(e), FALSE)

(* Only status 200 shuts the agent down, and a BYE is answered.            *)
Demo4Callback(e) ==
  React(Demo4Default(e) \/ (e.event = "number_10" /\ e.status = 200),
        Demo4Leaves(e), FALSE)

(* Mutant: a message leaves the loop.                                      *)
Demo5Quits == {"nua_i_invite", "nua_r_invite", "nua_i_ack", "nua_r_message"}

Demo5Stays == {"nua_i_invite", "nua_r_invite", "nua_i_ack",
               "nua_i_message", "nua_r_message"}

(* Never shuts the agent down; a BYE and every event without a branch      *)
(* leave the loop.                                                         *)
Demo5Callback(e) == React(FALSE, e.event \notin Demo5Stays, FALSE)

(* Mutant: the loop is left after the first message.                       *)
MiniserverLeaves(e) ==
  React(FALSE, e.event = "nua_i_message", e.event = "nua_i_message")

(* The first message is answered and destroys the agent.                   *)
MiniserverCallback(e) == React(FALSE, FALSE, e.event = "nua_i_message")

(* The callbacks that answer a BYE.                                        *)
Answers(e) == e.event = "nua_i_bye" /\ program \in {"demo4", "demo5"}

(* su_root_run calls the callback for the oldest event. A broken loop may  *)
(* still deliver what was queued.                                          *)
Deliver ==
  /\ at = "loop" /\ agent = "alive" /\ queue # <<>>
  /\ queue' = Tail(queue)
  /\ final' = (final \/ (Head(queue).event = "nua_r_shutdown" /\ Head(queue).status >= 200))
  /\ answered' = (answered \/ Answers(Head(queue)))
  /\ CASE program = "demo2" -> Demo2Callback(Head(queue))
       [] program = "demo3" -> Demo3Callback(Head(queue))
       [] program = "demo4" -> Demo4Callback(Head(queue))
       [] program = "demo5" -> Demo5Callback(Head(queue))
       [] program = "miniserver" -> MiniserverCallback(Head(queue))
  /\ \/ UNCHANGED at
     \/ agent' = "destroyed" /\ ~final' /\ at' = "aborted"
  /\ UNCHANGED <<program, su, home, root, handle, blocks, emitted>>

(* su_root_run returns.                                                    *)
LeaveLoop == broken /\ Step("loop", "cleanup") /\ UNCHANGED resources

-----------------------------------------------------------------------------
(* main.                                                                   *)

(* su_init, and in demo5 su_home_init.                                     *)
InitLibrary == /\ Step("start", "init")
               /\ su' = "alive"
               /\ home' = IF program = "demo5" THEN "alive" ELSE home
               /\ UNCHANGED <<root, agent, handle, blocks>>

(* Mutant: main goes on without an event loop.                             *)
GoesOn == "root"

WithoutRoot == "failed"

(* Without an event loop the program ends, the library being as it is.     *)
CreateRoot ==
  /\ \/ Step("init", "root") /\ root' = "alive"
     \/ Step("init", WithoutRoot) /\ UNCHANGED root
  /\ UNCHANGED <<su, home, agent, handle, blocks>>

(* Without an agent the loop is destroyed and the program ends; the        *)
(* library again stays as it is.                                           *)
CreateAgent ==
  /\ \/ Step("root", "agent") /\ agent' = "alive" /\ UNCHANGED root
     \/ Step("root", "failed") /\ root' = "destroyed" /\ UNCHANGED agent
  /\ UNCHANGED <<su, home, handle, blocks>>

(* demo2 sends a registration, demo3 and demo4 an invitation, miniserver   *)
(* nothing; the loop follows.                                              *)
Request == program # "demo5" /\ Step("agent", "loop") /\ UNCHANGED resources

(* demo5 makes a handle for its invitation, and goes on without one.       *)
OpenCall == /\ program = "demo5"
            /\ Step("agent", "commands")
            /\ handle' \in {"alive", "none"}
            /\ UNCHANGED <<su, home, root, agent, blocks>>

(* "enviar": send_sip_message makes a URL and from it an address, sends    *)
(* the message and frees both.                                             *)
Command == Step("commands", "url") /\ UNCHANGED resources

MakeUrl == /\ \/ Step("url", "to") /\ blocks' = blocks \cup {"url"}
              \/ Step("url", "commands") /\ UNCHANGED blocks
           /\ UNCHANGED <<su, home, root, agent, handle>>

(* Mutant: without an address the URL is not freed.                        *)
FreeNothing == {}

FreedWithoutTo == {"url"}

MakeTo == /\ \/ Step("to", "message") /\ blocks' = blocks \cup {"sip_to"}
             \/ Step("to", "commands") /\ blocks' = blocks \ FreedWithoutTo
          /\ UNCHANGED <<su, home, root, agent, handle>>

SendMessage == /\ Step("message", "commands")
               /\ blocks' = blocks \ {"sip_to", "url"}
               /\ UNCHANGED <<su, home, root, agent, handle>>

(* "salir", or the end of the input: only now does demo5 look at events.   *)
EndOfCommands == Step("commands", "loop") /\ UNCHANGED resources

(* The call's handle, the agent, the loop and the library are released, in *)
(* this order. demo5's memory home is not.                                 *)
Cleanup ==
  /\ DestroyAgent
  /\ handle' = IF handle = "alive" THEN "destroyed" ELSE handle
  /\ \/ Go("cleanup", "done") /\ root' = "destroyed" /\ su' = "destroyed"
     \/ Go("cleanup", "aborted") /\ ~final /\ UNCHANGED <<root, su>>
  /\ UNCHANGED <<program, home, blocks, library, broken, answered, shutdown, final>>

-----------------------------------------------------------------------------
Init == /\ program \in Programs
        /\ at = "start"
        /\ su = "none" /\ home = "none"
        /\ root = "none" /\ agent = "none" /\ handle = "none" /\ blocks = {}
        /\ queue = <<>>
        /\ broken = FALSE /\ answered = FALSE
        /\ shutdown = "no" /\ final = FALSE
        /\ destroys = 0 /\ emitted = 0

Main == \/ InitLibrary \/ CreateRoot \/ CreateAgent \/ Request \/ OpenCall
        \/ LeaveLoop \/ Cleanup
Messages == Command \/ MakeUrl \/ MakeTo \/ SendMessage \/ EndOfCommands

Next == Main \/ Messages \/ Deliver \/ AnswerShutdown \/ \E e \in Event : Emit(e)

(* main and the stack run; the user types when he likes, and the network   *)
(* owes nothing.                                                           *)
Spec == Init /\ [][Next]_vars
FairSpec == Spec /\ WF_vars(Main) /\ WF_vars(Deliver) /\ WF_vars(AnswerShutdown)

-----------------------------------------------------------------------------
(* Properties.                                                             *)

(* Types; and the agent only ever exists in a living event loop.           *)
TypeOK == /\ program \in Programs
          /\ at \in MainPC
          /\ {su, home, root, agent, handle} \subseteq Life
          /\ blocks \subseteq {"url", "sip_to"}
          /\ queue \in Seq(Event \cup Answer)
          /\ {broken, answered, final} \subseteq BOOLEAN
          /\ shutdown \in {"no", "asked", "started", "answered"}
          /\ destroys \in Nat /\ emitted \in 0 .. MaxEvents
          /\ agent = "alive" => root = "alive"

(* The agent is destroyed at most once. A program that returns has no      *)
(* agent, handle or event loop left, on its error paths too (lines 153-162 *)
(* and 210-215 of demo5.c), one that ends in order has closed the library, *)
(* and a message that could not be composed leaks neither URL nor address  *)
(* (lines 33-57). In miniserver both line 41 and line 75 destroy the       *)
(* agent; only the loop that nothing leaves keeps the second call from     *)
(* being reached. Not said, for it is not so: that an error path closes    *)
(* the library, and that demo5 ever releases its memory home.              *)
ReleasedOnce ==
  /\ destroys <= 1
  /\ at \in {"done", "failed"} => "alive" \notin {root, agent, handle}
  /\ at = "done" => su = "destroyed"
  /\ at \notin {"to", "message", "aborted"} => blocks = {}

(* demo3 and demo4 never release an agent they did not ask to shut down,   *)
(* whatever event makes them leave the loop (lines 36-38, 66-68). It does  *)
(* not say that the shutdown is complete by then, which an unexpected      *)
(* event or the provisional answer prevents.                               *)
ShutdownFirst ==
  (program \in {"demo3", "demo4"} /\ destroys > 0) => shutdown # "no"

(* A program that asked for the shutdown, or broke the loop, leaves the    *)
(* loop: no callback breaks it when a call succeeds, but the answer to the *)
(* shutdown has no branch of its own and ends it (demo4.c, 49 and 63-68).  *)
LoopEnds == (shutdown # "no" \/ broken) ~> at \in Ends

(* The events that demo5 handles without leaving the loop (lines 69-90 and *)
(* 101-125).                                                               *)
Harmless == {"nua_i_invite", "nua_r_invite", "nua_i_ack",
             "nua_i_message", "nua_r_message"}
HangupNext ==
  \E i \in DOMAIN queue : /\ queue[i].event = "nua_i_bye"
                         /\ \A j \in 1 .. i - 1 : queue[j].event \in Harmless

(* demo5 sees no event before the command loop ends (lines 186-206). A BYE *)
(* that waits then is answered, and ends the program, when only events it  *)
(* expects wait before it. Behind an unexpected one the BYE may never be   *)
(* looked at, since that one breaks the loop (lines 126-131).              *)
HangupHeard ==
  (program = "demo5" /\ at = "loop" /\ ~broken /\ HangupNext) ~> (answered /\ at \in Ends)
=============================================================================
