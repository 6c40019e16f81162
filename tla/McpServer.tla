----------------------------- MODULE McpServer -----------------------------
(***************************************************************************)
(* The MCP server: the loop that reads requests and writes responses in    *)
(* order (mcp.rs), the snapshot of the publication that queries answer     *)
(* from and the WATCH service a client starts and stops                    *)
(* (code_intel_context.rs), beside publishers of the same store.           *)
(***************************************************************************)
EXTENDS Integers, FiniteSets

CONSTANTS
    MaxInFlight,        \* MAX_IN_FLIGHT_REQUESTS
    MaxRequests, MaxPublications, MaxFreshStarts        \* bounds on exploration

ASSUME McpAssumption ==
    /\ MaxInFlight \in Nat \ {0}
    /\ {MaxRequests, MaxFreshStarts} \subseteq Nat
    /\ MaxPublications \in Nat \ {0}     \* Init may begin with one

VARIABLES
    store,      \* what the control files say: [token, sequence]
    published, freshStarts,
    slot,       \* [fingerprint, held]: the control token and its generation
    work,       \* request number -> where its handler is; history: the
                \* generations current meanwhile, whether it answered from one
    tasks, completed, nextSequence, nextWrite, inputClosed,   \* serve_loop
    server,     \* "loop", "shutdown" or "exited"
    lifecycle,  \* of WATCH
    live,       \* how many services exist
    broken      \* history: the transport failed, or shutdown took too long

queryVars == <<store, published, freshStarts, slot>>
loopVars  == <<tasks, completed, nextSequence, nextWrite, inputClosed, server, broken>>
watchVars == <<lifecycle, live>>
vars == <<queryVars, work, loopVars, watchVars>>

Numbers  == 0..(MaxRequests - 1)
Shutdown == MaxRequests     \* dispatcher.shutdown stops WATCH as a request does
Kinds    == {"observe", "start", "stop"}     \* a query, WATCH start and stop
Unpublished == [token |-> 0, sequence |-> 0]
Unreadable  == [token |-> -1, sequence |-> 0]
NoFingerprint == -2
IsPublished(generation) == generation.token > 0

Absent == [pc |-> "absent", before |-> 0, loaded |-> Unpublished,
           woken |-> FALSE, seen |-> {}, current |-> TRUE]
Running == server # "exited"
Goto(r, pc) == work' = [work EXCEPT ![r].pc = pc]
Reply(r) == work' = [work EXCEPT ![r] = [Absent EXCEPT !.pc = "replied"]]

-----------------------------------------------------------------------------
(* refresh_if_changed, one step for each read of the control files.        *)

QueryStep(r, pc) == Running /\ work[r].pc = pc /\ UNCHANGED <<loopVars, watchVars>>

Observe(r) ==
    /\ QueryStep(r, "observe")
    /\ \/ store = Unreadable /\ Reply(r)
       \/ store # Unreadable /\ store.token = slot.fingerprint /\ Goto(r, "admitted")
       \/ store # Unreadable /\ store.token # slot.fingerprint /\ Goto(r, "load")
    /\ UNCHANGED queryVars

\* load_tracked: an unpublished store needs no resolution.
Load(r) ==
    /\ QueryStep(r, "load")
    /\ IF store = Unreadable THEN Reply(r)
       ELSE work' = [work EXCEPT
                ![r].before = store.token,
                ![r].pc = IF store = Unpublished THEN "confirm" ELSE "resolve"]
    /\ UNCHANGED queryVars

\* The generation in force is opened and validated; the one that was in force
\* at the start may have been reclaimed by now.
Resolve(r) ==
    /\ QueryStep(r, "resolve")
    /\ \/ IsPublished(store) /\ work' = [work EXCEPT ![r].loaded = store, ![r].pc = "confirm"]
       \/ store.token # work[r].before /\ Reply(r)
    /\ UNCHANGED queryVars

\* control_after and the confirming fingerprint: both must be control_before.
Confirm(r) ==
    /\ QueryStep(r, "confirm")
    /\ IF store.token = work[r].before THEN Goto(r, "install") ELSE Reply(r)
    /\ UNCHANGED queryVars

\* Bug variant: whoever loaded last wins.
InstallWithoutOrder(r) ==
    /\ QueryStep(r, "install")
    /\ slot' = [fingerprint |-> work[r].before, held |-> work[r].loaded]
    /\ Goto(r, "admitted")
    /\ UNCHANGED <<store, published, freshStarts>>

\* Under the lock of the slot: an older generation gives way to the one held,
\* another generation of the same sequence, or none at all, is refused.
Install(r) ==
    /\ QueryStep(r, "install")
    /\ LET new == work[r].loaded
           held == slot.held
       IN  \/ /\ \/ slot.fingerprint = work[r].before
                 \/ IsPublished(held) /\ IsPublished(new) /\ new.sequence < held.sequence
              /\ slot' = slot /\ Goto(r, "admitted")
           \/ /\ slot.fingerprint # work[r].before
              /\ IsPublished(held)
              /\ \/ ~IsPublished(new)
                 \/ new.sequence = held.sequence /\ new.token # held.token
              /\ slot' = slot /\ Reply(r)
           \/ /\ slot.fingerprint # work[r].before
              /\ IsPublished(held) =>
                    /\ IsPublished(new)
                    /\ \/ new.sequence > held.sequence
                       \/ new.sequence = held.sequence /\ new.token = held.token
              /\ slot' = [fingerprint |-> work[r].before, held |-> new]
              /\ Goto(r, "admitted")
    /\ UNCHANGED <<store, published, freshStarts>>

\* The handler takes the snapshot of the slot anew and answers from it.
Answer(r) ==
    /\ QueryStep(r, "admitted")
    /\ work' = [work EXCEPT
           ![r] = [Absent EXCEPT !.pc = "replied", !.current = slot.held \in work[r].seen]]
    /\ UNCHANGED queryVars

Query(r) == Observe(r) \/ Load(r) \/ Resolve(r) \/ Confirm(r) \/ Install(r) \/ Answer(r)

-----------------------------------------------------------------------------
(* WATCH: start_index_watch and stop_index_watch.                          *)

Start(r) ==
    /\ Running /\ work[r].pc = "start"
    /\ \/ lifecycle = "Stopped" /\ lifecycle' = "Running" /\ live' = live + 1
       \/ UNCHANGED <<lifecycle, live>>     \* refused, or the service did not start
    /\ Reply(r)
    /\ UNCHANGED <<queryVars, loopVars>>

\* `changed.notified()` is enabled before the lifecycle is looked at.
Enable(r) ==
    /\ Running /\ work[r].pc = "stop"
    /\ work' = [work EXCEPT ![r].pc = "look", ![r].woken = FALSE]
    /\ UNCHANGED <<queryVars, loopVars, watchVars>>

\* Bug variant: the lifecycle forgets the service as soon as it is taken.
LookTakingAll(r) ==
    /\ Running /\ work[r].pc = "look"
    /\ IF lifecycle = "Stopped" THEN Reply(r) /\ UNCHANGED watchVars
       ELSE lifecycle' = "Stopped" /\ Goto(r, "await") /\ UNCHANGED live
    /\ UNCHANGED <<queryVars, loopVars>>

\* The stop that takes the service hands it to a task of its own and awaits
\* it: "await" while service.stop() runs there, "announce" after it.
Look(r) ==
    /\ Running /\ work[r].pc = "look"
    /\ \/ lifecycle = "Stopped" /\ Reply(r) /\ UNCHANGED watchVars
       \/ lifecycle = "Stopping" /\ Goto(r, "wait") /\ UNCHANGED watchVars
       \/ /\ lifecycle = "Running" /\ lifecycle' = "Stopping"
          /\ Goto(r, "await") /\ UNCHANGED live
    /\ UNCHANGED <<queryVars, loopVars>>

\* The first poll of `changed`: it is ready when it was notified meanwhile.
Wait(r) ==
    /\ Running /\ work[r].pc = "wait"
    /\ Goto(r, IF work[r].woken THEN "stop" ELSE "asleep")
    /\ UNCHANGED <<queryVars, loopVars, watchVars>>

\* service.stop() has returned in the owned task of this stop.
ServiceEnds(r) ==
    /\ Running /\ work[r].pc = "await"
    /\ live' = live - 1 /\ lifecycle' = "Stopped"
    /\ Goto(r, "announce")
    /\ UNCHANGED <<queryVars, loopVars>>

\* Bug variant: a stop is told only once it sleeps.
WokenAsleep(w) == IF w.pc = "asleep" THEN [w EXCEPT !.pc = "stop"] ELSE w

\* notify_waiters reaches every stop that enabled `changed`.
Woken(w) ==
    CASE w.pc = "asleep" -> [w EXCEPT !.pc = "stop"]
      [] w.pc \in {"look", "wait"} -> [w EXCEPT !.woken = TRUE]
      [] OTHER -> w

Announce(r) ==
    /\ Running /\ work[r].pc = "announce"
    /\ work' = [q \in DOMAIN work |-> IF q = r THEN [Absent EXCEPT !.pc = "replied"]
                                      ELSE Woken(work[q])]
    /\ UNCHANGED <<queryVars, loopVars, watchVars>>

Stop(r) == Enable(r) \/ Look(r) \/ Wait(r) \/ Announce(r)

-----------------------------------------------------------------------------
(* serve_loop and serve.                                                   *)

Outstanding == nextSequence - nextWrite
Finished == {r \in tasks : work[r].pc = "replied"}

\* Bug variant: one response is written for each event.
DrainedOnce == TRUE

\* The inner loop writes every response whose turn it is.
Drained == nextWrite \notin completed

CanRead == /\ server = "loop" /\ Drained /\ ~inputClosed
           /\ Outstanding < MaxInFlight /\ Finished = {}

Write ==
    /\ server = "loop" /\ nextWrite \in completed
    /\ completed' = completed \ {nextWrite} /\ nextWrite' = nextWrite + 1
    /\ UNCHANGED <<queryVars, work, watchVars, tasks, nextSequence, inputClosed, server, broken>>

\* A request becomes a task of its own; a malformed line is answered at once.
Read(kind) ==
    /\ CanRead /\ nextSequence < MaxRequests
    /\ nextSequence' = nextSequence + 1
    /\ tasks' = tasks \cup {nextSequence}
    /\ work' = [work EXCEPT ![nextSequence] =
                   [Absent EXCEPT !.pc = kind, !.seen = IF kind = "observe" THEN {store} ELSE {}]]
    /\ UNCHANGED <<queryVars, watchVars, completed, nextWrite, inputClosed, server, broken>>

ReadMalformed ==
    /\ CanRead /\ nextSequence < MaxRequests
    /\ nextSequence' = nextSequence + 1
    /\ completed' = completed \cup {nextSequence}
    /\ UNCHANGED <<queryVars, work, watchVars, tasks, nextWrite, inputClosed, server, broken>>

CloseInput ==
    /\ CanRead /\ inputClosed' = TRUE
    /\ UNCHANGED <<queryVars, work, watchVars, tasks, completed, nextSequence, nextWrite, server, broken>>

Join(r) ==
    /\ server = "loop" /\ Drained /\ r \in Finished
    /\ tasks' = tasks \ {r} /\ completed' = completed \cup {r}
    /\ UNCHANGED <<queryVars, work, watchVars, nextSequence, nextWrite, inputClosed, server, broken>>

\* serve_loop returns, and dispatcher.shutdown begins to stop WATCH.  When a
\* read or a write failed, the handlers still at work go on beside it.
Leave ==
    /\ server' = "shutdown"
    /\ work' = [work EXCEPT ![Shutdown].pc = "stop"]
    /\ UNCHANGED <<queryVars, watchVars, tasks, completed, nextSequence, nextWrite, inputClosed>>

Finish == server = "loop" /\ Drained /\ inputClosed /\ tasks = {} /\ Leave /\ UNCHANGED broken

TransportFails == (CanRead \/ (server = "loop" /\ ~Drained)) /\ Leave /\ broken' = TRUE

\* shutdown_indexing has returned, or its thirty seconds are over.
Exit ==
    /\ server = "shutdown" /\ server' = "exited"
    /\ broken' = (broken \/ work[Shutdown].pc # "replied")
    /\ UNCHANGED <<queryVars, work, watchVars, tasks, completed, nextSequence, nextWrite, inputClosed>>

-----------------------------------------------------------------------------
(* Publishers, in this process and in others.                              *)

BecomesCurrent(generation) ==
    /\ store' = generation
    /\ work' = [r \in DOMAIN work |->
                  IF work[r].seen = {} THEN work[r]
                  ELSE [work[r] EXCEPT !.seen = @ \cup {generation}]]
    /\ UNCHANGED <<slot, loopVars, watchVars>>

Publish ==
    /\ Running /\ published < MaxPublications
    /\ published' = published + 1
    /\ BecomesCurrent([token |-> published', sequence |-> store.sequence + 1])
    /\ UNCHANGED freshStarts

\* The store is deleted, or neither of its heads can be read any more; the
\* next publication starts it anew.
LoseStore ==
    /\ Running /\ IsPublished(store) /\ freshStarts < MaxFreshStarts
    /\ freshStarts' = freshStarts + 1
    /\ \E nothing \in {Unpublished, Unreadable} : BecomesCurrent(nothing)
    /\ UNCHANGED published

-----------------------------------------------------------------------------

Init ==
    /\ published \in {0, 1}
    /\ store = IF published = 0 THEN Unpublished ELSE [token |-> 1, sequence |-> 1]
    /\ slot \in {[fingerprint |-> store.token, held |-> store],
                 [fingerprint |-> NoFingerprint, held |-> Unpublished]}
    /\ freshStarts = 0
    /\ work = [r \in Numbers \cup {Shutdown} |-> Absent]
    /\ tasks = {} /\ completed = {} /\ nextSequence = 0 /\ nextWrite = 0
    /\ inputClosed = FALSE /\ server = "loop" /\ broken = FALSE
    /\ lifecycle = "Stopped" /\ live = 0

\* What a task does by itself, and what it does once the service has ended.
Proceed(r) == Query(r) \/ Start(r) \/ Stop(r)
Handle(r) == Proceed(r) \/ ServiceEnds(r)

Next ==
    \/ \E r \in Numbers \cup {Shutdown} : Handle(r)
    \/ \E r \in Numbers : Join(r)
    \/ \E kind \in Kinds : Read(kind)
    \/ ReadMalformed \/ CloseInput \/ Write \/ Finish \/ TransportFails \/ Exit
    \/ Publish \/ LoseStore

Spec == Init /\ [][Next]_vars

\* Every task is scheduled and the client reads what is written; nothing makes
\* a client send or close, or a service that is told to stop end.
FairSpec ==
    /\ Spec
    /\ \A r \in Numbers \cup {Shutdown} : WF_vars(Proceed(r))
    /\ \A r \in Numbers : WF_vars(Join(r))
    /\ WF_vars(Write) /\ WF_vars(Finish) /\ WF_vars(Exit)

-----------------------------------------------------------------------------
(* Properties.                                                             *)

Generations == [token : 0..MaxPublications, sequence : 0..MaxPublications] \cup {Unreadable}

TypeOK ==
    /\ store \in Generations /\ published \in 0..MaxPublications
    /\ slot.held \in Generations \ {Unreadable}
    /\ slot.fingerprint \in {NoFingerprint} \cup 0..MaxPublications
    /\ \A r \in Numbers \cup {Shutdown} :
          /\ work[r].pc \in {"absent", "observe", "load", "resolve", "confirm", "install",
                             "admitted", "start", "stop", "look", "wait", "asleep", "await",
                             "announce", "replied"}
          /\ work[r].seen \subseteq Generations
    /\ tasks \subseteq Numbers /\ completed \subseteq Numbers
    /\ lifecycle \in {"Stopped", "Running", "Stopping"}

\* "An unresolved current control population cannot delegate authority to
\* process memory" (tool_api.rs:25-26): a query answers from a generation that
\* the store named at some instant while the query was handled.
AnswerWasCurrent == \A r \in Numbers : work[r].current

\* The same as long as the store is not started anew, however the loads of
\* concurrent queries overlap with one another and with publications: the
\* slot never goes back behind what a query was admitted with.
StrictAnswerWasCurrent == freshStarts = 0 => AnswerWasCurrent

\* The `expect` on join_next never fails, and when the input has ended every
\* request that was read has been answered before the loop returns.
NothingReadIsLost ==
    /\ (server = "loop" /\ Drained /\ (Outstanding >= MaxInFlight \/ (inputClosed /\ Outstanding > 0)))
       => tasks # {}
    /\ server # "loop" /\ ~broken => nextWrite = nextSequence

\* A stopping service keeps its place until it has ended, so that two services
\* never exist at once and none is left when shutdown has completed.
OneServiceOwned ==
    /\ live = IF lifecycle = "Stopped" THEN 0 ELSE 1
    /\ server = "exited" /\ ~broken => live = 0

\* Types, and one service at a time.
ServerInv == TypeOK /\ OneServiceOwned

\* If every service that is told to stop ends (WatchService!StopEndsUnlessWedged
\* says when it does not), every request that was read is answered, and after
\* the end of the input the server exits: no stop of WATCH sleeps through the
\* one that serves it.
EveryRequestAnswered ==
    (\A r \in Numbers \cup {Shutdown} : WF_vars(ServiceEnds(r)))
    => /\ \A r \in Numbers : r < nextSequence ~> r < nextWrite \/ broken
       /\ inputClosed ~> server = "exited"
=============================================================================
