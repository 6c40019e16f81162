--------------------------- MODULE McpServerProofs ---------------------------
(***************************************************************************)
(* Machine-checked proofs about the MCP server, for every number of        *)
(* requests, of requests in flight, of publications and of fresh starts.   *)
(***************************************************************************)
EXTENDS McpServer, TLAPS

Requests == Numbers \cup {Shutdown}

-----------------------------------------------------------------------------
(* The inductive invariant.                                                *)

Loadable  == Generations \ {Unreadable}
QueryPcs  == {"observe", "load", "resolve", "confirm", "install", "admitted"}
StopPcs   == {"stop", "look", "wait", "asleep", "await", "announce"}
Quiescent == {"absent", "replied"}

Item == [pc : QueryPcs \cup StopPcs \cup Quiescent \cup {"start"},
         before : 0..MaxPublications, loaded : Loadable, woken : BOOLEAN,
         seen : SUBSET Generations, current : BOOLEAN]

\* Types, and no sequence or token is ahead of the publications made.
Types ==
    /\ published \in 0..MaxPublications /\ freshStarts \in Nat
    /\ store \in Generations /\ store.token <= published /\ store.sequence <= published
    /\ slot \in [fingerprint : {NoFingerprint} \cup 0..MaxPublications, held : Loadable]
    /\ work \in [Requests -> Item]
    /\ tasks \subseteq Numbers /\ completed \subseteq Numbers
    /\ nextSequence \in 0..MaxRequests /\ nextWrite \in 0..nextSequence
    /\ inputClosed \in BOOLEAN /\ broken \in BOOLEAN
    /\ server \in {"loop", "shutdown", "exited"}
    /\ lifecycle \in {"Stopped", "Running", "Stopping"} /\ live \in Int

\* The loop keeps an exact account: what was read and not yet written is at
\* work or waits for its turn, and only tasks run handlers.  A loop that ended
\* without a transport error has nothing left.
LoopTrue ==
    /\ tasks \cap completed = {}
    /\ tasks \cup completed = nextWrite..(nextSequence - 1)
    /\ \A r \in Numbers : work[r].pc \notin Quiescent => r \in tasks
    /\ server # "loop" /\ ~broken => tasks = {} /\ nextWrite = nextSequence

\* The service is owned by the lifecycle or by the one stop that took it.
\* Shutdown, once it has ended the service, finds nobody to start another.
WatchTrue ==
    /\ lifecycle = "Stopping" <=> \E r \in Requests : work[r].pc = "await"
    /\ \A q, r \in Requests : work[q].pc = "await" /\ work[r].pc = "await" => q = r
    /\ live = IF lifecycle = "Stopped" THEN 0 ELSE 1
    /\ work[Shutdown].pc \in StopPcs \cup Quiescent
    /\ server = "loop" => work[Shutdown].pc = "absent"
    /\ server # "loop" /\ ~broken /\ work[Shutdown].pc \in {"announce", "replied"} =>
         lifecycle = "Stopped"
    /\ server = "exited" /\ ~broken => work[Shutdown].pc = "replied"

ServerIInv == Types /\ LoopTrue /\ WatchTrue

\* The k-th generation of a store that was never started anew.
Gen(k) == [token |-> k, sequence |-> k]

SlotTrue ==
    /\ slot.held.token \in 0..published /\ slot.held = Gen(slot.held.token)
    /\ slot.fingerprint \in {NoFingerprint, slot.held.token}
    /\ slot.fingerprint = NoFingerprint => slot.held = Unpublished

\* What a query has seen is closed towards the present: it holds the current
\* generation and with each one all later ones.
SeenTrue(w) ==
    /\ w.pc \in QueryPcs => store \in w.seen
    /\ \A j, k \in 0..published : Gen(j) \in w.seen /\ j <= k => Gen(k) \in w.seen

\* What a query has loaded it has seen, and at the installation it is exactly
\* what the control token it read before the load stood for.
LoadTrue(w) ==
    /\ w.pc \in {"observe", "load", "resolve"} => w.loaded = Unpublished
    /\ w.pc \in {"resolve", "confirm", "install"} => w.before <= published
    /\ w.pc \in {"confirm", "install"} =>
         /\ w.loaded = Gen(w.loaded.token) /\ w.loaded \in w.seen
         /\ w.before <= w.loaded.token /\ w.loaded.token <= published
    /\ w.pc = "install" => w.loaded.token = w.before

QueryTrue ==
    /\ store = Gen(published) /\ SlotTrue
    /\ \A r \in Requests :
         /\ work[r].current /\ SeenTrue(work[r]) /\ LoadTrue(work[r])
         /\ work[r].pc = "admitted" => slot.held \in work[r].seen

McpIInv == ServerIInv /\ (freshStarts = 0 => QueryTrue)

-----------------------------------------------------------------------------
(* Facts about the constants, the items and what replaces them.            *)

LEMMA NumbersAndShutdown ==
    /\ MaxRequests \in Nat /\ MaxPublications \in Nat /\ 1 <= MaxPublications
    /\ Numbers \subseteq Nat /\ Shutdown \notin Numbers /\ Shutdown \in Requests
    /\ Numbers \subseteq Requests
    /\ \A n \in Nat : n < MaxRequests => n \in Numbers
  BY McpAssumption DEF Numbers, Shutdown, Requests

LEMMA NothingIsLoadable ==
    /\ Unpublished \in Loadable /\ Unpublished = Gen(0)
    /\ Unreadable \in Generations /\ Unreadable # Unpublished
    /\ \A g \in Loadable : g \in [token : 0..MaxPublications, sequence : 0..MaxPublications]
    /\ \A g \in Generations : g # Unreadable => g \in Loadable
  BY McpAssumption DEF Unpublished, Unreadable, Loadable, Generations, Gen

Replied == [Absent EXCEPT !.pc = "replied"]

LEMMA RepliedIsItem ==
    /\ Absent \in Item /\ Absent.pc = "absent" /\ Absent.seen = {} /\ Absent.current
    /\ Absent.loaded = Unpublished
    /\ Replied \in Item /\ Replied.pc = "replied" /\ Replied.seen = {} /\ Replied.current
  <1>1. 0 \in 0..MaxPublications /\ Unpublished \in Loadable
    BY NothingIsLoadable, McpAssumption
  <1>2. "absent" \in Quiescent /\ "replied" \in Quiescent
    BY DEF Quiescent
  <1>3. Absent \in Item
    BY <1>1, <1>2 DEF Absent, Item
  <1>4. /\ Absent.pc = "absent" /\ Absent.seen = {} /\ Absent.current = TRUE
        /\ Absent.loaded = Unpublished
    BY DEF Absent
  <1>5. Replied \in Item
    BY <1>2, <1>3 DEF Replied, Item
  <1>6. Replied.pc = "replied" /\ Replied.seen = {} /\ Replied.current = TRUE
    BY <1>3, <1>4 DEF Replied, Item
  <1> QED
    BY <1>3, <1>4, <1>5, <1>6

\* One request moves on.
Put(r, w) == work' = [work EXCEPT ![r] = w]

LEMMA PutItem ==
    ASSUME Types, NEW r \in Requests, NEW w \in Item, Put(r, w)
    PROVE  /\ work' \in [Requests -> Item] /\ work'[r] = w
           /\ \A q \in Requests : q # r => work'[q] = work[q]
  BY DEF Types, Put

LEMMA GotoIsPut ==
    ASSUME Types, NEW r \in Requests, NEW pc \in QueryPcs \cup StopPcs \cup Quiescent \cup {"start"},
           Goto(r, pc)
    PROVE  /\ Put(r, [work[r] EXCEPT !.pc = pc]) /\ [work[r] EXCEPT !.pc = pc] \in Item
           /\ [work[r] EXCEPT !.pc = pc].pc = pc
  BY DEF Types, Put, Goto, Item

LEMMA ReplyIsPut ==
    ASSUME NEW r \in Requests, Reply(r)
    PROVE  Put(r, Replied)
  BY DEF Reply, Put, Replied

-----------------------------------------------------------------------------
(* Steps of queries: the loop and WATCH do not notice them.                *)

LEMMA QueryIsQuiet ==
    ASSUME ServerIInv, NEW r \in Requests, NEW w \in Item, Put(r, w),
           work[r].pc \in QueryPcs, w.pc \in QueryPcs \cup {"replied"},
           UNCHANGED <<loopVars, watchVars>>
    PROVE  LoopTrue' /\ WatchTrue'
  <1>1. /\ work'[r] = w /\ \A q \in Requests : q # r => work'[q] = work[q]
    BY PutItem DEF ServerIInv
  <1>2. r \in Numbers
    BY NumbersAndShutdown DEF ServerIInv, WatchTrue, QueryPcs, StopPcs, Quiescent, Requests
  <1>3. LoopTrue'
    BY <1>1, <1>2, NumbersAndShutdown
       DEF ServerIInv, LoopTrue, loopVars, QueryPcs, Quiescent
  <1>4. \A q \in Requests : work'[q].pc = "await" <=> work[q].pc = "await"
    BY <1>1 DEF QueryPcs
  <1>5. work'[Shutdown] = work[Shutdown]
    BY <1>1, <1>2, NumbersAndShutdown
  <1>6. WatchTrue'
    BY <1>4, <1>5, NumbersAndShutdown DEF ServerIInv, WatchTrue, loopVars, watchVars
  <1> QED
    BY <1>3, <1>6

\* What a query's step leaves true, when its own item stays true and the slot
\* does not go back.
LEMMA QueryStaysTrue ==
    ASSUME Types, QueryTrue, NEW r \in Requests, NEW w \in Item, Put(r, w),
           UNCHANGED <<store, published>>, SlotTrue', slot.held.token <= slot'.held.token,
           w.current, SeenTrue(w), LoadTrue(w), w.pc = "admitted" => slot'.held \in w.seen
    PROVE  QueryTrue'
  <1>1. /\ work'[r] = w /\ \A q \in Requests : q # r => work'[q] = work[q]
    BY PutItem
  <1>2. ASSUME NEW q \in Requests
        PROVE  /\ work'[q].current /\ SeenTrue(work[q])' /\ LoadTrue(work[q])'
               /\ work'[q].pc = "admitted" => slot'.held \in work'[q].seen
    <2>1. CASE q = r
      BY <2>1, <1>1 DEF SeenTrue, LoadTrue
    <2>2. CASE q # r
      <3>1. work'[q] = work[q]
        BY <2>2, <1>1
      <3>2. SeenTrue(work[q]) /\ LoadTrue(work[q]) /\ work[q].current
        BY DEF QueryTrue
      <3>3. SeenTrue(work[q])' /\ LoadTrue(work[q])'
        BY <3>1, <3>2 DEF SeenTrue, LoadTrue
      <3>4. ASSUME work'[q].pc = "admitted" PROVE slot'.held \in work'[q].seen
        <4>1. slot.held \in work[q].seen
          BY <3>1, <3>4 DEF QueryTrue
        <4>2. /\ slot.held = Gen(slot.held.token) /\ slot.held.token \in 0..published
              /\ slot'.held = Gen(slot'.held.token) /\ slot'.held.token \in 0..published
          BY DEF QueryTrue, SlotTrue
        <4> QED
          BY <3>1, <3>2, <4>1, <4>2 DEF SeenTrue
      <3> QED
        BY <3>1, <3>2, <3>3, <3>4
    <2> QED
      BY <2>1, <2>2
  <1> QED
    BY <1>2 DEF QueryTrue

LEMMA ObserveKeeps ==
    ASSUME McpIInv, NEW r \in Requests, Observe(r)
    PROVE  McpIInv'
  <1> USE DEF McpIInv
  <1>0. Types /\ work[r] \in Item /\ work[r].pc = "observe" /\ UNCHANGED <<loopVars, watchVars>>
    BY DEF ServerIInv, Types, Observe, QueryStep
  <1>1. UNCHANGED queryVars
    BY DEF Observe
  <1>2. PICK w \in Item :
            /\ Put(r, w) /\ w.pc \in {"replied", "admitted", "load"}
            /\ w = Replied \/ w = [work[r] EXCEPT !.pc = "admitted"]
                           \/ w = [work[r] EXCEPT !.pc = "load"]
            /\ w.pc = "admitted" => store # Unreadable /\ store.token = slot.fingerprint
    <2>1. CASE store = Unreadable /\ Reply(r)
      BY <2>1, ReplyIsPut, RepliedIsItem
    <2>2. CASE store # Unreadable /\ store.token = slot.fingerprint /\ Goto(r, "admitted")
      BY <2>2, <1>0, GotoIsPut DEF QueryPcs, Item
    <2>3. CASE store # Unreadable /\ store.token # slot.fingerprint /\ Goto(r, "load")
      BY <2>3, <1>0, GotoIsPut DEF QueryPcs, Item
    <2> QED
      BY <2>1, <2>2, <2>3 DEF Observe
  <1>3. LoopTrue' /\ WatchTrue'
    BY <1>0, <1>2, QueryIsQuiet DEF QueryPcs
  <1>4. Types'
    BY <1>0, <1>1, <1>2, PutItem DEF Types, queryVars, loopVars, watchVars
  <1>5. ASSUME QueryTrue PROVE QueryTrue'
    <2>1. SlotTrue' /\ slot.held.token <= slot'.held.token
      BY <1>1, <1>5 DEF QueryTrue, SlotTrue, queryVars
    <2>2. work[r].current /\ SeenTrue(work[r]) /\ LoadTrue(work[r])
      BY <1>5 DEF QueryTrue
    <2>3. w.current /\ SeenTrue(w) /\ LoadTrue(w)
      BY <1>2, <2>2, <1>0, RepliedIsItem DEF SeenTrue, LoadTrue, QueryPcs, Item
    <2>4. w.pc = "admitted" => slot'.held \in w.seen
      <3>1. SUFFICES ASSUME w.pc = "admitted" PROVE slot.held \in w.seen
        BY <1>1 DEF queryVars
      <3>2. store \in work[r].seen /\ w.seen = work[r].seen
        BY <3>1, <1>0, <1>2, <2>2, RepliedIsItem DEF SeenTrue, QueryPcs, Item
      <3>3. slot.held = store
        BY <3>1, <1>0, <1>2, <1>5 DEF QueryTrue, SlotTrue, Gen, NoFingerprint, Types
      <3> QED
        BY <3>2, <3>3
    <2> QED
      BY <1>0, <1>1, <1>2, <1>5, <2>1, <2>3, <2>4, QueryStaysTrue DEF queryVars
  <1> QED
    BY <1>1, <1>3, <1>4, <1>5 DEF ServerIInv, queryVars

LEMMA LoadKeeps ==
    ASSUME McpIInv, NEW r \in Requests, Load(r)
    PROVE  McpIInv'
  <1> USE DEF McpIInv
  <1>0. Types /\ work[r] \in Item /\ work[r].pc = "load" /\ UNCHANGED <<loopVars, watchVars>>
    BY DEF ServerIInv, Types, Load, QueryStep
  <1>1. UNCHANGED queryVars
    BY DEF Load
  <1> DEFINE Loading(pc) == [work[r] EXCEPT !.before = store.token, !.pc = pc]
  <1>2. PICK w \in Item :
            /\ Put(r, w) /\ w.pc \in {"replied", "confirm", "resolve"}
            /\ \/ w = Replied
               \/ w = Loading("confirm") /\ store = Unpublished
               \/ w = Loading("resolve")
    <2>1. CASE store = Unreadable
      BY <2>1, ReplyIsPut, RepliedIsItem DEF Load
    <2>2. CASE store # Unreadable
      <3>1. store.token \in 0..MaxPublications
        BY <2>2, <1>0, NothingIsLoadable DEF Types
      <3>2. /\ Loading("confirm") \in Item /\ Loading("confirm").pc = "confirm"
            /\ Loading("resolve") \in Item /\ Loading("resolve").pc = "resolve"
        BY <1>0, <3>1 DEF Item, QueryPcs
      <3>3. CASE store = Unpublished
        <4>1. work' = [work EXCEPT ![r].before = store.token, ![r].pc = "confirm"]
          BY <2>2, <3>3 DEF Load
        <4>2. Put(r, Loading("confirm"))
          BY <4>1, <1>0 DEF Put, Types
        <4> QED
          BY <3>2, <3>3, <4>2
      <3>4. CASE store # Unpublished
        <4>1. work' = [work EXCEPT ![r].before = store.token, ![r].pc = "resolve"]
          BY <2>2, <3>4 DEF Load
        <4>2. Put(r, Loading("resolve"))
          BY <4>1, <1>0 DEF Put, Types
        <4> QED
          BY <3>2, <4>2
      <3> QED
        BY <3>3, <3>4
    <2> QED
      BY <2>1, <2>2
  <1>3. LoopTrue' /\ WatchTrue'
    BY <1>0, <1>2, QueryIsQuiet DEF QueryPcs
  <1>4. Types'
    BY <1>0, <1>1, <1>2, PutItem DEF Types, queryVars, loopVars, watchVars
  <1>5. ASSUME QueryTrue PROVE QueryTrue'
    <2>1. SlotTrue' /\ slot.held.token <= slot'.held.token
      BY <1>1, <1>5 DEF QueryTrue, SlotTrue, queryVars
    <2>2. work[r].current /\ SeenTrue(work[r]) /\ LoadTrue(work[r])
      BY <1>5 DEF QueryTrue
    <2>3. store = Gen(published) /\ published \in Nat
      BY <1>0, <1>5 DEF QueryTrue, Types
    <2>4. w.current /\ SeenTrue(w) /\ LoadTrue(w)
      <3>1. CASE w = Replied
        BY <3>1, RepliedIsItem DEF SeenTrue, LoadTrue, QueryPcs
      <3>2. CASE w = Loading("confirm") /\ store = Unpublished
        <4>1. /\ w.pc = "confirm" /\ w.before = store.token /\ w.loaded = work[r].loaded
              /\ w.seen = work[r].seen /\ w.current = work[r].current
          BY <3>2, <1>0 DEF Item
        <4>2. w.loaded = store /\ store \in w.seen
          BY <4>1, <3>2, <2>2, <1>0 DEF SeenTrue, LoadTrue, QueryPcs
        <4> QED
          BY <4>1, <4>2, <2>2, <2>3 DEF SeenTrue, LoadTrue, QueryPcs, Gen
      <3>3. CASE w = Loading("resolve")
        <4>1. /\ w.pc = "resolve" /\ w.before = store.token /\ w.loaded = work[r].loaded
              /\ w.seen = work[r].seen /\ w.current = work[r].current
          BY <3>3, <1>0 DEF Item
        <4> QED
          BY <4>1, <1>0, <2>2, <2>3 DEF SeenTrue, LoadTrue, QueryPcs, Gen
      <3> QED
        BY <1>2, <3>1, <3>2, <3>3
    <2> QED
      BY <1>0, <1>1, <1>2, <1>5, <2>1, <2>4, QueryStaysTrue DEF queryVars
  <1> QED
    BY <1>1, <1>3, <1>4, <1>5 DEF ServerIInv, queryVars

LEMMA ResolveKeeps ==
    ASSUME McpIInv, NEW r \in Requests, Resolve(r)
    PROVE  McpIInv'
  <1> USE DEF McpIInv
  <1>0. Types /\ work[r] \in Item /\ work[r].pc = "resolve" /\ UNCHANGED <<loopVars, watchVars>>
    BY DEF ServerIInv, Types, Resolve, QueryStep
  <1>1. UNCHANGED queryVars
    BY DEF Resolve
  <1> DEFINE loaded == [work[r] EXCEPT !.loaded = store, !.pc = "confirm"]
  <1>2. PICK w \in Item :
            /\ Put(r, w) /\ w.pc \in {"replied", "confirm"}
            /\ w = Replied \/ w = loaded
    <2>1. CASE store.token # work[r].before /\ Reply(r)
      BY <2>1, ReplyIsPut, RepliedIsItem
    <2>2. CASE /\ IsPublished(store)
               /\ work' = [work EXCEPT ![r].loaded = store, ![r].pc = "confirm"]
      <3>1. store \in Loadable
        BY <2>2, <1>0, NothingIsLoadable DEF Types, IsPublished, Unreadable
      <3>2. loaded \in Item /\ loaded.pc = "confirm"
        BY <1>0, <3>1 DEF Item, QueryPcs
      <3>3. Put(r, loaded)
        BY <2>2, <1>0 DEF Put, Types
      <3> QED
        BY <3>2, <3>3
    <2> QED
      BY <2>1, <2>2 DEF Resolve
  <1>3. LoopTrue' /\ WatchTrue'
    BY <1>0, <1>2, QueryIsQuiet DEF QueryPcs
  <1>4. Types'
    BY <1>0, <1>1, <1>2, PutItem DEF Types, queryVars, loopVars, watchVars
  <1>5. ASSUME QueryTrue PROVE QueryTrue'
    <2>1. SlotTrue' /\ slot.held.token <= slot'.held.token
      BY <1>1, <1>5 DEF QueryTrue, SlotTrue, queryVars
    <2>2. work[r].current /\ SeenTrue(work[r]) /\ LoadTrue(work[r])
      BY <1>5 DEF QueryTrue
    <2>3. store = Gen(published) /\ published \in Nat
      BY <1>0, <1>5 DEF QueryTrue, Types
    <2>4. w.current /\ SeenTrue(w) /\ LoadTrue(w)
      <3>1. CASE w = Replied
        BY <3>1, RepliedIsItem DEF SeenTrue, LoadTrue, QueryPcs
      <3>2. CASE w = loaded
        <4>1. /\ w.pc = "confirm" /\ w.before = work[r].before /\ w.loaded = store
              /\ w.seen = work[r].seen /\ w.current = work[r].current
          BY <3>2, <1>0 DEF Item
        <4> QED
          BY <4>1, <1>0, <2>2, <2>3 DEF SeenTrue, LoadTrue, QueryPcs, Gen
      <3> QED
        BY <1>2, <3>1, <3>2
    <2> QED
      BY <1>0, <1>1, <1>2, <1>5, <2>1, <2>4, QueryStaysTrue DEF queryVars
  <1> QED
    BY <1>1, <1>3, <1>4, <1>5 DEF ServerIInv, queryVars

LEMMA ConfirmKeeps ==
    ASSUME McpIInv, NEW r \in Requests, Confirm(r)
    PROVE  McpIInv'
  <1> USE DEF McpIInv
  <1>0. Types /\ work[r] \in Item /\ work[r].pc = "confirm" /\ UNCHANGED <<loopVars, watchVars>>
    BY DEF ServerIInv, Types, Confirm, QueryStep
  <1>1. UNCHANGED queryVars
    BY DEF Confirm
  <1>2. PICK w \in Item :
            /\ Put(r, w) /\ w.pc \in {"replied", "install"}
            /\ \/ w = Replied
               \/ w = [work[r] EXCEPT !.pc = "install"] /\ store.token = work[r].before
    <2>1. CASE store.token = work[r].before /\ Goto(r, "install")
      BY <2>1, <1>0, GotoIsPut DEF QueryPcs, Item
    <2>2. CASE Reply(r)
      BY <2>2, ReplyIsPut, RepliedIsItem
    <2> QED
      BY <2>1, <2>2 DEF Confirm
  <1>3. LoopTrue' /\ WatchTrue'
    BY <1>0, <1>2, QueryIsQuiet DEF QueryPcs
  <1>4. Types'
    BY <1>0, <1>1, <1>2, PutItem DEF Types, queryVars, loopVars, watchVars
  <1>5. ASSUME QueryTrue PROVE QueryTrue'
    <2>1. SlotTrue' /\ slot.held.token <= slot'.held.token
      BY <1>1, <1>5 DEF QueryTrue, SlotTrue, queryVars
    <2>2. work[r].current /\ SeenTrue(work[r]) /\ LoadTrue(work[r])
      BY <1>5 DEF QueryTrue
    <2>3. store = Gen(published) /\ published \in Nat
      BY <1>0, <1>5 DEF QueryTrue, Types
    <2>4. w.current /\ SeenTrue(w) /\ LoadTrue(w)
      <3>1. CASE w = Replied
        BY <3>1, RepliedIsItem DEF SeenTrue, LoadTrue, QueryPcs
      <3>2. CASE w = [work[r] EXCEPT !.pc = "install"] /\ store.token = work[r].before
        <4>1. /\ w.pc = "install" /\ w.before = work[r].before /\ w.loaded = work[r].loaded
              /\ w.seen = work[r].seen /\ w.current = work[r].current
          BY <3>2, <1>0 DEF Item
        <4>2. w.loaded.token \in Nat
          BY <4>1, <1>0, NothingIsLoadable DEF Item
        <4> QED
          BY <4>1, <4>2, <3>2, <1>0, <2>2, <2>3 DEF SeenTrue, LoadTrue, QueryPcs, Gen
      <3> QED
        BY <1>2, <3>1, <3>2
    <2> QED
      BY <1>0, <1>1, <1>2, <1>5, <2>1, <2>4, QueryStaysTrue DEF queryVars
  <1> QED
    BY <1>1, <1>3, <1>4, <1>5 DEF ServerIInv, queryVars

LEMMA InstallKeeps ==
    ASSUME McpIInv, NEW r \in Requests, Install(r)
    PROVE  McpIInv'
  <1> USE DEF McpIInv
  <1>0. /\ Types /\ work[r] \in Item /\ work[r].pc = "install"
        /\ UNCHANGED <<loopVars, watchVars>> /\ UNCHANGED <<store, published, freshStarts>>
    BY DEF ServerIInv, Types, Install, QueryStep
  <1> DEFINE new == work[r].loaded
             held == slot.held
             installed == [fingerprint |-> work[r].before, held |-> new]
             Kept == \/ slot.fingerprint = work[r].before
                     \/ IsPublished(held) /\ IsPublished(new) /\ new.sequence < held.sequence
             Newer == /\ slot.fingerprint # work[r].before
                      /\ IsPublished(held) =>
                            /\ IsPublished(new)
                            /\ \/ new.sequence > held.sequence
                               \/ new.sequence = held.sequence /\ new.token = held.token
  <1>1. PICK w \in Item :
            /\ Put(r, w) /\ w.pc \in {"replied", "admitted"}
            /\ \/ w = Replied /\ slot' = slot
               \/ w = [work[r] EXCEPT !.pc = "admitted"] /\ slot' = slot /\ Kept
               \/ w = [work[r] EXCEPT !.pc = "admitted"] /\ slot' = installed /\ Newer
    <2>1. CASE Kept /\ slot' = slot /\ Goto(r, "admitted")
      BY <2>1, <1>0, GotoIsPut DEF QueryPcs
    <2>2. CASE slot' = slot /\ Reply(r)
      BY <2>2, ReplyIsPut, RepliedIsItem
    <2>3. CASE Newer /\ slot' = installed /\ Goto(r, "admitted")
      BY <2>3, <1>0, GotoIsPut DEF QueryPcs
    <2> QED
      BY <2>1, <2>2, <2>3 DEF Install
  <1>2. LoopTrue' /\ WatchTrue'
    BY <1>0, <1>1, QueryIsQuiet DEF QueryPcs
  <1>3. slot' \in [fingerprint : {NoFingerprint} \cup 0..MaxPublications, held : Loadable]
    BY <1>0, <1>1 DEF Types, Item
  <1>4. Types'
    BY <1>0, <1>1, <1>3, PutItem DEF Types, loopVars, watchVars
  <1>5. ASSUME QueryTrue PROVE QueryTrue'
    <2>1. work[r].current /\ SeenTrue(work[r]) /\ LoadTrue(work[r]) /\ SlotTrue
      BY <1>5 DEF QueryTrue
    <2>2. /\ new = Gen(new.token) /\ new \in work[r].seen /\ new.token = work[r].before
          /\ new.token \in 0..published /\ published \in Nat /\ work[r].before \in Nat
      BY <2>1, <1>0, NothingIsLoadable DEF LoadTrue, Item, Types
    <2>3. held = Gen(held.token) /\ held.token \in 0..published
      BY <2>1 DEF SlotTrue
    <2>4. /\ new.sequence = new.token /\ held.sequence = held.token
      BY <2>2, <2>3 DEF Gen
    <2>5. CASE w = Replied /\ slot' = slot
      <3>1. SlotTrue' /\ slot.held.token <= slot'.held.token
        BY <2>5, <2>1, <1>0 DEF SlotTrue
      <3>2. w.current /\ SeenTrue(w) /\ LoadTrue(w) /\ w.pc # "admitted"
        BY <2>5, RepliedIsItem DEF SeenTrue, LoadTrue, QueryPcs
      <3> QED
        BY <1>0, <1>1, <1>5, <3>1, <3>2, QueryStaysTrue
    <2>6. CASE /\ w = [work[r] EXCEPT !.pc = "admitted"]
               /\ (slot' = slot /\ Kept) \/ (slot' = installed /\ Newer)
      <3>1. /\ w.pc = "admitted" /\ w.seen = work[r].seen /\ w.current = work[r].current
        BY <2>6, <1>0 DEF Item
      <3>2. w.current /\ SeenTrue(w) /\ LoadTrue(w)
        BY <3>1, <2>1, <1>0 DEF SeenTrue, LoadTrue, QueryPcs
      <3>3. CASE slot' = slot /\ Kept
        <4>1. SlotTrue' /\ slot.held.token <= slot'.held.token
          BY <3>3, <2>1, <1>0 DEF SlotTrue
        <4>2. held \in work[r].seen
          <5>1. CASE slot.fingerprint = work[r].before
            <6>1. slot.fingerprint # NoFingerprint
              BY <5>1, <2>2 DEF NoFingerprint
            <6>2. held.token = new.token
              BY <5>1, <6>1, <2>1, <2>2 DEF SlotTrue
            <6> QED
              BY <6>2, <2>2, <2>3
          <5>2. CASE new.sequence < held.sequence
            <6>1. new.token <= held.token
              BY <5>2, <2>2, <2>3, <2>4
            <6>2. Gen(new.token) \in work[r].seen
              BY <2>2
            <6> QED
              BY <6>1, <6>2, <2>1, <2>2, <2>3 DEF SeenTrue
          <5> QED
            BY <3>3, <5>1, <5>2
        <4>3. w.pc = "admitted" => slot'.held \in w.seen
          BY <3>1, <3>3, <4>2
        <4> QED
          BY <1>0, <1>1, <1>5, <3>2, <4>1, <4>3, QueryStaysTrue
      <3>4. CASE slot' = installed /\ Newer
        <4>1. slot'.held = new /\ slot'.fingerprint = new.token
          BY <3>4, <2>2
        <4>2. held.token <= new.token
          <5>1. CASE IsPublished(held)
            BY <5>1, <3>4, <2>2, <2>3, <2>4
          <5>2. CASE ~IsPublished(held)
            BY <5>2, <2>2, <2>3 DEF IsPublished
          <5> QED
            BY <5>1, <5>2
        <4>3. SlotTrue' /\ slot.held.token <= slot'.held.token
          BY <4>1, <4>2, <2>2, <1>0 DEF SlotTrue, NoFingerprint, Gen
        <4>4. w.pc = "admitted" => slot'.held \in w.seen
          BY <4>1, <3>1, <2>2
        <4> QED
          BY <1>0, <1>1, <1>5, <3>2, <4>3, <4>4, QueryStaysTrue
      <3> QED
        BY <2>6, <3>3, <3>4
    <2>7. \/ w = Replied /\ slot' = slot
          \/ /\ w = [work[r] EXCEPT !.pc = "admitted"]
             /\ (slot' = slot /\ Kept) \/ (slot' = installed /\ Newer)
      BY <1>1
    <2> QED
      BY <2>5, <2>6, <2>7
  <1> QED
    BY <1>0, <1>2, <1>4, <1>5 DEF ServerIInv

LEMMA AnswerKeeps ==
    ASSUME McpIInv, NEW r \in Requests, Answer(r)
    PROVE  McpIInv'
  <1> USE DEF McpIInv
  <1>0. Types /\ work[r] \in Item /\ work[r].pc = "admitted" /\ UNCHANGED <<loopVars, watchVars>>
    BY DEF ServerIInv, Types, Answer, QueryStep
  <1>1. UNCHANGED queryVars
    BY DEF Answer
  <1> DEFINE w == [Absent EXCEPT !.pc = "replied", !.current = slot.held \in work[r].seen]
  <1>2. w \in Item /\ w.pc = "replied" /\ w.seen = {} /\ w.current = (slot.held \in work[r].seen)
    <2> DEFINE b == slot.held \in work[r].seen
    <2>1. b \in BOOLEAN
      OBVIOUS
    <2>2. w = [[Absent EXCEPT !.pc = "replied"] EXCEPT !.current = b]
      BY RepliedIsItem DEF Item
    <2> HIDE DEF b, w
    <2>3. w = [Replied EXCEPT !.current = b]
      BY <2>2 DEF Replied
    <2>4. w \in Item /\ w.pc = "replied" /\ w.seen = {} /\ w.current = b
      BY <2>1, <2>3, RepliedIsItem DEF Item
    <2> QED
      BY <2>4 DEF b
  <1>3. Put(r, w)
    BY DEF Answer, Put
  <1> HIDE DEF w
  <1>4. LoopTrue' /\ WatchTrue'
    BY <1>0, <1>2, <1>3, QueryIsQuiet DEF QueryPcs
  <1>5. Types'
    BY <1>0, <1>1, <1>2, <1>3, PutItem DEF Types, queryVars, loopVars, watchVars
  <1>6. ASSUME QueryTrue PROVE QueryTrue'
    <2>1. SlotTrue' /\ slot.held.token <= slot'.held.token
      BY <1>1, <1>6 DEF QueryTrue, SlotTrue, queryVars
    <2>2. w.current /\ SeenTrue(w) /\ LoadTrue(w)
      BY <1>0, <1>2, <1>6 DEF QueryTrue, SeenTrue, LoadTrue, QueryPcs
    <2> QED
      BY <1>0, <1>1, <1>2, <1>3, <1>6, <2>1, <2>2, QueryStaysTrue DEF queryVars
  <1> QED
    BY <1>1, <1>4, <1>5, <1>6 DEF ServerIInv, queryVars

-----------------------------------------------------------------------------
(* Steps of WATCH starts and stops: the queries do not notice them.        *)

LEMMA WatchIsQuiet ==
    ASSUME Types, QueryTrue, NEW r \in Requests, NEW w \in Item, Put(r, w), UNCHANGED queryVars,
           w.pc \notin QueryPcs, w.current, w.seen \in {{}, work[r].seen}
    PROVE  QueryTrue'
  <1>1. SlotTrue' /\ slot.held.token <= slot'.held.token
    BY DEF QueryTrue, SlotTrue, queryVars
  <1>2. SeenTrue(work[r])
    BY DEF QueryTrue
  <1>3. SeenTrue(w) /\ LoadTrue(w)
    BY <1>2 DEF SeenTrue, LoadTrue, QueryPcs
  <1> QED
    BY <1>1, <1>3, QueryStaysTrue DEF queryVars, QueryPcs

LEMMA WatchKeepsLoop ==
    ASSUME ServerIInv, NEW r \in Requests, NEW w \in Item, Put(r, w), UNCHANGED loopVars,
           w.pc \notin Quiescent => work[r].pc \notin Quiescent
    PROVE  LoopTrue'
  BY PutItem, NumbersAndShutdown DEF ServerIInv, LoopTrue, loopVars

\* Which request awaits the end of the service, and who may still start one.
LEMMA NobodyElseStarts ==
    ASSUME ServerIInv, NEW r \in Requests, work[r].pc \notin Quiescent, server # "loop", ~broken
    PROVE  r = Shutdown
  BY NumbersAndShutdown DEF ServerIInv, LoopTrue, Requests

LEMMA StartKeeps ==
    ASSUME McpIInv, NEW r \in Requests, Start(r)
    PROVE  McpIInv'
  <1> USE DEF McpIInv
  <1>0. Types /\ work[r] \in Item /\ work[r].pc = "start" /\ UNCHANGED <<queryVars, loopVars>>
    BY DEF ServerIInv, Types, Start
  <1>1. Put(r, Replied) /\ Replied \in Item /\ Replied.pc = "replied" /\ Replied.seen = {}
        /\ Replied.current
    BY ReplyIsPut, RepliedIsItem DEF Start
  <1>2. r # Shutdown
    BY <1>0 DEF ServerIInv, WatchTrue, StopPcs, Quiescent
  <1>3. /\ work'[r] = Replied /\ \A q \in Requests : q # r => work'[q] = work[q]
    BY <1>0, <1>1, PutItem
  <1>4. LoopTrue'
    BY <1>0, <1>1, WatchKeepsLoop DEF Quiescent
  <1>5. \/ lifecycle = "Stopped" /\ lifecycle' = "Running" /\ live' = live + 1
        \/ UNCHANGED <<lifecycle, live>>
    BY DEF Start
  <1>6. Types'
    BY <1>0, <1>1, <1>5, PutItem DEF Types, queryVars, loopVars
  <1>7. server # "loop" => broken
    BY <1>0, <1>2, NobodyElseStarts DEF Quiescent
  <1>8. WatchTrue'
    <2>1. \A q \in Requests : work'[q].pc = "await" <=> work[q].pc = "await"
      BY <1>0, <1>1, <1>3
    <2>2. work'[Shutdown] = work[Shutdown]
      BY <1>2, <1>3, NumbersAndShutdown
    <2> QED
      BY <2>1, <2>2, <1>0, <1>5, <1>7, NumbersAndShutdown
         DEF ServerIInv, WatchTrue, loopVars, Types
  <1>9. QueryTrue => QueryTrue'
    BY <1>0, <1>1, WatchIsQuiet DEF QueryPcs
  <1> QED
    BY <1>0, <1>4, <1>6, <1>8, <1>9 DEF ServerIInv, queryVars

LEMMA StopIsQuiet ==
    ASSUME ServerIInv, Running, NEW r \in Requests, NEW w \in Item, Put(r, w),
           UNCHANGED <<loopVars, watchVars>>, work[r].pc \in {"stop", "look", "wait"},
           \/ w.pc \in {"look", "wait", "asleep", "stop"}
           \/ w.pc = "replied" /\ lifecycle = "Stopped"
    PROVE  LoopTrue' /\ WatchTrue'
  <1>1. /\ work'[r] = w /\ \A q \in Requests : q # r => work'[q] = work[q]
    BY PutItem DEF ServerIInv
  <1>2. LoopTrue'
    BY WatchKeepsLoop DEF Quiescent
  <1>3. \A q \in Requests : work'[q].pc = "await" <=> work[q].pc = "await"
    BY <1>1
  <1>4. \/ work'[Shutdown] = work[Shutdown]
        \/ /\ r = Shutdown /\ server # "loop" /\ work'[Shutdown].pc \in StopPcs \cup Quiescent
           /\ work'[Shutdown].pc \in {"announce", "replied"} => lifecycle = "Stopped"
    BY <1>1, NumbersAndShutdown DEF ServerIInv, WatchTrue, StopPcs, Quiescent
  <1>5. WatchTrue'
    BY <1>3, <1>4, NumbersAndShutdown DEF ServerIInv, WatchTrue, loopVars, watchVars, Running
  <1> QED
    BY <1>2, <1>5

LEMMA EnableKeeps ==
    ASSUME McpIInv, NEW r \in Requests, Enable(r)
    PROVE  McpIInv'
  <1> USE DEF McpIInv
  <1>0. /\ Types /\ work[r] \in Item /\ work[r].pc = "stop" /\ Running
        /\ UNCHANGED <<queryVars, loopVars, watchVars>>
    BY DEF ServerIInv, Types, Enable
  <1> DEFINE w == [work[r] EXCEPT !.pc = "look", !.woken = FALSE]
  <1>1. /\ w \in Item /\ w.pc = "look" /\ w.seen = work[r].seen /\ w.current = work[r].current
    BY <1>0 DEF Item, StopPcs
  <1>2. Put(r, w)
    BY <1>0 DEF Enable, Put, Types
  <1> HIDE DEF w
  <1>3. LoopTrue' /\ WatchTrue'
    BY <1>0, <1>1, <1>2, StopIsQuiet
  <1>4. Types'
    BY <1>0, <1>1, <1>2, PutItem DEF Types, queryVars, loopVars, watchVars
  <1>5. QueryTrue => QueryTrue'
    <2>1. QueryTrue => w.current
      BY <1>1 DEF QueryTrue
    <2> QED
      BY <1>0, <1>1, <1>2, <2>1, WatchIsQuiet DEF QueryPcs
  <1> QED
    BY <1>0, <1>3, <1>4, <1>5 DEF ServerIInv, queryVars

LEMMA WaitKeeps ==
    ASSUME McpIInv, NEW r \in Requests, Wait(r)
    PROVE  McpIInv'
  <1> USE DEF McpIInv
  <1>0. /\ Types /\ work[r] \in Item /\ work[r].pc = "wait" /\ Running
        /\ UNCHANGED <<queryVars, loopVars, watchVars>>
    BY DEF ServerIInv, Types, Wait
  <1>1. PICK pc \in {"stop", "asleep"} : Goto(r, pc)
    BY DEF Wait
  <1> DEFINE w == [work[r] EXCEPT !.pc = pc]
  <1>2. w \in Item /\ w.pc = pc /\ Put(r, w) /\ w.seen = work[r].seen /\ w.current = work[r].current
    BY <1>0, <1>1, GotoIsPut DEF Item, StopPcs
  <1> HIDE DEF w
  <1>3. LoopTrue' /\ WatchTrue'
    BY <1>0, <1>2, StopIsQuiet
  <1>4. Types'
    BY <1>0, <1>2, PutItem DEF Types, queryVars, loopVars, watchVars
  <1>5. QueryTrue => QueryTrue'
    <2>1. QueryTrue => w.current
      BY <1>2 DEF QueryTrue
    <2> QED
      BY <1>0, <1>2, <2>1, WatchIsQuiet DEF QueryPcs
  <1> QED
    BY <1>0, <1>3, <1>4, <1>5 DEF ServerIInv, queryVars

LEMMA LookKeeps ==
    ASSUME McpIInv, NEW r \in Requests, Look(r)
    PROVE  McpIInv'
  <1> USE DEF McpIInv
  <1>0. /\ Types /\ work[r] \in Item /\ work[r].pc = "look" /\ Running
        /\ UNCHANGED <<queryVars, loopVars>>
    BY DEF ServerIInv, Types, Look
  <1>1. ASSUME NEW w \in Item, Put(r, w), w.pc \notin QueryPcs, Types', LoopTrue' /\ WatchTrue',
               w = Replied \/ \E pc \in StopPcs : w = [work[r] EXCEPT !.pc = pc]
        PROVE  McpIInv'
    <2>1. QueryTrue => w.current /\ w.seen \in {{}, work[r].seen}
      BY <1>0, <1>1, RepliedIsItem DEF QueryTrue, Item
    <2>2. QueryTrue => QueryTrue'
      BY <1>0, <1>1, <2>1, WatchIsQuiet
    <2> QED
      BY <1>0, <1>1, <2>2 DEF ServerIInv, queryVars
  <1>2. CASE lifecycle = "Stopped" /\ Reply(r) /\ UNCHANGED watchVars
    <2>1. Put(r, Replied) /\ Replied \in Item /\ Replied.pc = "replied"
      BY <1>2, ReplyIsPut, RepliedIsItem
    <2>2. LoopTrue' /\ WatchTrue'
      BY <1>0, <1>2, <2>1, StopIsQuiet
    <2>3. Types'
      BY <1>0, <1>2, <2>1, PutItem DEF Types, queryVars, loopVars, watchVars
    <2> QED
      BY <1>1, <2>1, <2>2, <2>3 DEF QueryPcs
  <1>3. CASE lifecycle = "Stopping" /\ Goto(r, "wait") /\ UNCHANGED watchVars
    <2> DEFINE w == [work[r] EXCEPT !.pc = "wait"]
    <2>1. Put(r, w) /\ w \in Item /\ w.pc = "wait"
      BY <1>0, <1>3, GotoIsPut DEF StopPcs
    <2>2. LoopTrue' /\ WatchTrue'
      BY <1>0, <1>3, <2>1, StopIsQuiet
    <2>3. Types'
      BY <1>0, <1>3, <2>1, PutItem DEF Types, queryVars, loopVars, watchVars
    <2>4. \E pc \in StopPcs : w = [work[r] EXCEPT !.pc = pc]
      BY DEF StopPcs
    <2> QED
      BY <1>1, <2>1, <2>2, <2>3, <2>4 DEF QueryPcs
  <1>4. CASE /\ lifecycle = "Running" /\ lifecycle' = "Stopping"
             /\ Goto(r, "await") /\ UNCHANGED live
    <2> DEFINE w == [work[r] EXCEPT !.pc = "await"]
    <2>1. Put(r, w) /\ w \in Item /\ w.pc = "await"
      BY <1>0, <1>4, GotoIsPut DEF StopPcs
    <2>2. LoopTrue'
      BY <1>0, <2>1, WatchKeepsLoop DEF Quiescent
    <2>3. Types'
      BY <1>0, <1>4, <2>1, PutItem DEF Types, queryVars, loopVars
    <2>4. \E pc \in StopPcs : w = [work[r] EXCEPT !.pc = pc]
      BY DEF StopPcs
    <2>5. WatchTrue'
      <3>1. /\ work'[r] = w /\ \A q \in Requests : q # r => work'[q] = work[q]
        BY <1>0, <2>1, PutItem
      <3>2. \A q \in Requests : work'[q].pc = "await" <=> q = r
        BY <1>4, <2>1, <3>1 DEF ServerIInv, WatchTrue
      <3>3. server # "loop" /\ ~broken => r = Shutdown
        BY <1>0, NobodyElseStarts DEF Quiescent
      <3>4. r = Shutdown => server # "loop"
        BY <1>0 DEF ServerIInv, WatchTrue
      <3>5. /\ work'[Shutdown].pc \in StopPcs \cup Quiescent
            /\ r = Shutdown => work'[Shutdown].pc = "await"
            /\ r # Shutdown => work'[Shutdown] = work[Shutdown]
        BY <2>1, <3>1, NumbersAndShutdown DEF ServerIInv, WatchTrue, StopPcs
      <3> HIDE DEF w
      <3> QED
        BY <1>0, <1>4, <3>2, <3>3, <3>4, <3>5, NumbersAndShutdown
           DEF ServerIInv, WatchTrue, loopVars, Running
    <2> QED
      BY <1>1, <2>1, <2>2, <2>3, <2>4, <2>5 DEF QueryPcs
  <1> QED
    BY <1>2, <1>3, <1>4 DEF Look

LEMMA ServiceEndsKeeps ==
    ASSUME McpIInv, NEW r \in Requests, ServiceEnds(r)
    PROVE  McpIInv'
  <1> USE DEF McpIInv
  <1>0. /\ Types /\ work[r] \in Item /\ work[r].pc = "await" /\ Running
        /\ UNCHANGED <<queryVars, loopVars>> /\ live' = live - 1 /\ lifecycle' = "Stopped"
    BY DEF ServerIInv, Types, ServiceEnds
  <1> DEFINE w == [work[r] EXCEPT !.pc = "announce"]
  <1>1. Put(r, w) /\ w \in Item /\ w.pc = "announce"
    BY <1>0, GotoIsPut DEF StopPcs, ServiceEnds
  <1>2. LoopTrue'
    BY <1>0, <1>1, WatchKeepsLoop DEF Quiescent
  <1>3. Types'
    BY <1>0, <1>1, PutItem DEF Types, queryVars, loopVars
  <1>4. WatchTrue'
    <2>1. /\ work'[r] = w /\ \A q \in Requests : q # r => work'[q] = work[q]
      BY <1>0, <1>1, PutItem
    <2>2. \A q \in Requests : work'[q].pc # "await"
      BY ZenonT(60), <1>0, <1>1, <2>1 DEF ServerIInv, WatchTrue
    <2>3. lifecycle = "Stopping" /\ live = 1
      BY <1>0 DEF ServerIInv, WatchTrue
    <2>4. /\ work'[Shutdown].pc \in StopPcs \cup Quiescent
          /\ server = "loop" => work'[Shutdown].pc = "absent"
      BY <1>0, <1>1, <2>1, NumbersAndShutdown DEF ServerIInv, WatchTrue, StopPcs
    <2> QED
      BY <1>0, <2>2, <2>3, <2>4 DEF ServerIInv, WatchTrue, loopVars, Running
  <1>5. QueryTrue => QueryTrue'
    <2>1. QueryTrue => w.current /\ w.seen \in {{}, work[r].seen}
      BY <1>0 DEF QueryTrue, Item
    <2> QED
      BY <1>0, <1>1, <2>1, WatchIsQuiet DEF QueryPcs
  <1> QED
    BY <1>0, <1>2, <1>3, <1>4, <1>5 DEF ServerIInv, queryVars

\* A wake-up changes nothing but where a stop stands.
LEMMA WokenIsItem ==
    ASSUME NEW w \in Item
    PROVE  /\ Woken(w) \in Item
           /\ Woken(w).pc = (IF w.pc = "asleep" THEN "stop" ELSE w.pc)
           /\ Woken(w).seen = w.seen /\ Woken(w).current = w.current
           /\ Woken(w).before = w.before /\ Woken(w).loaded = w.loaded
  <1>1. CASE w.pc = "asleep"
    BY <1>1 DEF Woken, Item, StopPcs
  <1>2. CASE w.pc \in {"look", "wait"}
    <2>1. Woken(w) = [w EXCEPT !.woken = TRUE]
      BY <1>2 DEF Woken
    <2> QED
      BY <1>2, <2>1 DEF Item
  <1>3. CASE w.pc \notin {"asleep", "look", "wait"}
    BY <1>3 DEF Woken
  <1> QED
    BY <1>1, <1>2, <1>3

LEMMA AnnounceKeeps ==
    ASSUME McpIInv, NEW r \in Requests, Announce(r)
    PROVE  McpIInv'
  <1> USE DEF McpIInv
  <1>0. /\ Types /\ work[r] \in Item /\ work[r].pc = "announce" /\ Running
        /\ UNCHANGED <<queryVars, loopVars, watchVars>>
    BY DEF ServerIInv, Types, Announce
  <1>1. /\ work' = [q \in Requests |-> IF q = r THEN Replied ELSE Woken(work[q])]
    BY <1>0 DEF Announce, Types, Replied
  <1>2. \A q \in Requests : work'[q] = IF q = r THEN Replied ELSE Woken(work[q])
    BY <1>1
  <1>3. \A q \in Requests : work'[q] \in Item
    BY <1>0, <1>2, WokenIsItem, RepliedIsItem DEF Types
  <1>4. Types'
    BY <1>0, <1>1, <1>3 DEF Types, queryVars, loopVars, watchVars
  <1>5. \A q \in Requests : work'[q].pc = IF q = r THEN "replied"
                              ELSE IF work[q].pc = "asleep" THEN "stop" ELSE work[q].pc
    BY <1>0, <1>2, WokenIsItem, RepliedIsItem DEF Types
  <1>6. LoopTrue'
    BY <1>0, <1>5, NumbersAndShutdown DEF ServerIInv, LoopTrue, loopVars, Quiescent
  <1>7. WatchTrue'
    <2>1. \A q \in Requests : work'[q].pc = "await" <=> work[q].pc = "await"
      BY <1>0, <1>5
    <2>2. /\ work'[Shutdown].pc \in StopPcs \cup Quiescent
          /\ server = "loop" => work'[Shutdown].pc = "absent"
          /\ work'[Shutdown].pc \in {"announce", "replied"} =>
               work[Shutdown].pc \in {"announce", "replied"}
      BY <1>0, <1>5, NumbersAndShutdown DEF ServerIInv, WatchTrue, StopPcs, Quiescent
    <2> QED
      BY <1>0, <2>1, <2>2, NumbersAndShutdown
         DEF ServerIInv, WatchTrue, loopVars, watchVars, Running
  <1>8. ASSUME QueryTrue PROVE QueryTrue'
    <2>1. ASSUME NEW q \in Requests
          PROVE  /\ work'[q].current /\ SeenTrue(work[q])' /\ LoadTrue(work[q])'
                 /\ work'[q].pc = "admitted" => slot'.held \in work'[q].seen
      <3>1. CASE q = r
        <4>1. work'[q] = Replied
          BY <3>1, <1>2
        <4> QED
          BY <4>1, RepliedIsItem DEF SeenTrue, LoadTrue, QueryPcs
      <3>2. CASE q # r
        <4>1. work'[q] = Woken(work[q]) /\ work[q] \in Item
          BY <3>2, <1>0, <1>2 DEF Types
        <4>2. /\ work'[q].seen = work[q].seen /\ work'[q].current = work[q].current
              /\ work'[q].before = work[q].before /\ work'[q].loaded = work[q].loaded
              /\ \/ work'[q].pc = work[q].pc
                 \/ work'[q].pc = "stop"
          BY <4>1, WokenIsItem
        <4>3. work[q].current /\ SeenTrue(work[q]) /\ LoadTrue(work[q])
          BY <1>8 DEF QueryTrue
        <4>4. work[q].pc = "admitted" => slot.held \in work[q].seen
          BY <1>8 DEF QueryTrue
        <4> QED
          BY <1>0, <4>2, <4>3, <4>4 DEF SeenTrue, LoadTrue, QueryPcs, queryVars
      <3> QED
        BY <3>1, <3>2
    <2> QED
      BY <1>0, <1>8, <2>1 DEF QueryTrue, SlotTrue, queryVars
  <1> QED
    BY <1>0, <1>4, <1>6, <1>7, <1>8 DEF ServerIInv, queryVars

-----------------------------------------------------------------------------
(* Steps of the loop.                                                      *)

LEMMA WriteKeeps ==
    ASSUME McpIInv, Write
    PROVE  McpIInv'
  <1> USE DEF McpIInv
  <1>1. /\ Types /\ LoopTrue /\ WatchTrue /\ server = "loop" /\ nextWrite \in completed
        /\ completed' = completed \ {nextWrite} /\ nextWrite' = nextWrite + 1
        /\ UNCHANGED <<queryVars, work, watchVars, tasks, nextSequence, inputClosed, server, broken>>
    BY DEF ServerIInv, Write
  <1>2. nextWrite < nextSequence
    BY <1>1 DEF LoopTrue, Types
  <1>3. Types'
    BY <1>1, <1>2, NumbersAndShutdown DEF Types, queryVars, watchVars
  <1>4. LoopTrue'
    BY <1>1, <1>2, NumbersAndShutdown DEF LoopTrue, Types
  <1>5. WatchTrue'
    BY <1>1 DEF WatchTrue, watchVars
  <1>6. QueryTrue => QueryTrue'
    BY <1>1 DEF QueryTrue, SlotTrue, SeenTrue, LoadTrue, queryVars
  <1> QED
    BY <1>1, <1>3, <1>4, <1>5, <1>6 DEF ServerIInv, queryVars

LEMMA ReadKeeps ==
    ASSUME McpIInv, NEW kind \in Kinds, Read(kind)
    PROVE  McpIInv'
  <1> USE DEF McpIInv
  <1> DEFINE n == nextSequence
             w == [Absent EXCEPT !.pc = kind, !.seen = IF kind = "observe" THEN {store} ELSE {}]
  <1>1. /\ Types /\ LoopTrue /\ WatchTrue /\ server = "loop" /\ n < MaxRequests
        /\ nextSequence' = n + 1 /\ tasks' = tasks \cup {n} /\ Put(n, w)
        /\ UNCHANGED <<queryVars, watchVars, completed, nextWrite, inputClosed, server, broken>>
    BY DEF ServerIInv, Read, CanRead, Put
  <1>2. n \in Numbers /\ n \in Requests /\ n # Shutdown /\ nextSequence \in Nat
    BY <1>1, NumbersAndShutdown DEF Types
  <1>3. /\ w \in Item /\ w.pc = kind /\ w.current /\ w.loaded = Unpublished
        /\ w.seen = IF kind = "observe" THEN {store} ELSE {}
    <2> DEFINE s == IF kind = "observe" THEN {store} ELSE {}
    <2>1. s \in SUBSET Generations /\ kind \in QueryPcs \cup StopPcs \cup Quiescent \cup {"start"}
      BY <1>1 DEF Types, Kinds, QueryPcs, StopPcs
    <2> HIDE DEF s
    <2>2. /\ [Absent EXCEPT !.pc = kind, !.seen = s] \in Item
          /\ [Absent EXCEPT !.pc = kind, !.seen = s].pc = kind
          /\ [Absent EXCEPT !.pc = kind, !.seen = s].current
          /\ [Absent EXCEPT !.pc = kind, !.seen = s].loaded = Unpublished
          /\ [Absent EXCEPT !.pc = kind, !.seen = s].seen = s
      BY <2>1, RepliedIsItem DEF Item
    <2> QED
      BY <2>2 DEF s
  <1> HIDE DEF w
  <1>4. /\ work'[n] = w /\ \A q \in Requests : q # n => work'[q] = work[q]
        /\ work' \in [Requests -> Item]
    BY <1>1, <1>2, <1>3, PutItem
  <1>5. Types'
    BY <1>1, <1>2, <1>4, NumbersAndShutdown DEF Types, queryVars, watchVars
  <1>6. LoopTrue'
    <2>1. n \notin tasks /\ n \notin completed
      BY <1>1, <1>2 DEF LoopTrue, Types
    <2>2. tasks' \cup completed' = nextWrite..n
      BY <1>1, <1>2 DEF LoopTrue, Types
    <2> QED
      BY <1>1, <1>2, <1>4, <2>1, <2>2, NumbersAndShutdown DEF LoopTrue, Types
  <1>7. WatchTrue'
    <2>1. work[n].pc # "await"
      BY <1>1, <1>2 DEF LoopTrue, Types, Quiescent
    <2>2. \A q \in Requests : work'[q].pc = "await" <=> work[q].pc = "await"
      BY <1>3, <1>4, <2>1 DEF Kinds
    <2>3. work'[Shutdown] = work[Shutdown]
      BY <1>2, <1>4, NumbersAndShutdown
    <2> QED
      BY <1>1, <2>2, <2>3 DEF WatchTrue, watchVars
  <1>8. ASSUME QueryTrue PROVE QueryTrue'
    <2>1. SlotTrue' /\ slot.held.token <= slot'.held.token
      BY <1>1, <1>8 DEF QueryTrue, SlotTrue, queryVars
    <2>2. SeenTrue(w) /\ LoadTrue(w) /\ w.pc # "admitted"
      <3>1. CASE kind = "observe"
        BY <3>1, <1>1, <1>3, <1>8 DEF QueryTrue, SeenTrue, LoadTrue, Gen, Types
      <3>2. CASE kind # "observe"
        BY <3>2, <1>3 DEF SeenTrue, LoadTrue, Kinds, QueryPcs
      <3> QED
        BY <3>1, <3>2
    <2> QED
      BY <1>1, <1>2, <1>3, <1>8, <2>1, <2>2, QueryStaysTrue DEF queryVars
  <1> QED
    BY <1>1, <1>5, <1>6, <1>7, <1>8 DEF ServerIInv, queryVars

LEMMA ReadMalformedKeeps ==
    ASSUME McpIInv, ReadMalformed
    PROVE  McpIInv'
  <1> USE DEF McpIInv
  <1> DEFINE n == nextSequence
  <1>1. /\ Types /\ LoopTrue /\ WatchTrue /\ server = "loop" /\ n < MaxRequests
        /\ nextSequence' = n + 1 /\ completed' = completed \cup {n}
        /\ UNCHANGED <<queryVars, work, watchVars, tasks, nextWrite, inputClosed, server, broken>>
    BY DEF ServerIInv, ReadMalformed, CanRead
  <1>2. n \in Numbers /\ nextSequence \in Nat
    BY <1>1, NumbersAndShutdown DEF Types
  <1>3. Types'
    BY <1>1, <1>2, NumbersAndShutdown DEF Types, queryVars, watchVars
  <1>4. LoopTrue'
    <2>1. n \notin tasks /\ n \notin completed
      BY <1>1, <1>2 DEF LoopTrue, Types
    <2>2. tasks' \cup completed' = nextWrite..n
      BY <1>1, <1>2 DEF LoopTrue, Types
    <2> QED
      BY <1>1, <1>2, <2>1, <2>2, NumbersAndShutdown DEF LoopTrue, Types
  <1>5. WatchTrue'
    BY <1>1 DEF WatchTrue, watchVars
  <1>6. QueryTrue => QueryTrue'
    BY <1>1 DEF QueryTrue, SlotTrue, SeenTrue, LoadTrue, queryVars
  <1> QED
    BY <1>1, <1>3, <1>4, <1>5, <1>6 DEF ServerIInv, queryVars

LEMMA CloseInputKeeps ==
    ASSUME McpIInv, CloseInput
    PROVE  McpIInv'
  <1> USE DEF McpIInv
  <1>1. /\ Types /\ LoopTrue /\ WatchTrue /\ inputClosed' = TRUE
        /\ UNCHANGED <<queryVars, work, watchVars, tasks, completed, nextSequence, nextWrite,
                       server, broken>>
    BY DEF ServerIInv, CloseInput
  <1>2. Types' /\ LoopTrue' /\ WatchTrue'
    BY <1>1 DEF Types, LoopTrue, WatchTrue, queryVars, watchVars
  <1>3. QueryTrue => QueryTrue'
    BY <1>1 DEF QueryTrue, SlotTrue, SeenTrue, LoadTrue, queryVars
  <1> QED
    BY <1>1, <1>2, <1>3 DEF ServerIInv, queryVars

LEMMA JoinKeeps ==
    ASSUME McpIInv, NEW r \in Numbers, Join(r)
    PROVE  McpIInv'
  <1> USE DEF McpIInv
  <1>1. /\ Types /\ LoopTrue /\ WatchTrue /\ server = "loop"
        /\ r \in tasks /\ work[r].pc = "replied"
        /\ tasks' = tasks \ {r} /\ completed' = completed \cup {r}
        /\ UNCHANGED <<queryVars, work, watchVars, nextSequence, nextWrite, inputClosed,
                       server, broken>>
    BY DEF ServerIInv, Join, Finished
  <1>2. Types' /\ WatchTrue'
    BY <1>1 DEF Types, WatchTrue, queryVars, watchVars
  <1>3. LoopTrue'
    BY <1>1 DEF LoopTrue, Quiescent
  <1>4. QueryTrue => QueryTrue'
    BY <1>1 DEF QueryTrue, SlotTrue, SeenTrue, LoadTrue, queryVars
  <1> QED
    BY <1>1, <1>2, <1>3, <1>4 DEF ServerIInv, queryVars

\* The loop leaves with nothing left, or because the transport failed.
LEMMA LeaveKeeps ==
    ASSUME McpIInv, server = "loop", Leave, broken' \in BOOLEAN,
           broken' \/ (broken' = broken /\ tasks = {} /\ nextWrite = nextSequence)
    PROVE  McpIInv'
  <1> USE DEF McpIInv
  <1> DEFINE w == [work[Shutdown] EXCEPT !.pc = "stop"]
  <1>1. /\ Types /\ LoopTrue /\ WatchTrue /\ server' = "shutdown" /\ Goto(Shutdown, "stop")
        /\ UNCHANGED <<queryVars, watchVars, tasks, completed, nextSequence, nextWrite, inputClosed>>
        /\ Shutdown \in Requests /\ work[Shutdown] \in Item
    BY NumbersAndShutdown DEF ServerIInv, Leave, Goto, Types
  <1>2. /\ Put(Shutdown, w) /\ w \in Item /\ w.pc = "stop" /\ w.seen = work[Shutdown].seen
        /\ w.current = work[Shutdown].current
    BY <1>1, GotoIsPut DEF StopPcs, Item
  <1> HIDE DEF w
  <1>3. /\ work'[Shutdown] = w /\ \A q \in Requests : q # Shutdown => work'[q] = work[q]
        /\ work' \in [Requests -> Item]
    BY <1>1, <1>2, PutItem
  <1>4. Types'
    BY <1>1, <1>3 DEF Types, queryVars, watchVars
  <1>5. LoopTrue'
    BY <1>1, <1>3, NumbersAndShutdown DEF LoopTrue
  <1>6. work[Shutdown].pc = "absent"
    BY <1>1 DEF WatchTrue
  <1>7. WatchTrue'
    <2>1. \A q \in Requests : work'[q].pc = "await" <=> work[q].pc = "await"
      BY <1>2, <1>3, <1>6
    <2> QED
      BY <1>1, <1>2, <1>3, <2>1 DEF WatchTrue, watchVars, StopPcs
  <1>8. QueryTrue => QueryTrue'
    <2>1. QueryTrue => w.current
      BY <1>1, <1>2 DEF QueryTrue
    <2> QED
      BY <1>1, <1>2, <2>1, WatchIsQuiet DEF QueryPcs
  <1> QED
    BY <1>1, <1>4, <1>5, <1>7, <1>8 DEF ServerIInv, queryVars

\* Nothing at work and no response whose turn it is: nothing is outstanding.
LEMMA NothingOutstanding ==
    ASSUME Types, LoopTrue, Drained, tasks = {}
    PROVE  nextWrite = nextSequence
  BY NumbersAndShutdown DEF Types, LoopTrue, Drained

LEMMA FinishKeeps ==
    ASSUME McpIInv, Finish
    PROVE  McpIInv'
  BY LeaveKeeps, NothingOutstanding DEF Finish, McpIInv, ServerIInv, Types

LEMMA TransportFailsKeeps ==
    ASSUME McpIInv, TransportFails
    PROVE  McpIInv'
  BY LeaveKeeps DEF TransportFails, CanRead

LEMMA ExitKeeps ==
    ASSUME McpIInv, Exit
    PROVE  McpIInv'
  <1> USE DEF McpIInv
  <1>1. /\ Types /\ LoopTrue /\ WatchTrue /\ server = "shutdown" /\ server' = "exited"
        /\ broken' = (broken \/ work[Shutdown].pc # "replied")
        /\ UNCHANGED <<queryVars, work, watchVars, tasks, completed, nextSequence, nextWrite,
                       inputClosed>>
    BY DEF ServerIInv, Exit
  <1>2. broken' \in BOOLEAN /\ (~broken' => ~broken /\ work[Shutdown].pc = "replied")
    BY <1>1 DEF Types
  <1>3. Types' /\ LoopTrue' /\ WatchTrue'
    BY <1>1, <1>2 DEF Types, LoopTrue, WatchTrue, queryVars, watchVars
  <1>4. QueryTrue => QueryTrue'
    BY <1>1 DEF QueryTrue, SlotTrue, SeenTrue, LoadTrue, queryVars
  <1> QED
    BY <1>1, <1>3, <1>4 DEF ServerIInv, queryVars

-----------------------------------------------------------------------------
(* Publications and losses of the store.                                   *)

\* Every query at work sees what becomes current; nothing else changes.
LEMMA BecomesCurrentIsSeen ==
    ASSUME Types, NEW g \in Generations, BecomesCurrent(g)
    PROVE  /\ work' \in [Requests -> Item]
           /\ \A q \in Requests :
                /\ work'[q].pc = work[q].pc /\ work'[q].before = work[q].before
                /\ work'[q].loaded = work[q].loaded /\ work'[q].current = work[q].current
                /\ work'[q].seen = IF work[q].seen = {} THEN {} ELSE work[q].seen \cup {g}
  <1> DEFINE new(w) == IF w.seen = {} THEN w ELSE [w EXCEPT !.seen = @ \cup {g}]
  <1>1. \A w \in Item : /\ new(w) \in Item /\ new(w).pc = w.pc /\ new(w).before = w.before
                        /\ new(w).loaded = w.loaded /\ new(w).current = w.current
                        /\ new(w).seen = IF w.seen = {} THEN {} ELSE w.seen \cup {g}
    BY DEF Item
  <1>2. work' = [q \in Requests |-> new(work[q])]
    BY DEF BecomesCurrent, Types
  <1> HIDE DEF new
  <1> QED
    BY <1>1, <1>2 DEF Types

LEMMA SeenIsQuiet ==
    ASSUME ServerIInv, NEW g \in Generations, BecomesCurrent(g)
    PROVE  LoopTrue' /\ WatchTrue'
  <1>1. /\ \A q \in Requests : work'[q].pc = work[q].pc
        /\ UNCHANGED <<loopVars, watchVars>>
    BY BecomesCurrentIsSeen DEF ServerIInv, BecomesCurrent
  <1>2. LoopTrue'
    BY <1>1, NumbersAndShutdown DEF ServerIInv, LoopTrue, loopVars
  <1>3. WatchTrue'
    BY <1>1, NumbersAndShutdown DEF ServerIInv, WatchTrue, loopVars, watchVars
  <1> QED
    BY <1>2, <1>3

LEMMA PublishKeeps ==
    ASSUME McpIInv, Publish
    PROVE  McpIInv'
  <1> USE DEF McpIInv
  <1> DEFINE g == [token |-> published + 1, sequence |-> store.sequence + 1]
  <1>1. /\ Types /\ published < MaxPublications /\ published' = published + 1
        /\ BecomesCurrent(g) /\ UNCHANGED <<freshStarts, slot, loopVars, watchVars>> /\ store' = g
    BY DEF ServerIInv, Publish, BecomesCurrent
  <1>2. published \in Nat /\ store.sequence \in Nat /\ MaxPublications \in Nat
    BY <1>1, NothingIsLoadable, McpAssumption DEF Types, Loadable, Unreadable
  <1>3. g \in Loadable /\ g.token <= published' /\ g.sequence <= published'
    BY <1>1, <1>2 DEF Types, Loadable, Generations, Unreadable
  <1>4. g \in Generations
    BY <1>3 DEF Loadable
  <1>5. g.token = published + 1 /\ g.sequence = store.sequence + 1
    OBVIOUS
  <1> HIDE DEF g
  <1>6. LoopTrue' /\ WatchTrue'
    BY <1>1, <1>4, SeenIsQuiet
  <1>7. Types'
    BY <1>1, <1>2, <1>3, <1>4, BecomesCurrentIsSeen DEF Types, loopVars, watchVars
  <1>8. ASSUME QueryTrue PROVE QueryTrue'
    <2>1. store = Gen(published) /\ SlotTrue
      BY <1>8 DEF QueryTrue
    <2>2. g = Gen(published + 1)
      BY <2>1 DEF Gen, g
    <2>3. SlotTrue'
      BY <1>1, <1>2, <2>1 DEF SlotTrue
    <2>4. ASSUME NEW q \in Requests
          PROVE  /\ work'[q].current /\ SeenTrue(work[q])' /\ LoadTrue(work[q])'
                 /\ work'[q].pc = "admitted" => slot'.held \in work'[q].seen
      <3>1. work[q].current /\ SeenTrue(work[q]) /\ LoadTrue(work[q]) /\ work[q] \in Item
        BY <1>1, <1>8 DEF QueryTrue, Types
      <3>2. /\ work'[q].pc = work[q].pc /\ work'[q].before = work[q].before
            /\ work'[q].loaded = work[q].loaded /\ work'[q].current = work[q].current
            /\ work'[q].seen = IF work[q].seen = {} THEN {} ELSE work[q].seen \cup {g}
        BY <1>1, <1>4, BecomesCurrentIsSeen
      <3>3. work[q].pc \in QueryPcs => store' \in work'[q].seen
        BY <1>1, <3>1, <3>2 DEF SeenTrue
      <3>4. ASSUME NEW j \in 0..published', NEW k \in 0..published',
                   Gen(j) \in work'[q].seen, j <= k
            PROVE  Gen(k) \in work'[q].seen
        <4>1. work'[q].seen = work[q].seen \cup {g}
          BY <3>2, <3>4
        <4>2. CASE k = published + 1
          BY <4>1, <4>2, <2>2
        <4>3. CASE k <= published
          <5>1. j \in 0..published /\ k \in 0..published
            BY <1>1, <1>2, <3>4, <4>3
          <5>2. Gen(j) # g
            BY <5>1, <1>2, <2>2 DEF Gen
          <5> QED
            BY <3>1, <3>4, <4>1, <5>1, <5>2 DEF SeenTrue
        <4> QED
          BY <1>1, <1>2, <4>2, <4>3
      <3>5. SeenTrue(work[q])'
        BY <3>2, <3>3, <3>4 DEF SeenTrue
      <3>6. LoadTrue(work[q])'
        <4>1. work[q].before \in Nat /\ work[q].loaded.token \in Nat
          BY <3>1, NothingIsLoadable DEF Item
        <4> QED
          BY <1>1, <1>2, <3>1, <3>2, <4>1 DEF LoadTrue
      <3>7. work'[q].pc = "admitted" => slot'.held \in work'[q].seen
        BY <1>1, <1>8, <3>2 DEF QueryTrue
      <3> QED
        BY <3>1, <3>2, <3>5, <3>6, <3>7
    <2> QED
      BY <1>1, <2>2, <2>3, <2>4 DEF QueryTrue
  <1> QED
    BY <1>1, <1>6, <1>7, <1>8 DEF ServerIInv

LEMMA LoseStoreKeeps ==
    ASSUME McpIInv, LoseStore
    PROVE  McpIInv'
  <1> USE DEF McpIInv
  <1>1. PICK g \in {Unpublished, Unreadable} : BecomesCurrent(g)
    BY DEF LoseStore
  <1>2. /\ Types /\ freshStarts' = freshStarts + 1 /\ published' = published
        /\ UNCHANGED <<slot, loopVars, watchVars>> /\ store' = g
    BY <1>1 DEF ServerIInv, LoseStore, BecomesCurrent
  <1>3. g \in Generations /\ g.token <= published /\ g.sequence <= published
    BY <1>2, NothingIsLoadable, McpAssumption DEF Types, Loadable, Unpublished, Unreadable
  <1>4. LoopTrue' /\ WatchTrue'
    BY <1>1, <1>3, SeenIsQuiet
  <1>5. Types' /\ freshStarts' # 0
    BY <1>1, <1>2, <1>3, BecomesCurrentIsSeen DEF Types, loopVars, watchVars
  <1> QED
    BY <1>4, <1>5 DEF ServerIInv

-----------------------------------------------------------------------------
(* The theorems.                                                           *)

LEMMA InitIsTrue == Init => McpIInv
  <1> SUFFICES ASSUME Init PROVE McpIInv
    OBVIOUS
  <1>1. /\ published \in 0..MaxPublications /\ published \in {0, 1}
        /\ store = Gen(published) /\ store \in Loadable
        /\ store.token <= published /\ store.sequence <= published
    BY McpAssumption DEF Init, Gen, Unpublished, Loadable, Generations, Unreadable
  <1>2. work = [r \in Requests |-> Absent] /\ work \in [Requests -> Item]
    BY RepliedIsItem DEF Init, Requests
  <1>3. slot \in [fingerprint : {NoFingerprint} \cup 0..MaxPublications, held : Loadable]
    BY <1>1, NothingIsLoadable DEF Init, Gen
  <1>4. Types
    <2>1. store \in Generations /\ freshStarts \in Nat /\ live \in Int
      BY <1>1 DEF Init, Loadable
    <2>2. /\ tasks \subseteq Numbers /\ completed \subseteq Numbers
          /\ nextSequence \in 0..MaxRequests /\ nextWrite \in 0..nextSequence
      BY McpAssumption DEF Init
    <2>3. /\ inputClosed \in BOOLEAN /\ broken \in BOOLEAN
          /\ server \in {"loop", "shutdown", "exited"}
          /\ lifecycle \in {"Stopped", "Running", "Stopping"}
      BY DEF Init
    <2> QED
      BY <1>1, <1>2, <1>3, <2>1, <2>2, <2>3 DEF Types
  <1>5. LoopTrue
    BY <1>2, RepliedIsItem, NumbersAndShutdown DEF Init, LoopTrue, Quiescent
  <1>6. WatchTrue
    BY <1>2, RepliedIsItem, NumbersAndShutdown DEF Init, WatchTrue, Quiescent
  <1>7. QueryTrue
    <2>1. SlotTrue
      BY <1>1, NothingIsLoadable DEF Init, SlotTrue, Gen, Unpublished, NoFingerprint
    <2>2. \A r \in Requests : /\ work[r].current /\ SeenTrue(work[r]) /\ LoadTrue(work[r])
                              /\ work[r].pc # "admitted"
      BY <1>2, RepliedIsItem DEF SeenTrue, LoadTrue, QueryPcs
    <2> QED
      BY <1>1, <2>1, <2>2 DEF QueryTrue
  <1> QED
    BY <1>4, <1>5, <1>6, <1>7 DEF McpIInv, ServerIInv

LEMMA StutterKeeps == McpIInv /\ UNCHANGED vars => McpIInv'
  BY DEF McpIInv, ServerIInv, Types, LoopTrue, WatchTrue, QueryTrue, SlotTrue, SeenTrue, LoadTrue,
         vars, queryVars, loopVars, watchVars

LEMMA NextKeeps == McpIInv /\ [Next]_vars => McpIInv'
  <1> SUFFICES ASSUME McpIInv, [Next]_vars PROVE McpIInv'
    OBVIOUS
  <1>1. CASE \E r \in Requests : Handle(r)
    <2> PICK r \in Requests : Handle(r)
      BY <1>1
    <2>1. CASE Query(r)
      BY <2>1, ObserveKeeps, LoadKeeps, ResolveKeeps, ConfirmKeeps, InstallKeeps, AnswerKeeps
         DEF Query
    <2>2. CASE Start(r)
      BY <2>2, StartKeeps
    <2>3. CASE Stop(r)
      BY <2>3, EnableKeeps, LookKeeps, WaitKeeps, AnnounceKeeps DEF Stop
    <2>4. CASE ServiceEnds(r)
      BY <2>4, ServiceEndsKeeps
    <2> QED
      BY <2>1, <2>2, <2>3, <2>4 DEF Handle, Proceed
  <1>2. CASE \E r \in Numbers : Join(r)
    BY <1>2, JoinKeeps
  <1>3. CASE \E kind \in Kinds : Read(kind)
    BY <1>3, ReadKeeps
  <1>4. CASE ReadMalformed \/ CloseInput \/ Write \/ Finish \/ TransportFails \/ Exit
    BY <1>4, ReadMalformedKeeps, CloseInputKeeps, WriteKeeps, FinishKeeps, TransportFailsKeeps,
       ExitKeeps
  <1>5. CASE Publish \/ LoseStore
    BY <1>5, PublishKeeps, LoseStoreKeeps
  <1>6. CASE UNCHANGED vars
    BY <1>6, StutterKeeps
  <1> QED
    BY <1>1, <1>2, <1>3, <1>4, <1>5, <1>6 DEF Next, Requests

(* The invariant is inductive: the account of the loop, the ownership of   *)
(* the service and, while the store is not started anew, the order of what *)
(* each query has seen and loaded.                                         *)
THEOREM McpInductive == Spec => []McpIInv
  BY InitIsTrue, NextKeeps, PTL DEF Spec

(* Types, and one WATCH service at a time: a stopping service keeps its    *)
(* place until it has ended, and none is left after an orderly exit,       *)
(* however many starts and stops of `CodeIntelContext` overlap.            *)
THEOREM ServerIsSafe == Spec => []ServerInv
  <1>1. ASSUME McpIInv PROVE ServerInv
    <2>1. Types /\ WatchTrue
      BY <1>1 DEF McpIInv, ServerIInv
    <2>2. TypeOK
      BY <2>1 DEF Types, TypeOK, Requests, Item, Loadable, QueryPcs, StopPcs, Quiescent
    <2>3. OneServiceOwned
      BY <2>1 DEF WatchTrue, OneServiceOwned
    <2> QED
      BY <2>2, <2>3 DEF ServerInv
  <1> QED
    BY <1>1, McpInductive, PTL

(* The `expect` on `join_next` never fails, and a loop that ends in order  *)
(* has written a response to every request that `serve_loop` read.         *)
THEOREM NothingReadIsEverLost == Spec => []NothingReadIsLost
  <1>1. ASSUME McpIInv PROVE NothingReadIsLost
    <2>1. Types /\ LoopTrue
      BY <1>1 DEF McpIInv, ServerIInv
    <2>2. ASSUME Drained, tasks = {} PROVE Outstanding = 0
      BY <2>1, <2>2, NothingOutstanding DEF Outstanding, Types
    <2> QED
      BY <2>1, <2>2, McpAssumption DEF NothingReadIsLost, LoopTrue
  <1> QED
    BY <1>1, McpInductive, PTL

(* Without a fresh start of the store a query never answers from a         *)
(* generation that was not current while `refresh_if_changed` ran for it,  *)
(* however the loads and installs of concurrent queries overlap.           *)
THEOREM AnswersWereCurrent == Spec => []StrictAnswerWasCurrent
  <1>1. ASSUME McpIInv PROVE StrictAnswerWasCurrent
    BY <1>1, NumbersAndShutdown DEF McpIInv, QueryTrue, StrictAnswerWasCurrent, AnswerWasCurrent
  <1> QED
    BY <1>1, McpInductive, PTL
=============================================================================
