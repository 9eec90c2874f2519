------------------------------ MODULE MemoryDemo -------------------------------
(***************************************************************************)
(* The memory demo, notebooks/06-neo4j-memory: runs of 6.1_neo4j_memory    *)
(* that write an actor's conversation and preference beside the hotel      *)
(* graph, and cleanups, each a sequence of transactions, that remove them  *)
(* again, with stops between any two transactions of either.               *)
(*                                                                         *)
(* External are neo4j-agent-memory, whose writes create or find the user   *)
(* and the conversation they name, and people outside the demo's prefix,   *)
(* who may come to own a preference.                                       *)
(***************************************************************************)
EXTENDS Naturals, Sequences, FiniteSets

CONSTANTS
  Runs,        \* RUN_IDs: executions of the notebook, in order and once each
  Cleaners,    \* cleanups under way at once; each may run again
  Outsiders    \* users whose identifier has not DEMO_ID_PREFIX

Actors == {"alice", "blake"}
DemoUsers == Runs \X Actors
Users == DemoUsers \union Outsiders

ASSUME MemoryDemoAssumption == Outsiders \cap DemoUsers = {}

VARIABLES
  status,       \* of each run
  cell,         \* its next step
  users,        \* demo users in the graph
  messages,     \* messages, with their conversations
  mentions,     \* runs whose source message MENTIONS the hotel
  preferences,  \* runs whose Preference is in the graph
  owners,       \* the users with HAS_PREFERENCE to it
  derived,      \* preferences DERIVED_FROM the source message
  about,        \* preferences ABOUT_HOTEL
  marked,       \* preferences that carry WORKSHOP_OWNER
  query,        \* each cleanup's next query
  sees,         \* history: runs that had ended when the cleanup began
  disturbed,    \* history: runs that had a cleanup beside them
  swept,        \* history: runs that ended before a cleanup that completed
  shared        \* history: preferences an outsider ever owned

links == <<mentions, derived, about>>
graph == <<users, messages, links, preferences, owners, marked>>
history == <<sees, disturbed, swept, shared>>
vars == <<status, cell, graph, query, history>>

\* What a run does, a step for each write and check.
Cells == <<"say", "reply", "mention", "prefer", "link", "ask", "ask_blake",
           "recall", "trace", "tag", "end">>

\* The message steps, and who speaks in which session.
Says == {"say", "reply", "ask", "ask_blake"}
Speaker(s) == IF s = "ask_blake" THEN "blake" ELSE "alice"

Queries == {"links", "sessions", "users", "orphans", "markers"}

TypeOK ==
  /\ status \in [Runs -> {"idle", "running", "stopped", "finished"}]
  /\ cell \in [Runs -> 1..Len(Cells)]
  /\ users \subseteq DemoUsers
  /\ messages \subseteq Runs \X Says
  /\ preferences \subseteq Runs
  /\ owners \in [Runs -> SUBSET Users]
  /\ mentions \subseteq Runs
  /\ derived \subseteq preferences
  /\ about \subseteq preferences
  /\ marked \subseteq preferences
  /\ query \in [Cleaners -> Queries \union {"none"}]
  /\ sees \in [Cleaners -> SUBSET Runs]
  /\ disturbed \subseteq Runs
  /\ swept \subseteq Runs
  /\ shared \subseteq Runs

Init ==
  /\ status = [r \in Runs |-> "idle"]
  /\ cell = [r \in Runs |-> 1]
  /\ users = {} /\ messages = {} /\ mentions = {} /\ preferences = {}
  /\ owners = [r \in Runs |-> {}]
  /\ derived = {} /\ about = {} /\ marked = {}
  /\ query = [c \in Cleaners |-> "none"]
  /\ sees = [c \in Cleaners |-> {}]
  /\ disturbed = {} /\ swept = {} /\ shared = {}

Cleaning == \E c \in Cleaners : query[c] # "none"
Running == {r \in Runs : status[r] = "running"}
Ended == {r \in Runs : status[r] \in {"stopped", "finished"}}

(***************************************************************************)
(* A run of the notebook.                                                  *)
(***************************************************************************)
Begin(r) ==
  /\ status[r] = "idle"
  /\ status' = [status EXCEPT ![r] = "running"]
  /\ disturbed' = disturbed \union IF Cleaning THEN {r} ELSE {}
  /\ UNCHANGED <<cell, graph, query, sees, swept, shared>>

At(r, s) == status[r] = "running" /\ Cells[cell[r]] = s

\* The step succeeds, and the run goes on with the next.
Passes(r) ==
  /\ cell' = [cell EXCEPT ![r] = @ + 1]
  /\ UNCHANGED <<status, query, history>>

\* add_message
Say(r, s) ==
  /\ At(r, s)
  /\ messages' = messages \union {<<r, s>>}
  /\ users' = users \union {<<r, Speaker(s)>>}
  /\ Passes(r)
  /\ UNCHANGED <<links, preferences, owners, marked>>

\* link_message_to_hotel; without the message it is false and the run stops.
LinkMessage(r) ==
  /\ At(r, "mention")
  /\ <<r, "say">> \in messages
  /\ mentions' = mentions \union {r}
  /\ Passes(r)
  /\ UNCHANGED <<users, messages, derived, about, preferences, owners, marked>>

\* add_preference
AddPreference(r) ==
  /\ At(r, "prefer")
  /\ users' = users \union {<<r, "alice">>}
  /\ preferences' = preferences \union {r}
  /\ owners' = [owners EXCEPT ![r] = @ \union {<<r, "alice">>}]
  /\ Passes(r)
  /\ UNCHANGED <<messages, links, marked>>

LinkPreference(r) ==
  /\ At(r, "link")
  /\ r \in preferences
  /\ <<r, "say">> \in messages
  /\ derived' = derived \union {r}
  /\ about' = about \union {r}
  /\ Passes(r)
  /\ UNCHANGED <<users, messages, mentions, preferences, owners, marked>>

RecalledStoreWide(u) == {p \in preferences : owners[p] # {} /\ p \in about}

\* get_actor_preferences_for_hotel
Recalled(u) == {p \in preferences : u \in owners[p] /\ p \in about}

\* The assertions on what each actor recalls.
Recall(r) ==
  /\ At(r, "recall")
  /\ Cardinality(Recalled(<<r, "alice">>)) = 1
  /\ Recalled(<<r, "blake">>) = {}
  /\ Passes(r)
  /\ UNCHANGED graph

\* The provenance path from the actor to the hotel.
Traced(r) ==
  {p \in preferences \cap derived \cap about :
     <<r, "alice">> \in owners[p] /\ <<p, "say">> \in messages /\ p \in mentions}

Trace(r) ==
  /\ At(r, "trace")
  /\ Cardinality(Traced(r)) = 1
  /\ Passes(r)
  /\ UNCHANGED graph

TagWithoutPreferences(r) ==
  /\ At(r, "tag")
  /\ Passes(r)
  /\ UNCHANGED graph

\* tag_demo_records marks preferences through their owners.
Tag(r) ==
  /\ At(r, "tag")
  /\ marked' = marked \union {p \in preferences : owners[p] \cap ({r} \X Actors) # {}}
  /\ Passes(r)
  /\ UNCHANGED <<users, messages, links, preferences, owners>>

Finish(r) ==
  /\ At(r, "end")
  /\ status' = [status EXCEPT ![r] = "finished"]
  /\ UNCHANGED <<cell, graph, query, history>>

\* A write or an assertion fails, or nobody runs the remaining cells.
Stop(r) ==
  /\ status[r] = "running"
  /\ cell[r] < Len(Cells)
  /\ status' = [status EXCEPT ![r] = "stopped"]
  /\ UNCHANGED <<cell, graph, query, history>>

(***************************************************************************)
(* run_cleanup.                                                            *)
(***************************************************************************)
StartCleanup(c) ==
  /\ query[c] = "none"
  /\ query' = [query EXCEPT ![c] = "links"]
  /\ sees' = [sees EXCEPT ![c] = Ended]
  /\ disturbed' = disturbed \union Running
  /\ UNCHANGED <<status, cell, graph, swept, shared>>

\* Query q commits, and the cleanup comes to the next.
Commits(c, q, next) ==
  /\ query[c] = q
  /\ query' = [query EXCEPT ![c] = next]
  /\ UNCHANGED <<status, cell, sees, disturbed, shared>>

DeleteHotelLinks(c) ==
  /\ Commits(c, "links", "sessions")
  /\ about' = {}
  /\ UNCHANGED <<users, messages, mentions, derived, preferences, owners, marked, swept>>

\* DETACH DELETE takes the messages' relationships along.
DeleteSessions(c) ==
  /\ Commits(c, "sessions", "users")
  /\ messages' = {} /\ mentions' = {} /\ derived' = {}
  /\ UNCHANGED <<users, about, preferences, owners, marked, swept>>

DeleteUsers(c) ==
  /\ Commits(c, "users", "orphans")
  /\ users' = {}
  /\ owners' = [r \in Runs |-> owners[r] \ DemoUsers]
  /\ UNCHANGED <<messages, links, preferences, marked, swept>>

OrphansOwnedOrNot == marked

\* Marked preferences that no user owns.
Orphans == {p \in marked : owners[p] = {}}

DeleteOrphansKeepingLinks(c) ==
  /\ Commits(c, "orphans", "markers")
  /\ preferences' = preferences \ Orphans
  /\ owners' = [p \in Runs |-> IF p \in Orphans THEN {} ELSE owners[p]]
  /\ marked' = marked \ Orphans
  /\ UNCHANGED <<users, messages, links, swept>>

DeleteOrphans(c) ==
  /\ Commits(c, "orphans", "markers")
  /\ preferences' = preferences \ Orphans
  /\ owners' = [p \in Runs |-> IF p \in Orphans THEN {} ELSE owners[p]]
  /\ derived' = derived \ Orphans
  /\ about' = about \ Orphans
  /\ marked' = marked \ Orphans
  /\ UNCHANGED <<users, messages, mentions, swept>>

RemoveMarkers(c) ==
  /\ Commits(c, "markers", "none")
  /\ marked' = {p \in marked : owners[p] = {}}
  /\ swept' = swept \union sees[c]
  /\ UNCHANGED <<users, messages, links, preferences, owners>>

\* A failed query, a lost connection or an interrupt.
StopCleanup(c) ==
  /\ query[c] # "none"
  /\ query' = [query EXCEPT ![c] = "none"]
  /\ UNCHANGED <<status, cell, graph, history>>

(***************************************************************************)
(* Other users of the graph.                                               *)
(***************************************************************************)
Share(o, p) ==
  /\ p \in preferences
  /\ owners' = [owners EXCEPT ![p] = @ \union {o}]
  /\ shared' = shared \union {p}
  /\ UNCHANGED <<status, cell, users, messages, links, preferences, marked, query,
                 sees, disturbed, swept>>

Unshare(o, p) ==
  /\ o \in owners[p]
  /\ owners' = [owners EXCEPT ![p] = @ \ {o}]
  /\ UNCHANGED <<status, cell, users, messages, links, preferences, marked, query, history>>

Next ==
  \/ \E r \in Runs :
       \/ Begin(r) \/ LinkMessage(r) \/ AddPreference(r) \/ LinkPreference(r)
       \/ Recall(r) \/ Trace(r) \/ Tag(r) \/ Finish(r) \/ Stop(r)
       \/ \E s \in Says : Say(r, s)
  \/ \E c \in Cleaners :
       \/ StartCleanup(c) \/ DeleteHotelLinks(c) \/ DeleteSessions(c)
       \/ DeleteUsers(c) \/ DeleteOrphans(c) \/ RemoveMarkers(c) \/ StopCleanup(c)
  \/ \E o \in Outsiders, p \in Runs : Share(o, p) \/ Unshare(o, p)

Spec == Init /\ [][Next]_vars

(***************************************************************************)
(* Properties.                                                             *)
(***************************************************************************)
Removed(r) ==
  /\ \A a \in Actors : <<r, a>> \notin users
  /\ \A s \in Says : <<r, s>> \notin messages
  /\ r \in preferences => r \in shared

\* Once a cleanup that began after it completed, nothing is left of a finished
\* run but a preference somebody else came to own, however many cleanups stopped
\* before and whatever other runs and cleanups do.  Runs with a cleanup beside
\* them are excepted: it may take their user before the preference is tagged, or
\* the tag before the user.
FinishedRunsRemoved ==
  \A r \in swept \ disturbed : status[r] = "finished" => Removed(r)

\* What memory_helpers.py says of the prefix: a run that failed before the
\* tagging step is removed too.
StoppedRunsRemoved ==
  \A r \in swept \ disturbed : status[r] = "stopped" => Removed(r)

\* No step of a cleanup or a run takes a preference from an outsider.
SharedPreferencesKept ==
  [][\A p \in preferences :
       owners[p] \cap Outsiders # {} =>
         /\ p \in preferences'
         /\ (\E c \in Cleaners : query'[c] # query[c]) =>
              owners'[p] \cap Outsiders = owners[p] \cap Outsiders]_vars

\* A run that no cleanup ran beside never fails its own assertions, whatever
\* other runs write at the same time.
ChecksPass ==
  \A r \in Runs \ disturbed :
    /\ At(r, "recall") =>
         Recalled(<<r, "alice">>) = {r} /\ Recalled(<<r, "blake">>) = {}
    /\ At(r, "trace") => Traced(r) = {r}
================================================================================
