--------------------------- MODULE MemoryDemoProofs ----------------------------
(***************************************************************************)
(* Proofs about the memory demo for any runs, cleanups and outsiders: its  *)
(* types, that cleanup keeps what others own and removes finished runs,    *)
(* and that a run undisturbed by cleanup passes its own checks.            *)
(***************************************************************************)
EXTENDS MemoryDemo, TLAPS

(***************************************************************************)
(* The parts of the inductive invariant.                                   *)
(***************************************************************************)
\* Of the demo's users only a run's Alice owns its preference, and an outsider
\* who does is remembered.
OwnersKnown ==
  \A p \in Runs :
    /\ owners[p] \cap DemoUsers \subseteq {<<p, "alice">>}
    /\ owners[p] \cap Outsiders # {} => p \in shared

\* What an undisturbed run has written is there.
Written(r) ==
  /\ cell[r] > 1 => <<r, "say">> \in messages
  /\ cell[r] > 3 => r \in mentions
  /\ cell[r] > 4 => r \in preferences /\ <<r, "alice">> \in owners[r]
  /\ cell[r] > 5 => r \in derived /\ r \in about
  /\ cell[r] > 10 => r \in marked

RunsComplete ==
  \A r \in Runs \ disturbed :
    /\ status[r] = "idle" => cell[r] = 1
    /\ status[r] = "running" => Written(r) /\ \A c \in Cleaners : query[c] = "none"
    /\ status[r] = "finished" /\ r \in preferences => r \in marked \union shared

\* A cleanup knows every undisturbed run that is not yet to begin, and only runs
\* that have ended.
CleanersSee ==
  \A c \in Cleaners :
    /\ sees[c] \subseteq Ended
    /\ query[c] # "none" =>
         \A r \in Runs \ disturbed : status[r] # "idle" => r \in sees[c]

\* How far a cleanup has come with a run it knows.
Done(c, r) ==
  /\ query[c] \in {"users", "orphans", "markers"} =>
       \A s \in Says : <<r, s>> \notin messages
  /\ query[c] \in {"orphans", "markers"} =>
       /\ \A a \in Actors : <<r, a>> \notin users
       /\ owners[r] \cap DemoUsers = {}
  /\ query[c] = "markers" /\ status[r] = "finished" /\ r \notin disturbed =>
       (r \in preferences => r \in shared)

CleanersDone == \A c \in Cleaners : \A r \in sees[c] : Done(c, r)

\* What a completed cleanup leaves of a run.
Gone(r) ==
  /\ r \in Ended
  /\ \A a \in Actors : <<r, a>> \notin users
  /\ \A s \in Says : <<r, s>> \notin messages
  /\ status[r] = "finished" /\ r \notin disturbed => (r \in preferences => r \in shared)

SweptGone == \A r \in swept : Gone(r)

IInv ==
  /\ TypeOK
  /\ OwnersKnown
  /\ RunsComplete
  /\ CleanersSee
  /\ CleanersDone
  /\ SweptGone

(***************************************************************************)
(* Types.                                                                  *)
(***************************************************************************)
\* The step an index of the notebook stands for.
LEMMA CellIndex ==
  ASSUME NEW n \in 1..Len(Cells)
  PROVE  /\ n \in 1..11
         /\ Cells[n] = "say" => n = 1
         /\ Cells[n] = "reply" => n = 2
         /\ Cells[n] = "mention" => n = 3
         /\ Cells[n] = "prefer" => n = 4
         /\ Cells[n] = "link" => n = 5
         /\ Cells[n] = "ask" => n = 6
         /\ Cells[n] = "ask_blake" => n = 7
         /\ Cells[n] = "recall" => n = 8
         /\ Cells[n] = "trace" => n = 9
         /\ Cells[n] = "tag" => n = 10
         /\ Cells[n] = "end" => n = 11
<1>1. Len(Cells) = 11
  BY DEF Cells
<1>2. n \in 1..11
  BY <1>1
<1>3. n = 1 \/ n = 2 \/ n = 3 \/ n = 4 \/ n = 5 \/ n = 6 \/ n = 7 \/ n = 8 \/ n = 9
        \/ n = 10 \/ n = 11
  BY <1>2
<1>4. QED
  BY <1>2, <1>3 DEF Cells

\* A step that is not the last leaves a step to come.
LEMMA Forward ==
  ASSUME TypeOK, NEW r \in Runs, Passes(r), cell[r] # Len(Cells)
  PROVE  cell' \in [Runs -> 1..Len(Cells)]
<1>1. Len(Cells) = 11
  BY DEF Cells
<1>2. QED
  BY <1>1 DEF TypeOK, Passes

\* A run starts with an empty graph and no cleanup.
LEMMA TypeInit == Init => TypeOK
  BY DEF Init, TypeOK, Cells

\* Every step keeps the types.
LEMMA TypeStep == TypeOK /\ [Next]_vars => TypeOK'
<1> SUFFICES ASSUME TypeOK, [Next]_vars PROVE TypeOK'
  OBVIOUS
<1> USE DEF Users, DemoUsers, graph, links, history
<1>1. ASSUME NEW r \in Runs, NEW s \in Says, Say(r, s) PROVE TypeOK'
  <2>1. cell' \in [Runs -> 1..Len(Cells)]
    BY <1>1, CellIndex, Forward DEF Say, At, Says, TypeOK, Cells
  <2>2. messages' \subseteq Runs \X Says /\ users' \subseteq Runs \X Actors
    BY <1>1 DEF Say, Speaker, Actors, TypeOK
  <2>3. QED
    BY <1>1, <2>1, <2>2 DEF Say, Passes, TypeOK
<1>2. ASSUME NEW r \in Runs, \/ LinkMessage(r) \/ AddPreference(r) \/ LinkPreference(r)
                             \/ Recall(r) \/ Trace(r) \/ Tag(r)
      PROVE  TypeOK'
  <2>1. cell' \in [Runs -> 1..Len(Cells)]
    BY <1>2, CellIndex, Forward
       DEF At, TypeOK, Cells, LinkMessage, AddPreference, LinkPreference, Recall, Trace, Tag
  <2>2. CASE LinkMessage(r)
    BY <2>1, <2>2 DEF LinkMessage, Passes, TypeOK
  <2>3. CASE AddPreference(r)
    BY <2>1, <2>3 DEF AddPreference, Passes, TypeOK, Actors
  <2>4. CASE LinkPreference(r)
    BY <2>1, <2>4 DEF LinkPreference, Passes, TypeOK
  <2>5. CASE Recall(r) \/ Trace(r)
    BY <2>1, <2>5 DEF Recall, Trace, Passes, TypeOK
  <2>6. CASE Tag(r)
    BY <2>1, <2>6 DEF Tag, Passes, TypeOK
  <2>7. QED
    BY <1>2, <2>2, <2>3, <2>4, <2>5, <2>6
<1>3. ASSUME NEW r \in Runs, Begin(r) \/ Finish(r) \/ Stop(r) PROVE TypeOK'
  BY <1>3 DEF Begin, Finish, Stop, TypeOK
<1>4. ASSUME NEW c \in Cleaners, StartCleanup(c) \/ StopCleanup(c) PROVE TypeOK'
  <2>1. CASE StartCleanup(c)
    <3>1. Ended \subseteq Runs /\ Running \subseteq Runs
      BY DEF Ended, Running
    <3>2. query' \in [Cleaners -> Queries \union {"none"}]
      BY <2>1 DEF StartCleanup, Queries, TypeOK
    <3>3. sees' \in [Cleaners -> SUBSET Runs] /\ disturbed' \subseteq Runs
      BY <2>1, <3>1 DEF StartCleanup, TypeOK
    <3>4. QED
      BY <2>1, <3>2, <3>3 DEF StartCleanup, TypeOK
  <2>2. CASE StopCleanup(c)
    BY <2>2 DEF StopCleanup, TypeOK
  <2>3. QED
    BY <1>4, <2>1, <2>2
<1>5. ASSUME NEW c \in Cleaners, DeleteHotelLinks(c) \/ DeleteSessions(c) \/ DeleteUsers(c)
      PROVE  TypeOK'
  <2>1. query' \in [Cleaners -> Queries \union {"none"}]
    BY <1>5 DEF DeleteHotelLinks, DeleteSessions, DeleteUsers, Commits, Queries, TypeOK
  <2>2. owners' \in [Runs -> SUBSET Users]
    BY <1>5 DEF DeleteHotelLinks, DeleteSessions, DeleteUsers, TypeOK
  <2>3. QED
    BY <1>5, <2>1, <2>2
       DEF DeleteHotelLinks, DeleteSessions, DeleteUsers, Commits, TypeOK
<1>6. ASSUME NEW c \in Cleaners, DeleteOrphans(c) PROVE TypeOK'
  BY <1>6 DEF DeleteOrphans, Orphans, Commits, Queries, TypeOK
<1>7. ASSUME NEW c \in Cleaners, RemoveMarkers(c) PROVE TypeOK'
  <2>1. swept' \subseteq Runs
    BY <1>7 DEF RemoveMarkers, TypeOK
  <2>2. query' \in [Cleaners -> Queries \union {"none"}]
    BY <1>7 DEF RemoveMarkers, Commits, TypeOK
  <2>3. QED
    BY <1>7, <2>1, <2>2 DEF RemoveMarkers, Commits, TypeOK
<1>8. ASSUME NEW o \in Outsiders, NEW p \in Runs, Share(o, p) \/ Unshare(o, p) PROVE TypeOK'
  <2>1. owners' \in [Runs -> SUBSET Users]
    BY <1>8 DEF Share, Unshare, TypeOK
  <2>2. shared' \subseteq Runs
    BY <1>8 DEF Share, Unshare, TypeOK
  <2>3. QED
    BY <1>8, <2>1, <2>2 DEF Share, Unshare, TypeOK
<1>9. CASE UNCHANGED vars
  BY <1>9 DEF vars, TypeOK
<1>10. QED
  BY <1>1, <1>2, <1>3, <1>4, <1>5, <1>6, <1>7, <1>8, <1>9 DEF Next

\* Runs, cleanups and what they wrote are well typed, and no relationship or
\* marker outlives its preference.
THEOREM TypeCorrect == Spec => []TypeOK
<1>1. Init => TypeOK
  BY TypeInit
<1>2. QED
  BY <1>1, TypeStep, PTL DEF Spec

(***************************************************************************)
(* The invariant.                                                          *)
(***************************************************************************)
Facts == OwnersKnown /\ RunsComplete /\ CleanersSee /\ CleanersDone /\ SweptGone

\* The values the invariant looks up are there to be looked up.
LEMMA Domains ==
  ASSUME TypeOK
  PROVE  /\ status \in [Runs -> {"idle", "running", "stopped", "finished"}]
         /\ cell \in [Runs -> 1..Len(Cells)]
         /\ owners \in [Runs -> SUBSET Users]
         /\ query \in [Cleaners -> Queries \union {"none"}]
         /\ sees \in [Cleaners -> SUBSET Runs]
         /\ swept \subseteq Runs
         /\ preferences \subseteq Runs
  BY DEF TypeOK

\* A step of a run that changes the graph for its own records only.
LEMMA RunStep ==
  ASSUME IInv, NEW r \in Runs, status[r] = "running", Passes(r),
         \A q \in Runs \ {r} :
           /\ \A s \in Says : <<q, s>> \in messages' <=> <<q, s>> \in messages
           /\ \A a \in Actors : <<q, a>> \in users' <=> <<q, a>> \in users
           /\ q \in preferences' <=> q \in preferences
           /\ owners'[q] = owners[q]
           /\ q \in mentions => q \in mentions'
           /\ q \in derived => q \in derived'
           /\ q \in about => q \in about',
         marked \subseteq marked',
         owners'[r] \subseteq owners[r] \union {<<r, "alice">>},
         r \notin disturbed => Written(r)'
  PROVE  Facts'
<1> USE Domains DEF IInv
<1>1. /\ UNCHANGED <<status, query, sees, disturbed, swept, shared>>
      /\ \A q \in Runs \ {r} : cell'[q] = cell[q]
  BY DEF Passes, history
<1>2. r \notin Ended
  BY DEF Ended
<1>3. \A c \in Cleaners : r \notin sees[c]
  BY <1>2 DEF CleanersSee
<1>4. r \notin swept
  BY <1>2 DEF SweptGone, Gone
<1>5. OwnersKnown'
  <2>1. <<r, "alice">> \in DemoUsers
    BY DEF DemoUsers, Actors
  <2>2. /\ owners'[r] \cap DemoUsers \subseteq {<<r, "alice">>}
        /\ owners'[r] \cap Outsiders # {} => r \in shared'
    BY <1>1, <2>1, MemoryDemoAssumption DEF OwnersKnown
  <2>3. ASSUME NEW q \in Runs \ {r}
        PROVE  /\ owners'[q] \cap DemoUsers \subseteq {<<q, "alice">>}
               /\ owners'[q] \cap Outsiders # {} => q \in shared'
    BY <1>1 DEF OwnersKnown
  <2>4. DemoUsers' = DemoUsers
    BY DEF DemoUsers
  <2>5. QED
    BY <2>2, <2>3, <2>4 DEF OwnersKnown
<1>6. RunsComplete'
  <2>1. ASSUME NEW q \in Runs \ {r}, q \notin disturbed, status[q] = "running"
        PROVE  Written(q)'
    BY <1>1, <2>1 DEF RunsComplete, Written, Says
  <2>2. QED
    BY <1>1, <2>1 DEF RunsComplete
<1>7. CleanersSee'
  BY <1>1 DEF CleanersSee, Ended
<1>8. CleanersDone'
  BY <1>1, <1>3 DEF CleanersDone, Done
<1>9. SweptGone'
  BY <1>1, <1>4 DEF SweptGone, Gone, Ended
<1>10. QED
  BY <1>5, <1>6, <1>7, <1>8, <1>9 DEF Facts

\* Every step of the notebook writes what Written says of the next.
LEMMA NotebookSteps ==
  ASSUME IInv, NEW r \in Runs,
         \/ \E s \in Says : Say(r, s)
         \/ LinkMessage(r) \/ AddPreference(r) \/ LinkPreference(r)
         \/ Recall(r) \/ Trace(r) \/ Tag(r)
  PROVE  Facts'
<1> USE Domains DEF IInv
<1> DEFINE n == cell[r]
<1>1. n \in 1..Len(Cells) /\ n \in 1..11
  BY CellIndex
<1>2. r \notin disturbed /\ status[r] = "running" => Written(r)
  BY DEF RunsComplete
<1>3. ASSUME Passes(r) PROVE cell'[r] = n + 1
  BY <1>3 DEF Passes
<1>4. ASSUME NEW s \in Says, Say(r, s) PROVE Facts'
  <2>1. status[r] = "running" /\ Cells[n] = s /\ Passes(r)
    BY <1>4 DEF Say, At
  <2>2. n \in {1, 2, 6, 7} /\ (n = 1 => s = "say")
    BY <1>1, <2>1, CellIndex DEF Says
  <2>3. r \notin disturbed => Written(r)'
    BY <1>1, <1>2, <1>3, <1>4, <2>1, <2>2 DEF Say, Written, links
  <2>4. QED
    BY <1>4, <2>1, <2>3, RunStep DEF Say, links
<1>5. CASE LinkMessage(r)
  <2>1. status[r] = "running" /\ n = 3 /\ Passes(r)
    BY <1>1, <1>5, CellIndex DEF LinkMessage, At
  <2>2. r \notin disturbed => Written(r)'
    BY <1>2, <1>3, <1>5, <2>1 DEF LinkMessage, Written
  <2>3. QED
    BY <1>5, <2>1, <2>2, RunStep DEF LinkMessage
<1>6. CASE AddPreference(r)
  <2>1. status[r] = "running" /\ n = 4 /\ Passes(r)
    BY <1>1, <1>6, CellIndex DEF AddPreference, At
  <2>2. r \notin disturbed => Written(r)'
    BY <1>2, <1>3, <1>6, <2>1 DEF AddPreference, Written, links
  <2>3. QED
    BY <1>6, <2>1, <2>2, RunStep DEF AddPreference, links
<1>7. CASE LinkPreference(r)
  <2>1. status[r] = "running" /\ n = 5 /\ Passes(r)
    BY <1>1, <1>7, CellIndex DEF LinkPreference, At
  <2>2. r \notin disturbed => Written(r)'
    BY <1>2, <1>3, <1>7, <2>1 DEF LinkPreference, Written
  <2>3. QED
    BY <1>7, <2>1, <2>2, RunStep DEF LinkPreference
<1>8. CASE Recall(r) \/ Trace(r)
  <2>1. status[r] = "running" /\ n \in {8, 9} /\ Passes(r) /\ UNCHANGED graph
    BY <1>1, <1>8, CellIndex DEF Recall, Trace, At
  <2>2. r \notin disturbed => Written(r)'
    BY <1>2, <1>3, <2>1 DEF graph, links, Written
  <2>3. QED
    BY <2>1, <2>2, RunStep DEF graph, links
<1>9. CASE Tag(r)
  <2>1. status[r] = "running" /\ n = 10 /\ Passes(r)
    BY <1>1, <1>9, CellIndex DEF Tag, At
  <2>2. <<r, "alice">> \in {r} \X Actors
    BY DEF Actors
  <2>3. r \notin disturbed => Written(r)'
    BY <1>2, <1>3, <1>9, <2>1, <2>2 DEF Tag, Written, links
  <2>4. QED
    BY <1>9, <2>1, <2>3, RunStep DEF Tag, links
<1>10. QED
  BY <1>4, <1>5, <1>6, <1>7, <1>8, <1>9

\* A run that begins or ends changes nothing in the graph.
LEMMA EndSteps ==
  ASSUME IInv, NEW r \in Runs, Begin(r) \/ Finish(r) \/ Stop(r)
  PROVE  Facts'
<1> USE Domains DEF IInv
<1>1. UNCHANGED <<cell, users, messages, mentions, derived, about, preferences, owners,
                  marked, query, sees, swept, shared>>
  BY DEF Begin, Finish, Stop, graph, links, history
<1>2. \A q \in Runs \ {r} :
        status'[q] = status[q] /\ (q \in disturbed' <=> q \in disturbed)
  BY DEF Begin, Finish, Stop, history
<1>3. disturbed \subseteq disturbed'
  BY DEF Begin, Finish, Stop, history
<1>4. r \notin Ended
  BY DEF Ended, Begin, Finish, Stop, At
<1>5. (\A c \in Cleaners : r \notin sees[c]) /\ r \notin swept
  BY <1>4 DEF CleanersSee, SweptGone, Gone
<1>6. OwnersKnown'
  BY <1>1 DEF OwnersKnown
<1>7. RunsComplete'
  <2>1. ASSUME NEW q \in Runs \ {r}, q \notin disturbed'
        PROVE  /\ status'[q] = "running" =>
                    Written(q)' /\ \A c \in Cleaners : query'[c] = "none"
               /\ status'[q] = "finished" /\ q \in preferences' => q \in (marked \union shared)'
    BY <1>1, <1>2, <1>3, <2>1 DEF RunsComplete, Written
  <2>2. ASSUME r \notin disturbed'
        PROVE  /\ status'[r] = "running" =>
                    Written(r)' /\ \A c \in Cleaners : query'[c] = "none"
               /\ status'[r] = "finished" /\ r \in preferences' => r \in (marked \union shared)'
    <3>1. CASE Begin(r)
      <4>1. status[r] = "idle" /\ status'[r] = "running" /\ ~Cleaning /\ r \notin disturbed
        BY <2>2, <3>1 DEF Begin
      <4>2. cell'[r] = 1
        BY <1>1, <4>1 DEF RunsComplete
      <4>3. Written(r)'
        BY <4>2 DEF Written
      <4>4. QED
        BY <1>1, <4>1, <4>3 DEF Cleaning
    <3>2. CASE Finish(r)
      <4>1. cell[r] = 11 /\ status'[r] = "finished" /\ r \notin disturbed /\ status[r] = "running"
        BY <2>2, <3>2, CellIndex DEF Finish, At, history
      <4>2. Written(r)
        BY <4>1 DEF RunsComplete
      <4>3. 11 > 10 => r \in marked
        BY <4>1, <4>2 DEF Written
      <4>4. QED
        BY <1>1, <4>1, <4>3
    <3>3. CASE Stop(r)
      BY <3>3 DEF Stop
    <3>4. QED
      BY <3>1, <3>2, <3>3
  <2>3. \A q \in Runs \ disturbed' : status'[q] = "idle" => cell'[q] = 1
    BY <1>1, <1>2, <1>3 DEF RunsComplete, Begin, Finish, Stop
  <2>4. QED
    BY <2>1, <2>2, <2>3 DEF RunsComplete
<1>8. CleanersSee'
  <2>1. Ended \subseteq Ended'
    BY <1>2, <1>4 DEF Ended
  <2>2. ASSUME NEW c \in Cleaners, query[c] # "none", NEW q \in Runs \ disturbed',
               status'[q] # "idle"
        PROVE  q \in sees[c]
    <3>1. CASE q = r
      BY <1>3, <2>2, <3>1 DEF Begin, Finish, Stop, At, Cleaning, CleanersSee, history
    <3>2. CASE q # r
      BY <1>2, <1>3, <2>2, <3>2 DEF CleanersSee
    <3>3. QED
      BY <3>1, <3>2
  <2>3. QED
    BY <1>1, <2>1, <2>2 DEF CleanersSee
<1>9. CleanersDone'
  BY <1>1, <1>2, <1>3, <1>5 DEF CleanersDone, Done
<1>10. SweptGone'
  BY <1>1, <1>2, <1>3, <1>5 DEF SweptGone, Gone, Ended
<1>11. QED
  BY <1>6, <1>7, <1>8, <1>9, <1>10 DEF Facts

\* A cleanup that starts sees the runs that have ended, and disturbs the others.
LEMMA StartStep == ASSUME IInv, NEW c \in Cleaners, StartCleanup(c) PROVE Facts'
<1> USE Domains DEF IInv
<1>1. UNCHANGED <<status, cell, users, messages, mentions, derived, about, preferences,
                  owners, marked, swept, shared>>
  BY DEF StartCleanup, graph, links
<1>2. /\ disturbed' = disturbed \union Running
      /\ query'[c] = "links" /\ sees'[c] = Ended
      /\ \A k \in Cleaners \ {c} : query'[k] = query[k] /\ sees'[k] = sees[k]
  BY DEF StartCleanup
<1>3. OwnersKnown'
  BY <1>1 DEF OwnersKnown
<1>4. RunsComplete'
  BY <1>1, <1>2 DEF RunsComplete, Running
<1>5. CleanersSee'
  BY <1>1, <1>2 DEF CleanersSee, Ended, Running
<1>6. CleanersDone'
  BY <1>1, <1>2 DEF CleanersDone, Done
<1>7. SweptGone'
  BY <1>1, <1>2 DEF SweptGone, Gone, Ended
<1>8. QED
  BY <1>3, <1>4, <1>5, <1>6, <1>7 DEF Facts

\* While a cleanup is under way, every run is disturbed, seen by it or idle.
LEMMA Beside ==
  ASSUME IInv, NEW c \in Cleaners, query[c] # "none", NEW r \in Runs \ disturbed
  PROVE  /\ status[r] # "running"
         /\ status[r] = "finished" => r \in sees[c]
  BY DEF IInv, RunsComplete, CleanersSee

\* A query that removes records and leaves every preference its marker.
LEMMA CleanStep ==
  ASSUME IInv, NEW c \in Cleaners, query[c] # "none",
         UNCHANGED <<status, cell, sees, disturbed, shared>>,
         \A k \in Cleaners \ {c} : query'[k] = query[k],
         messages' \subseteq messages, users' \subseteq users,
         preferences' \subseteq preferences,
         \A p \in Runs : owners'[p] \subseteq owners[p],
         \A r \in preferences' : r \in marked /\ r \notin marked' =>
           r \in disturbed \/ status[r] # "finished" \/ r \in shared
  PROVE  /\ OwnersKnown' /\ RunsComplete' /\ CleanersSee'
         /\ \A k \in Cleaners \ {c} : \A r \in sees'[k] : Done(k, r)'
         /\ \A r \in swept : Gone(r)'
<1> USE Domains DEF IInv
<1>1. DemoUsers' = DemoUsers
  BY DEF DemoUsers
<1>2. OwnersKnown'
  BY <1>1 DEF OwnersKnown
<1>3. RunsComplete'
  BY Beside DEF RunsComplete
<1>4. CleanersSee'
  <2>1. \A r \in Runs \ disturbed : status[r] # "idle" => r \in sees[c]
    BY DEF CleanersSee
  <2>2. QED
    BY <2>1 DEF CleanersSee, Ended
<1>5. ASSUME NEW k \in Cleaners \ {c}, NEW r \in sees'[k]
      PROVE  Done(k, r)'
  BY <1>1, <1>5 DEF CleanersDone, Done
<1>6. ASSUME NEW r \in swept
      PROVE  Gone(r)'
  BY <1>6 DEF SweptGone, Gone, Ended
<1>7. QED
  BY <1>2, <1>3, <1>4, <1>5, <1>6

\* Each query adds to what the cleanup that ran it has done.
LEMMA CleanupSteps ==
  ASSUME IInv, NEW c \in Cleaners,
         \/ DeleteHotelLinks(c) \/ DeleteSessions(c) \/ DeleteUsers(c)
         \/ DeleteOrphans(c) \/ RemoveMarkers(c)
  PROVE  Facts'
<1> USE Domains DEF IInv
<1>0. \A r \in sees[c] : Done(c, r)
  BY DEF CleanersDone
<1>1. UNCHANGED <<status, cell, sees, disturbed, shared>> /\ query[c] # "none"
  BY DEF DeleteHotelLinks, DeleteSessions, DeleteUsers, DeleteOrphans, RemoveMarkers, Commits
<1>2. \A k \in Cleaners \ {c} : query'[k] = query[k]
  BY DEF DeleteHotelLinks, DeleteSessions, DeleteUsers, DeleteOrphans, RemoveMarkers, Commits
<1>3. /\ messages' \subseteq messages /\ users' \subseteq users
      /\ preferences' \subseteq preferences
      /\ \A p \in Runs : owners'[p] \subseteq owners[p]
  BY DEF DeleteHotelLinks, DeleteSessions, DeleteUsers, DeleteOrphans, RemoveMarkers, links
<1>4. ASSUME NEW r \in preferences', r \in marked, r \notin marked'
      PROVE  r \in disturbed \/ status[r] # "finished" \/ r \in shared
  <2>1. RemoveMarkers(c) /\ owners[r] # {}
    BY <1>4 DEF DeleteHotelLinks, DeleteSessions, DeleteUsers, DeleteOrphans, RemoveMarkers
  <2>2. r \in Runs
    BY <1>3
  <2>3. ASSUME r \notin disturbed, status[r] = "finished" PROVE r \in shared
    <3>1. r \in sees[c] /\ query[c] = "markers"
      BY <2>1, <2>2, <2>3, <1>1, Beside DEF RemoveMarkers, Commits
    <3>2. QED
      BY <3>1, <1>0, <1>3, <2>3 DEF Done
  <2>4. QED
    BY <2>3
<1>5. /\ OwnersKnown' /\ RunsComplete' /\ CleanersSee'
      /\ \A k \in Cleaners \ {c} : \A r \in sees'[k] : Done(k, r)'
      /\ \A r \in swept : Gone(r)'
  BY <1>1, <1>2, <1>3, <1>4, CleanStep
<1>6. ASSUME NEW r \in sees[c] PROVE Done(c, r)'
  <2>0. r \in Runs /\ Done(c, r) /\ DemoUsers' = DemoUsers
    BY <1>0 DEF DemoUsers
  <2>1. CASE DeleteHotelLinks(c)
    BY <2>1 DEF DeleteHotelLinks, Commits, Done
  <2>2. CASE DeleteSessions(c)
    BY <2>2 DEF DeleteSessions, Commits, Done
  <2>3. CASE DeleteUsers(c)
    BY <2>0, <2>3 DEF DeleteUsers, Commits, Done
  <2>4. CASE DeleteOrphans(c)
    <3>1. query[c] = "orphans" /\ query'[c] = "markers"
      BY <2>4 DEF DeleteOrphans, Commits
    <3>2. /\ \A s \in Says : <<r, s>> \notin messages'
          /\ \A a \in Actors : <<r, a>> \notin users'
          /\ owners'[r] \cap DemoUsers' = {}
      BY <1>3, <2>0, <3>1 DEF Done
    <3>3. ASSUME status'[r] = "finished", r \notin disturbed', r \in preferences'
          PROVE  r \in shared'
      <4>1. status[r] = "finished" /\ r \notin disturbed /\ r \in preferences /\ r \notin Orphans
        BY <1>1, <2>4, <3>3 DEF DeleteOrphans
      <4>2. r \in marked \union shared
        BY <2>0, <4>1 DEF RunsComplete
      <4>3. r \notin shared => owners[r] # {} /\ owners[r] \subseteq Outsiders
        BY <2>0, <3>1, <4>1, <4>2 DEF Orphans, Users, Done
      <4>4. r \in shared
        BY <2>0, <4>3 DEF OwnersKnown
      <4>5. QED
        BY <1>1, <4>4
    <3>4. QED
      BY <3>1, <3>2, <3>3 DEF Done
  <2>5. CASE RemoveMarkers(c)
    BY <2>5 DEF RemoveMarkers, Commits, Done
  <2>6. QED
    BY <2>1, <2>2, <2>3, <2>4, <2>5
<1>7. CleanersDone'
  BY <1>1, <1>5, <1>6 DEF CleanersDone
<1>8. SweptGone'
  <2>1. CASE swept' = swept
    BY <1>5, <2>1 DEF SweptGone
  <2>2. CASE RemoveMarkers(c)
    <3>1. ASSUME NEW r \in sees[c]
          PROVE  Gone(r)'
      <4>1. query[c] = "markers" /\ UNCHANGED <<users, messages, preferences>>
        BY <2>2 DEF RemoveMarkers, Commits
      <4>2. r \in Ended'
        BY <1>1 DEF CleanersSee, Ended
      <4>3. QED
        BY <1>0, <1>1, <4>1, <4>2 DEF Done, Gone
    <3>2. swept' = swept \union sees[c]
      BY <2>2 DEF RemoveMarkers
    <3>3. QED
      BY <1>5, <3>1, <3>2 DEF SweptGone
  <2>3. QED
    BY <2>1, <2>2 DEF DeleteHotelLinks, DeleteSessions, DeleteUsers, DeleteOrphans
<1>9. QED
  BY <1>5, <1>7, <1>8 DEF Facts

\* A cleanup that stops has done nothing wrong by what it has not yet done.
LEMMA StopStep == ASSUME IInv, NEW c \in Cleaners, StopCleanup(c) PROVE Facts'
<1> USE Domains DEF IInv
<1>1. UNCHANGED <<status, cell, users, messages, mentions, derived, about, preferences,
                  owners, marked, sees, disturbed, swept, shared>>
  BY DEF StopCleanup, graph, links, history
<1>2. query'[c] = "none" /\ \A k \in Cleaners \ {c} : query'[k] = query[k]
  BY DEF StopCleanup
<1>3. OwnersKnown' /\ SweptGone'
  BY <1>1 DEF OwnersKnown, SweptGone, Gone, DemoUsers, Ended
<1>4. RunsComplete'
  BY <1>1, <1>2 DEF RunsComplete, Written
<1>5. CleanersSee'
  BY <1>1, <1>2 DEF CleanersSee, Ended
<1>6. CleanersDone'
  BY <1>1, <1>2 DEF CleanersDone, Done, DemoUsers
<1>7. QED
  BY <1>3, <1>4, <1>5, <1>6 DEF Facts

\* What an outsider owns is remembered, and no demo user is concerned.
LEMMA OutsiderStep ==
  ASSUME IInv, NEW o \in Outsiders, NEW p \in Runs, Share(o, p) \/ Unshare(o, p)
  PROVE  Facts'
<1> USE Domains DEF IInv
<1>1. UNCHANGED <<status, cell, users, messages, mentions, derived, about, preferences,
                  marked, query, sees, disturbed, swept>>
  BY DEF Share, Unshare, links, history
<1>2. /\ \A q \in Runs \ {p} : owners'[q] = owners[q]
      /\ \/ owners'[p] = owners[p] \union {o} /\ p \in shared'
         \/ owners'[p] = owners[p] \ {o}
      /\ shared \subseteq shared'
  BY DEF Share, Unshare, history
<1>3. o \notin DemoUsers /\ DemoUsers' = DemoUsers
  BY MemoryDemoAssumption DEF DemoUsers
<1>4. OwnersKnown'
  BY <1>1, <1>2, <1>3 DEF OwnersKnown
<1>5. RunsComplete'
  <2>1. \A r \in Runs : <<r, "alice">> \in owners[r] => <<r, "alice">> \in owners'[r]
    BY <1>2, <1>3 DEF DemoUsers, Actors
  <2>2. \A r \in Runs : Written(r) => Written(r)'
    BY <1>1, <2>1 DEF Written
  <2>3. QED
    BY <1>1, <1>2, <2>2 DEF RunsComplete
<1>6. CleanersSee'
  BY <1>1 DEF CleanersSee, Ended
<1>7. \A r \in Runs : owners[r] \cap DemoUsers = {} => owners'[r] \cap DemoUsers' = {}
  BY <1>2, <1>3
<1>8. CleanersDone'
  BY <1>1, <1>2, <1>7 DEF CleanersDone, Done
<1>9. SweptGone'
  BY <1>1, <1>2 DEF SweptGone, Gone, Ended
<1>10. QED
  BY <1>4, <1>5, <1>6, <1>8, <1>9 DEF Facts

\* An empty graph without cleanups satisfies the invariant.
LEMMA InvInit == Init => IInv
<1> SUFFICES ASSUME Init PROVE IInv
  OBVIOUS
<1>1. TypeOK
  BY TypeInit
<1>2. OwnersKnown
  BY DEF Init, OwnersKnown
<1>3. RunsComplete
  BY DEF Init, RunsComplete
<1>4. CleanersSee /\ CleanersDone /\ SweptGone
  BY DEF Init, CleanersSee, CleanersDone, Done, SweptGone, Gone
<1>5. QED
  BY <1>1, <1>2, <1>3, <1>4 DEF IInv

\* A stuttering step changes nothing the invariant speaks of.
LEMMA StutterInv == ASSUME IInv, UNCHANGED vars PROVE Facts'
<1>1. UNCHANGED <<status, cell, users, messages, mentions, derived, about, preferences,
                  owners, marked, query, sees, disturbed, swept, shared>>
  BY DEF vars, graph, links, history
<1>2. OwnersKnown' /\ CleanersSee'
  BY <1>1 DEF IInv, OwnersKnown, CleanersSee, DemoUsers, Ended
<1>3. RunsComplete'
  BY <1>1 DEF IInv, RunsComplete, Written
<1>4. CleanersDone' /\ SweptGone'
  BY <1>1 DEF IInv, CleanersDone, Done, SweptGone, Gone, DemoUsers, Ended
<1>5. QED
  BY <1>2, <1>3, <1>4 DEF Facts

\* Every step keeps the invariant.
LEMMA InvStep == IInv /\ [Next]_vars => IInv'
<1> SUFFICES ASSUME IInv, [Next]_vars PROVE IInv'
  OBVIOUS
<1>1. TypeOK'
  BY TypeStep DEF IInv
<1>2. Facts'
  BY NotebookSteps, EndSteps, StartStep, CleanupSteps, StopStep, OutsiderStep, StutterInv
     DEF Next
<1>3. QED
  BY <1>1, <1>2 DEF IInv, Facts

\* What runs wrote, what cleanups have done so far and what is left agree.
THEOREM Invariance == Spec => []IInv
<1>1. Init => IInv
  BY InvInit
<1>2. QED
  BY <1>1, InvStep, PTL DEF Spec

\* A completed cleanup leaves nothing of a finished run, however many cleanups
\* stopped before it and run beside it.
THEOREM FinishedRunsGo == Spec => []FinishedRunsRemoved
<1>1. IInv => FinishedRunsRemoved
  BY DEF IInv, SweptGone, Gone, FinishedRunsRemoved, Removed
<1>2. QED
  BY <1>1, Invariance, PTL

\* A preference that carries its own run's user is recalled by that run alone.
LEMMA RecallsOwn ==
  ASSUME IInv, NEW r \in Runs \ disturbed, status[r] = "running", cell[r] > 5
  PROVE  /\ Recalled(<<r, "alice">>) = {r} /\ Recalled(<<r, "blake">>) = {}
         /\ Traced(r) = {r}
<1> USE Domains DEF IInv
<1>1. Written(r)
  BY DEF RunsComplete
<1>2. cell[r] \in 1..11
  BY CellIndex
<1>3. /\ <<r, "say">> \in messages /\ r \in mentions /\ r \in preferences
      /\ <<r, "alice">> \in owners[r] /\ r \in derived /\ r \in about
  BY <1>1, <1>2 DEF Written
<1>4. ASSUME NEW p \in preferences, NEW a \in Actors, <<r, a>> \in owners[p]
      PROVE  p = r /\ a = "alice"
  <2>1. <<r, a>> \in DemoUsers /\ p \in Runs
    BY DEF DemoUsers
  <2>2. <<r, a>> = <<p, "alice">>
    BY <1>4, <2>1 DEF OwnersKnown
  <2>3. QED
    BY <2>2
<1>5. QED
  BY <1>3, <1>4 DEF Recalled, Traced, Actors

\* A run with no cleanup beside it passes the notebook's assertions, whatever
\* other runs and outsiders do.
THEOREM UndisturbedRunsPass == Spec => []ChecksPass
<1>1. ASSUME IInv PROVE ChecksPass
  <2>1. ASSUME NEW r \in Runs \ disturbed, At(r, "recall") \/ At(r, "trace")
        PROVE  status[r] = "running" /\ cell[r] > 5
    BY <1>1, <2>1, CellIndex, Domains DEF IInv, At
  <2>2. QED
    BY <1>1, <2>1, RecallsOwn DEF ChecksPass
<1>2. QED
  BY <1>1, Invariance, PTL

\* No step deletes a preference that an outsider owns, and no cleanup step takes
\* it from them.
THEOREM OutsidersKeep == Spec => SharedPreferencesKept
<1> DEFINE Kept(p) ==
             owners[p] \cap Outsiders # {} =>
               /\ p \in preferences'
               /\ (\E c \in Cleaners : query'[c] # query[c]) =>
                    owners'[p] \cap Outsiders = owners[p] \cap Outsiders
<1>1. ASSUME IInv, [Next]_vars PROVE [\A p \in preferences : Kept(p)]_vars
  <2> SUFFICES ASSUME NEW p \in preferences, Next PROVE Kept(p)
    BY <1>1
  <2> USE Domains DEF IInv
  <2>0. p \in Runs
    BY <1>1
  <2>1. CASE \E c \in Cleaners : DeleteOrphans(c)
    BY <1>1, <2>0, <2>1 DEF DeleteOrphans, Orphans
  <2>2. CASE \E c \in Cleaners : DeleteUsers(c)
    BY <1>1, <2>0, <2>2, MemoryDemoAssumption DEF DeleteUsers, links
  <2>3. CASE \E c \in Cleaners : \/ StartCleanup(c) \/ DeleteHotelLinks(c)
                                 \/ DeleteSessions(c) \/ RemoveMarkers(c) \/ StopCleanup(c)
    BY <2>3 DEF StartCleanup, DeleteHotelLinks, DeleteSessions, RemoveMarkers, StopCleanup,
                graph, links
  <2>4. CASE \E r \in Runs : Begin(r) \/ Finish(r) \/ Stop(r) \/ Recall(r) \/ Trace(r)
    BY <2>4 DEF Begin, Finish, Stop, Recall, Trace, Passes, graph, history
  <2>5. CASE \E r \in Runs : \/ LinkMessage(r) \/ AddPreference(r) \/ LinkPreference(r)
                             \/ Tag(r) \/ \E s \in Says : Say(r, s)
    BY <2>5 DEF LinkMessage, AddPreference, LinkPreference, Tag, Say, Passes, links
  <2>6. CASE \E o \in Outsiders, q \in Runs : Share(o, q) \/ Unshare(o, q)
    BY <2>6 DEF Share, Unshare
  <2>7. QED
    BY <2>1, <2>2, <2>3, <2>4, <2>5, <2>6 DEF Next
<1>2. QED
  BY <1>1, Invariance, PTL DEF Spec, SharedPreferencesKept
================================================================================
