---------------------------- MODULE ServerProofs ----------------------------
(***************************************************************************)
(* Proofs that what the network store acknowledges is durable, for every   *)
(* set of threads, rows and routes, and all bounds.                        *)
(***************************************************************************)
EXTENDS Server, TLAPS

-----------------------------------------------------------------------------
(* Writers of a row. *)

\* A row's order of writers only grows at its end.
LEMMA NotAfterGrows ==
  ASSUME NEW S, NEW w \in Seq(S), NEW m \in S, NEW a, NEW b, NotAfter(w, a, b)
  PROVE  NotAfter(Append(w, m), a, b)
<1>1. CASE a = b
  BY <1>1 DEF NotAfter
<1>2. CASE \E i, j \in DOMAIN w : i < j /\ w[i] = a /\ w[j] = b
  <2>1. \A i \in DOMAIN w : i \in DOMAIN Append(w, m) /\ Append(w, m)[i] = w[i]
    OBVIOUS
  <2>2. QED
    BY <1>2, <2>1 DEF NotAfter
<1>3. QED
  BY <1>1, <1>2 DEF NotAfter

\* The last writer is not before any writer.
LEMMA LastWriter ==
  ASSUME NEW S, NEW w \in Seq(S), NEW m \in S, NEW j \in DOMAIN w
  PROVE  NotAfter(Append(w, m), w[j], m)
<1>1. /\ j \in DOMAIN Append(w, m) /\ Append(w, m)[j] = w[j]
      /\ Len(w) + 1 \in DOMAIN Append(w, m) /\ Append(w, m)[Len(w) + 1] = m
      /\ j < Len(w) + 1
  OBVIOUS
<1>2. QED
  BY <1>1 DEF NotAfter

-----------------------------------------------------------------------------
(* The shape of the state. *)

Pcs == {"free", "check", "execute", "commit", "answer"}
Told == {"none", "ok", "refused", "dropped"}
Local == [pc : Pcs, request : 0 .. MaxRequests, left : Seq(SUBSET Rows)]

LEMMA Typed ==
  TypeOK <=>
    /\ dialect \in Dialects
    /\ db \in [Rows -> 0 .. MaxRequests]
    /\ disk \in [Rows -> 0 .. MaxRequests]
    /\ aborted \in BOOLEAN
    /\ thread \in [Threads -> Local]
    /\ answer \in Seq(Told)
    /\ wrote \in [Rows -> Seq(1 .. MaxRequests)]
    /\ poisoned \in BOOLEAN
    /\ failures \in 0 .. MaxFailures
BY DEF TypeOK, Local, Pcs, Told

LEMMA FreeIsLocal == Free \in Local
BY ServerAssumption DEF Free, Local, Pcs

LEMMA OnwardIsPc == \A left : Onward(left) \in Pcs \ {"free", "answer"}
BY DEF Onward, Pcs

\* A busy thread's request is one of the requests, and unanswered.
LEMMA Busy ==
  ASSUME SrvInv, NEW t \in Threads, ~At(t, "free")
  PROVE  /\ n(t) \in Requests /\ n(t) \in 1 .. MaxRequests
         /\ answer[n(t)] = "none"
         /\ thread[t] \in Local /\ thread[t].left \in Seq(SUBSET Rows)
<1>1. /\ n(t) \in Requests /\ answer[n(t)] = "none" /\ thread[t] \in Local
  BY Typed DEF SrvInv, ThreadsOwn
<1>2. n(t) \in 0 .. MaxRequests /\ n(t) >= 1 /\ n(t) \in Nat
  BY <1>1, Typed, ServerAssumption DEF Local, n, Requests, SrvInv
<1>3. QED
  BY <1>1, <1>2, ServerAssumption DEF Local

-----------------------------------------------------------------------------
(* The initial state. *)

LEMMA InitInv ==
  ASSUME Init
  PROVE  SrvInv
<1>1. TypeOK
  <2>1. answer \in Seq(Told) /\ wrote \in [Rows -> Seq(1 .. MaxRequests)]
    BY DEF Init
  <2>2. db \in [Rows -> 0 .. MaxRequests] /\ disk \in [Rows -> 0 .. MaxRequests]
    BY ServerAssumption DEF Init
  <2>3. thread \in [Threads -> Local] /\ failures \in 0 .. MaxFailures
    BY FreeIsLocal, ServerAssumption DEF Init
  <2>4. QED
    BY <2>1, <2>2, <2>3, Typed DEF Init
<1>2. ThreadsOwn
  BY DEF Init, ThreadsOwn, At, Free
<1>3. \A k \in Rows : WroteTo(k) = {}
  BY DEF Init, WroteTo
<1>4. QED
  BY <1>1, <1>2, <1>3 DEF SrvInv, Init, WritersKnown, WritesStand

-----------------------------------------------------------------------------
(* The end of a request, answered or dropped. *)

\* Whoever ends a request keeps the invariant, if only a thread past its commit
\* says ok, and a failed transaction is remembered.
LEMMA EndInv ==
  ASSUME SrvInv, NEW t \in Threads, ~At(t, "free"),
         NEW what \in Told \ {"none"}, what = "ok" => At(t, "answer"),
         End(t, what),
         UNCHANGED <<dialect, db, disk, wrote>>,
         aborted' \in BOOLEAN, poisoned' \in BOOLEAN, failures' \in 0 .. MaxFailures,
         poisoned => poisoned', aborted' => poisoned'
  PROVE  SrvInv'
<1>1. /\ n(t) \in Requests /\ answer[n(t)] = "none"
      /\ answer \in Seq(Told) /\ thread \in [Threads -> Local]
  BY Busy, Typed DEF SrvInv
<1>2. answer' \in Seq(Told) /\ Len(answer') = Len(answer)
  BY <1>1 DEF End, Requests
<1>3. /\ Requests' = Requests
      /\ \A i \in Requests : answer'[i] = IF i = n(t) THEN what ELSE answer[i]
  BY <1>1, <1>2 DEF End, Requests
<1>4. \A u \in Threads : thread'[u] = IF u = t THEN Free ELSE thread[u]
  BY <1>1 DEF End
<1>5. TypeOK'
  <2>1. thread' \in [Threads -> Local]
    BY <1>1, FreeIsLocal DEF End
  <2>2. QED
    BY <1>2, <2>1, Typed DEF SrvInv, TypeOK, Local, Pcs, Told
<1>6. \A u \in Threads : (~At(u, "free"))' => /\ u # t /\ ~At(u, "free")
                                            /\ thread'[u] = thread[u] /\ n(u)' = n(u)
  BY <1>4 DEF At, n, Free
<1>7. ThreadsOwn'
  <2>1. ASSUME NEW u \in Threads, (~At(u, "free"))'
        PROVE  /\ n(u)' \in Requests'
               /\ answer'[n(u)'] = "none"
               /\ \A v \in Threads : (~At(v, "free"))' /\ n(v)' = n(u)' => v = u
               /\ At(u, "execute")' => thread'[u].left # <<>>
    BY <2>1, <1>1, <1>3, <1>6 DEF SrvInv, ThreadsOwn, At
  <2>2. QED
    BY <2>1 DEF ThreadsOwn
<1>8. WritersKnown'
  BY <1>3 DEF SrvInv, WritersKnown, WroteTo
<1>9. WritesStand'
  <2>1. \A i \in Requests : Standing(i)' => Standing(i)
    BY <1>3, <1>6 DEF Standing
  <2>2. \A i \in Requests : Committed(i)' => Committed(i)
    BY <1>3, <1>4, <1>6 DEF Committed, At, Free
  <2>3. \A k \in Rows : WroteTo(k)' = WroteTo(k) /\ WroteTo(k) \subseteq Requests
    BY DEF WroteTo, SrvInv, WritersKnown
  <2>4. QED
    BY <2>1, <2>2, <2>3 DEF SrvInv, WritesStand, NotAfter
<1>10. QED
  BY <1>5, <1>7, <1>8, <1>9 DEF SrvInv

-----------------------------------------------------------------------------
(* The steps of a request. *)

LEMMA ReceiveInv ==
  ASSUME SrvInv, NEW t \in Threads, NEW q \in DOMAIN Routes, Receive(t, q)
  PROVE  SrvInv'
<1>1. /\ answer \in Seq(Told) /\ thread \in [Threads -> Local]
      /\ Len(answer) < MaxRequests /\ answer' = Append(answer, "none")
  BY Typed DEF SrvInv, Receive
<1>2. /\ answer' \in Seq(Told) /\ Len(answer') = Len(answer) + 1
      /\ answer'[Len(answer) + 1] = "none"
      /\ \A i \in 1 .. Len(answer) : answer'[i] = answer[i]
      /\ Len(answer) \in Nat
  BY <1>1 DEF Told
<1>3. /\ Requests' = Requests \cup {Len(answer) + 1} /\ Len(answer) + 1 \notin Requests
      /\ \A i \in Requests : answer'[i] = answer[i]
  BY <1>2 DEF Requests
<1>4. PICK p \in {"check", "execute", "commit"} :
        /\ thread' = [thread EXCEPT ![t] =
                        [pc |-> p, request |-> Len(answer) + 1, left |-> Routes[q].writes]]
        /\ p = "execute" => Routes[q].writes # <<>>
  BY DEF Receive, Onward
<1>5. \A u \in Threads : thread'[u] = IF u = t
        THEN [pc |-> p, request |-> Len(answer) + 1, left |-> Routes[q].writes] ELSE thread[u]
  BY <1>1, <1>4
<1>6. TypeOK'
  <2>1. Len(answer) + 1 \in 0 .. MaxRequests /\ Routes[q].writes \in Seq(SUBSET Rows)
    BY <1>1, <1>2, ServerAssumption
  <2>2. thread' \in [Threads -> Local]
    BY <1>1, <1>4, <2>1 DEF Local, Pcs
  <2>3. QED
    BY <1>2, <2>2, Typed DEF SrvInv, TypeOK, Receive, Local, Pcs, Told
<1>7. /\ \A u \in Threads \ {t} : thread'[u] = thread[u] /\ n(u)' = n(u)
      /\ n(t)' = Len(answer) + 1 /\ thread'[t].pc = p /\ thread'[t].left = Routes[q].writes
  BY <1>5 DEF n
<1>8. \A u \in Threads : ~At(u, "free") => n(u) \in Requests /\ answer[n(u)] = "none"
  BY DEF SrvInv, ThreadsOwn
<1>9. ThreadsOwn'
  <2>1. ASSUME NEW u \in Threads, (~At(u, "free"))'
        PROVE  /\ n(u)' \in Requests'
               /\ answer'[n(u)'] = "none"
               /\ \A v \in Threads : (~At(v, "free"))' /\ n(v)' = n(u)' => v = u
               /\ At(u, "execute")' => thread'[u].left # <<>>
    <3>1. CASE u = t
      BY <2>1, <3>1, <1>2, <1>3, <1>4, <1>7, <1>8 DEF At
    <3>2. CASE u # t
      BY <2>1, <3>2, <1>3, <1>7, <1>8 DEF SrvInv, ThreadsOwn, At
    <3>3. QED
      BY <3>1, <3>2
  <2>2. QED
    BY <2>1 DEF ThreadsOwn
<1>10. \A k \in Rows : WroteTo(k)' = WroteTo(k) /\ WroteTo(k) \subseteq Requests
  BY DEF WroteTo, SrvInv, WritersKnown, Receive
<1>11. WritersKnown'
  BY <1>3, <1>10 DEF WritersKnown
<1>12. WritesStand'
  <2>1. \A i \in Requests : Standing(i)' => Standing(i)
    BY <1>3, <1>7 DEF Standing, At
  <2>2. \A i \in Requests : Committed(i)' => Committed(i)
    BY <1>3, <1>7 DEF Committed, At
  <2>3. QED
    BY <2>1, <2>2, <1>10 DEF SrvInv, WritesStand, NotAfter, Receive
<1>13. QED
  BY <1>6, <1>9, <1>11, <1>12 DEF SrvInv, Receive

\* A busy thread that goes on within its request keeps what it owns.
LEMMA GotoOwn ==
  ASSUME SrvInv, NEW t \in Threads, ~At(t, "free"), NEW p \in Pcs \ {"free"}, Goto(t, p),
         p = "execute" => thread[t].left # <<>>,
         UNCHANGED answer
  PROVE  /\ thread' \in [Threads -> Local]
         /\ ThreadsOwn'
         /\ \A u \in Threads : n(u)' = n(u) /\ (At(u, "free")' <=> At(u, "free"))
         /\ \A u \in Threads : At(u, "answer")' => At(u, "answer") \/ (u = t /\ p = "answer")
<1>1. thread \in [Threads -> Local]
  BY Typed DEF SrvInv
<1>2. thread' \in [Threads -> Local]
  BY <1>1 DEF Goto, Local
<1>3. /\ \A u \in Threads \ {t} : thread'[u] = thread[u]
      /\ thread'[t].pc = p /\ thread'[t].request = thread[t].request
      /\ thread'[t].left = thread[t].left
  BY <1>1 DEF Goto, Local
<1>4. \A u \in Threads : n(u)' = n(u) /\ (At(u, "free")' <=> At(u, "free"))
  BY <1>3 DEF n, At
<1>5. ThreadsOwn'
  <2>1. Requests' = Requests
    BY DEF Requests
  <2>2. QED
    BY <1>3, <1>4, <2>1 DEF SrvInv, ThreadsOwn, At
<1>6. QED
  BY <1>2, <1>3, <1>4, <1>5 DEF At

LEMMA CheckInv ==
  ASSUME SrvInv, NEW t \in Threads, Check(t)
  PROVE  SrvInv'
<1>1. ~At(t, "free")
  BY DEF Check, At
<1>2. CASE End(t, "refused")
  BY <1>1, <1>2, EndInv, Typed DEF Check, Told, SrvInv
<1>3. CASE Goto(t, Onward(thread[t].left)) /\ UNCHANGED answer
  <2>1. Onward(thread[t].left) = "execute" => thread[t].left # <<>>
    BY DEF Onward
  <2>2. /\ thread' \in [Threads -> Local] /\ ThreadsOwn'
        /\ \A u \in Threads : n(u)' = n(u) /\ (At(u, "free")' <=> At(u, "free"))
        /\ \A u \in Threads : At(u, "answer")' => At(u, "answer")
    BY <1>1, <1>3, <2>1, GotoOwn, OnwardIsPc
  <2>3. TypeOK'
    BY <1>3, <2>2, Typed DEF SrvInv, TypeOK, Check, Local, Pcs, Told
  <2>4. WritersKnown' /\ (aborted' => poisoned')
    BY <1>3 DEF SrvInv, WritersKnown, WroteTo, Requests, Check
  <2>5. \A i : (Standing(i)' => Standing(i)) /\ (Committed(i)' => Committed(i))
    BY <1>3, <2>2 DEF Standing, Committed
  <2>6. WritesStand'
    BY <2>5 DEF SrvInv, WritesStand, WroteTo, NotAfter, Check
  <2>7. QED
    BY <2>2, <2>3, <2>4, <2>6 DEF SrvInv
<1>4. QED
  BY <1>2, <1>3 DEF Check

\* The commit makes durable what the connection sees, and what the connection
\* sees holds every write of the requests still at work.
LEMMA CommitInv ==
  ASSUME SrvInv, NEW t \in Threads, Commit(t)
  PROVE  SrvInv'
<1>1. ~At(t, "free") /\ At(t, "commit")
  BY DEF Commit, At
<1>2. /\ thread' \in [Threads -> Local] /\ ThreadsOwn'
      /\ \A u \in Threads : n(u)' = n(u) /\ (At(u, "free")' <=> At(u, "free"))
      /\ \A u \in Threads : At(u, "answer")' => At(u, "answer") \/ u = t
  <2>1. "answer" \in Pcs \ {"free"} /\ Goto(t, "answer") /\ UNCHANGED answer
    BY DEF Pcs, Commit
  <2>2. QED
    BY <1>1, <2>1, GotoOwn
<1>3. TypeOK'
  <2>1. db' \in [Rows -> 0 .. MaxRequests] /\ disk' \in [Rows -> 0 .. MaxRequests]
    BY Typed DEF SrvInv, Commit
  <2>2. QED
    BY <1>2, <2>1, Typed DEF SrvInv, TypeOK, Commit, Local, Pcs, Told
<1>4. WritersKnown' /\ (aborted' => poisoned')
  BY DEF SrvInv, WritersKnown, WroteTo, Requests, Commit
<1>5. \A i : Standing(i)' => Standing(i)
  BY <1>2 DEF Standing, Commit
<1>6. \A i : Committed(i)' => Standing(i)
  BY <1>1, <1>2 DEF Standing, Committed, Commit, At
<1>7. WritesStand'
  <2>1. ASSUME ~poisoned'
        PROVE  disk' = db /\ db' = db /\ ~poisoned
    BY <2>1 DEF SrvInv, Commit
  <2>2. QED
    BY <1>5, <1>6, <2>1 DEF SrvInv, WritesStand, WroteTo, NotAfter, Commit
<1>8. QED
  BY <1>2, <1>3, <1>4, <1>7 DEF SrvInv

LEMMA ExecuteInv ==
  ASSUME SrvInv, NEW t \in Threads, Execute(t)
  PROVE  SrvInv'
<1> DEFINE rows == Head(thread[t].left)
           rest == Tail(thread[t].left)
<1>1. /\ ~At(t, "free") /\ ~At(t, "answer") /\ At(t, "execute")
      /\ thread[t].left # <<>>
  BY DEF Execute, At, SrvInv, ThreadsOwn
<1>2. /\ n(t) \in Requests /\ n(t) \in 1 .. MaxRequests /\ answer[n(t)] = "none"
      /\ thread[t] \in Local /\ thread[t].left \in Seq(SUBSET Rows)
      /\ thread \in [Threads -> Local]
  BY <1>1, Busy, Typed DEF SrvInv
<1>3. rows \in SUBSET Rows /\ rest \in Seq(SUBSET Rows)
  BY <1>1, <1>2
<1>4. /\ db' = [k \in Rows |-> IF k \in rows THEN n(t) ELSE db[k]]
      /\ wrote' = [k \in Rows |-> IF k \in rows THEN Append(wrote[k], n(t)) ELSE wrote[k]]
      /\ thread' = [thread EXCEPT ![t].left = rest, ![t].pc = Onward(rest)]
      /\ UNCHANGED <<dialect, disk, aborted, answer, poisoned, failures>>
  <2>1. thread' = [thread EXCEPT ![t].left = Tail(@), ![t].pc = Onward(rest)]
    BY DEF Execute
  <2>2. QED
    BY <1>2, <2>1 DEF Execute, Local
<1>5. /\ \A u \in Threads \ {t} : thread'[u] = thread[u]
      /\ thread'[t].pc = Onward(rest) /\ thread'[t].left = rest
      /\ thread'[t].request = thread[t].request
      /\ thread'[t] \in Local
  BY <1>2, <1>3, <1>4, OnwardIsPc DEF Local
<1>6. TypeOK'
  <2>1. thread' \in [Threads -> Local]
    BY <1>2, <1>4, <1>5
  <2>2. db' \in [Rows -> 0 .. MaxRequests]
    BY <1>2, <1>4, Typed DEF SrvInv
  <2>3. wrote' \in [Rows -> Seq(1 .. MaxRequests)]
    <3>1. \A k \in Rows : wrote[k] \in Seq(1 .. MaxRequests)
      BY Typed DEF SrvInv
    <3>2. \A k \in Rows : Append(wrote[k], n(t)) \in Seq(1 .. MaxRequests)
      BY <1>2, <3>1
    <3>3. QED
      BY <1>4, <3>1, <3>2
  <2>4. QED
    BY <1>4, <2>1, <2>2, <2>3, Typed DEF SrvInv, TypeOK, Local, Pcs, Told
<1>7. \A u \in Threads : /\ n(u)' = n(u)
                          /\ (At(u, "free")' <=> At(u, "free"))
                          /\ (At(u, "answer")' <=> At(u, "answer"))
  BY <1>1, <1>5, OnwardIsPc DEF n, At
<1>8. ThreadsOwn'
  <2>1. Requests' = Requests /\ answer' = answer
    BY <1>4 DEF Requests
  <2>2. (At(t, "execute"))' => thread'[t].left # <<>>
    BY <1>5 DEF At, Onward
  <2>3. \A u \in Threads \ {t} : At(u, "execute")' => thread'[u].left # <<>>
    BY <1>5 DEF At, SrvInv, ThreadsOwn
  <2>4. QED
    BY <1>7, <2>1, <2>2, <2>3 DEF SrvInv, ThreadsOwn
<1>9. \A i : (Standing(i)' => Standing(i)) /\ (Committed(i)' => Committed(i))
  BY <1>4, <1>7 DEF Standing, Committed
<1>10. ~Committed(n(t))
  <2>1. \A u \in Threads : At(u, "answer") => ~At(u, "free") /\ u # t
    BY <1>1 DEF At
  <2>2. \A u \in Threads : ~At(u, "free") /\ n(u) = n(t) => u = t
    BY <1>1 DEF SrvInv, ThreadsOwn
  <2>3. QED
    BY <1>2, <2>1, <2>2 DEF Committed
<1>11. ASSUME NEW k \in Rows
       PROVE  \/ /\ WroteTo(k)' = WroteTo(k) \cup {n(t)} /\ db'[k] = n(t)
                 /\ wrote'[k] = Append(wrote[k], n(t))
              \/ /\ WroteTo(k)' = WroteTo(k) /\ db'[k] = db[k] /\ wrote'[k] = wrote[k]
  <2>1. CASE k \in rows
    <3>1. db'[k] = n(t) /\ wrote'[k] = Append(wrote[k], n(t))
      BY <1>4, <2>1
    <3>2. wrote[k] \in Seq(1 .. MaxRequests) /\ n(t) \in 1 .. MaxRequests
      BY <1>2, Typed DEF SrvInv
    <3>3. /\ DOMAIN wrote'[k] = DOMAIN wrote[k] \cup {Len(wrote[k]) + 1}
          /\ \A j \in DOMAIN wrote[k] : wrote'[k][j] = wrote[k][j]
          /\ wrote'[k][Len(wrote[k]) + 1] = n(t)
      BY <3>1, <3>2
    <3>4. WroteTo(k)' = WroteTo(k) \cup {n(t)}
      BY <3>3 DEF WroteTo
    <3>5. QED
      BY <3>1, <3>4
  <2>2. CASE k \notin rows
    BY <1>4, <2>2 DEF WroteTo
  <2>3. QED
    BY <2>1, <2>2
<1>12. WritersKnown'
  BY <1>2, <1>4, <1>11 DEF SrvInv, WritersKnown, Requests
<1>13. WritesStand'
  <2>1. ASSUME ~poisoned', NEW k \in Rows, NEW i \in WroteTo(k)'
        PROVE  /\ Standing(i)' => NotAfter(wrote'[k], i, db'[k])
               /\ Committed(i)' => NotAfter(wrote'[k], i, disk'[k])
    <3>1. /\ ~poisoned /\ disk' = disk
          /\ wrote[k] \in Seq(1 .. MaxRequests) /\ n(t) \in 1 .. MaxRequests
      BY <2>1, <1>2, <1>4, Typed DEF SrvInv
    <3>2. CASE wrote'[k] = wrote[k] /\ WroteTo(k)' = WroteTo(k) /\ db'[k] = db[k]
      BY <2>1, <3>1, <3>2, <1>9 DEF SrvInv, WritesStand
    <3>3. CASE /\ WroteTo(k)' = WroteTo(k) \cup {n(t)} /\ db'[k] = n(t)
               /\ wrote'[k] = Append(wrote[k], n(t))
      <4>1. CASE i = n(t)
        BY <1>9, <1>10, <3>3, <4>1 DEF NotAfter
      <4>2. CASE i \in WroteTo(k) /\ i # n(t)
        <5>1. PICK j \in DOMAIN wrote[k] : wrote[k][j] = i
          BY <4>2 DEF WroteTo
        <5>2. NotAfter(wrote'[k], i, db'[k])
          BY <3>1, <3>3, <5>1, LastWriter
        <5>3. Committed(i)' => NotAfter(wrote[k], i, disk[k])
          BY <1>9, <3>1, <4>2 DEF SrvInv, WritesStand
        <5>4. QED
          BY <3>1, <3>3, <5>2, <5>3, NotAfterGrows
      <4>3. QED
        BY <2>1, <3>3, <4>1, <4>2
    <3>4. QED
      BY <1>11, <3>2, <3>3
  <2>2. QED
    BY <2>1 DEF WritesStand, NotAfter, Standing, Committed
<1>14. QED
  BY <1>4, <1>6, <1>8, <1>12, <1>13 DEF SrvInv

\* A restart forgets the open transaction and keeps what is on disk, which is
\* where the writes of the acknowledged requests stand.
LEMMA RestartInv ==
  ASSUME SrvInv, Restart
  PROVE  SrvInv'
<1>1. /\ answer \in Seq(Told)
      /\ answer' = [i \in Requests |-> IF answer[i] = "none" THEN "dropped" ELSE answer[i]]
      /\ db' = disk /\ disk' = disk /\ wrote' = wrote
      /\ aborted' = FALSE /\ poisoned' = poisoned /\ dialect' = dialect
      /\ failures' = failures + 1 /\ failures < MaxFailures
      /\ thread' = [t \in Threads |-> Free]
  BY Typed DEF SrvInv, Restart, Fail
<1>2. answer' \in Seq(Told) /\ Len(answer') = Len(answer)
  BY <1>1 DEF Requests, Told
<1>3. /\ Requests' = Requests
      /\ \A i \in Requests : answer'[i] = "ok" => answer[i] = "ok"
  BY <1>1, <1>2 DEF Requests
<1>4. \A t \in Threads : At(t, "free")'
  BY <1>1 DEF At, Free
<1>5. TypeOK'
  <2>1. thread' \in [Threads -> Local] /\ failures' \in 0 .. MaxFailures
    BY <1>1, FreeIsLocal, ServerAssumption, Typed DEF SrvInv
  <2>2. QED
    BY <1>1, <1>2, <2>1, Typed DEF SrvInv, TypeOK, Local, Pcs, Told
<1>6. ThreadsOwn'
  BY <1>4 DEF ThreadsOwn
<1>7. \A k \in Rows : WroteTo(k)' = WroteTo(k) /\ WroteTo(k) \subseteq Requests
  BY <1>1 DEF WroteTo, SrvInv, WritersKnown
<1>8. WritersKnown'
  BY <1>3, <1>7 DEF WritersKnown
<1>9. \A i \in Requests : (Standing(i)' => Committed(i)) /\ (Committed(i)' => Committed(i))
  BY <1>3, <1>4 DEF Standing, Committed, At
<1>10. WritesStand'
  BY <1>1, <1>7, <1>9 DEF SrvInv, WritesStand, NotAfter
<1>11. QED
  BY <1>1, <1>5, <1>6, <1>8, <1>10 DEF SrvInv

\* Stuttering changes nothing.
LEMMA StutterInv ==
  ASSUME SrvInv, UNCHANGED vars
  PROVE  SrvInv'
BY DEF SrvInv, vars, TypeOK, ThreadsOwn, WritersKnown, WritesStand, WroteTo, NotAfter,
       Standing, Committed, Requests, At, n

\* The ways in which a request ends.
LEMMA EndsInv ==
  ASSUME SrvInv, NEW t \in Threads,
         \/ Answer(t) \/ StatementIgnored(t) \/ StatementFails(t)
         \/ CommitBusy(t) \/ AnswerLost(t)
  PROVE  SrvInv'
<1>1. aborted \in BOOLEAN /\ poisoned \in BOOLEAN /\ failures \in 0 .. MaxFailures
      /\ (aborted => poisoned)
  BY Typed DEF SrvInv
<1>2. Fail => failures' \in 0 .. MaxFailures
  BY <1>1, ServerAssumption DEF Fail
<1>3. "ok" \in Told \ {"none"} /\ "dropped" \in Told \ {"none"}
  BY DEF Told
<1>4. CASE Answer(t)
  BY <1>1, <1>3, <1>4, EndInv DEF Answer, At
<1>5. CASE StatementIgnored(t)
  BY <1>1, <1>3, <1>5, EndInv DEF StatementIgnored, At
<1>6. CASE StatementFails(t)
  BY <1>1, <1>2, <1>3, <1>6, EndInv DEF StatementFails, At
<1>7. CASE CommitBusy(t)
  BY <1>1, <1>2, <1>3, <1>7, EndInv DEF CommitBusy, At
<1>8. CASE AnswerLost(t)
  BY <1>1, <1>2, <1>3, <1>8, EndInv DEF AnswerLost, At
<1>9. QED
  BY <1>4, <1>5, <1>6, <1>7, <1>8

LEMMA StepInv ==
  ASSUME SrvInv, [Next]_vars
  PROVE  SrvInv'
<1>1. ASSUME NEW t \in Threads, NEW q \in DOMAIN Routes, Receive(t, q)
      PROVE  SrvInv'
  BY <1>1, ReceiveInv
<1>2. ASSUME NEW t \in Threads, Read(t)
      PROVE  SrvInv'
  BY <1>2, StutterInv DEF Read
<1>3. ASSUME NEW t \in Threads, Step(t)
      PROVE  SrvInv'
  BY <1>3, CheckInv, ExecuteInv, CommitInv, EndsInv DEF Step
<1>4. ASSUME NEW t \in Threads, StatementFails(t) \/ CommitBusy(t) \/ AnswerLost(t)
      PROVE  SrvInv'
  BY <1>4, EndsInv
<1>5. CASE Restart
  BY <1>5, RestartInv
<1>6. CASE UNCHANGED vars
  BY <1>6, StutterInv
<1>7. QED
  BY <1>1, <1>2, <1>3, <1>4, <1>5, <1>6 DEF Next

-----------------------------------------------------------------------------
(* Theorems. *)

\* Each request in flight has one thread and is unanswered, and every row is
\* held by the last of its writers that matter, on the connection and on disk.
THEOREM SrvInductive == Spec => []SrvInv
<1>1. Init => SrvInv
  BY InitInv
<1>2. SrvInv /\ [Next]_vars => SrvInv'
  BY StepInv
<1>3. QED
  BY <1>1, <1>2, PTL DEF Spec

\* The server's state keeps its shape: every answer is one of the answers a
\* client can be told, every row is written by a request.
THEOREM SrvTypeCorrect == Spec => []TypeOK
<1>1. SrvInv => TypeOK
  BY DEF SrvInv
<1>2. QED
  BY <1>1, SrvInductive, PTL

\* A write that a client was told is done is on disk, or overwritten there by
\* a later one (Store: each method commits before it returns).
THEOREM AckedWritesAreDurable == Spec => []AckedIsDurable
<1>1. SrvInv => AckedIsDurable
  BY DEF SrvInv, WritesStand, Committed, AckedIsDurable
<1>2. QED
  BY <1>1, SrvInductive, PTL
=============================================================================
