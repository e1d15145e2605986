------------------------- MODULE ActivationTurnProofs -------------------------
(***************************************************************************)
(* The activation blob, for any number of turns and any order in which the *)
(* prefetch tasks write: the compare-and-set keeps newer updates           *)
(* (NeverClobbered), and the blob the next turn builds on holds together   *)
(* and serves what was folded in (ActivationSound).                        *)
(***************************************************************************)
EXTENDS ActivationTurn, SequenceTheorems, FiniteSetTheorems, WellFoundedInduction, TLAPS

\* A value with the fields of an activation, and one with those of a turn.
IsActivation(act) ==
  /\ act = [ts |-> act.ts, topic |-> act.topic, merged |-> act.merged,
            recent |-> act.recent, count |-> act.count, archived |-> act.archived]
  /\ act.ts \in Nat

IsWork(c) ==
  /\ c = [state |-> c.state, emb |-> c.emb, topic |-> c.topic, act |-> c.act, l3 |-> c.l3]
  /\ IsActivation(c.act)

\* Times are turn numbers, and an update that landed is as old as the blob or
\* older.
TimesInv ==
  /\ IsActivation(stored) /\ IsWork(cur)
  /\ bg \in [Turn -> {"none", "pending", "done", "lost"}]
  /\ DOMAIN job = Turn /\ job = [t \in Turn |-> job[t]]
  /\ NeverClobbered

\* Whatever is written, the stored time does not decrease, and it is at least
\* that of the write.
LEMMA CompareAndSetGrows ==
  ASSUME NEW act, IsActivation(act), IsActivation(stored)
  PROVE  /\ IsActivation(CompareAndSet(act))
         /\ CompareAndSet(act).ts >= stored.ts
         /\ CompareAndSet(act).ts >= act.ts
  BY DEF CompareAndSet, IsActivation

\* A turn that leaves its task behind has no update that landed.
LEMMA SpawnKeeps ==
  ASSUME TimesInv, NEW c, Spawn(c), IsActivation(stored)',
         stored'.ts >= stored.ts, UNCHANGED cur
  PROVE  TimesInv'
<1>1. \A t \in Turn : bg'[t] = "done" => bg[t] = "done" /\ job'[t] = job[t]
  BY DEF Spawn, TimesInv
<1>2. /\ bg' \in [Turn -> {"none", "pending", "done", "lost"}]
      /\ DOMAIN job' = Turn /\ job' = [t \in Turn |-> job'[t]]
  BY DEF Spawn, TimesInv
<1>3. NeverClobbered'
  <2> SUFFICES ASSUME NEW t \in Turn, bg'[t] = "done", job'[t].emb
               PROVE  stored'.ts >= t
    BY DEF NeverClobbered
  <2>1. stored.ts >= t
    BY <1>1 DEF TimesInv, NeverClobbered
  <2>2. QED
    BY <2>1 DEF TimesInv, IsActivation, Turn
<1>4. QED
  BY <1>2, <1>3 DEF TimesInv

\* Every action keeps the times in order.
LEMMA StepTimes == TimesInv /\ [Next]_vars => TimesInv'
<1> SUFFICES ASSUME TimesInv, [Next]_vars PROVE TimesInv'
  OBVIOUS
<1>1. ASSUME UNCHANGED <<stored, job, bg>>, IsWork(cur)' PROVE TimesInv'
  BY <1>1 DEF TimesInv, NeverClobbered, IsActivation
<1>2. CASE Begin
  <2>1. IsWork(cur)'
    BY <1>2 DEF Begin, TimesInv, IsWork, IsActivation
  <2>2. QED
    BY <1>1, <1>2, <2>1 DEF Begin
<1>3. CASE Search
  <2>1. IsWork(cur)'
    BY <1>3 DEF Search, TimesInv, IsWork, IsActivation
  <2>2. QED
    BY <1>1, <1>3, <2>1 DEF Search
<1>4. CASE ReplyPlain
  <2>1. IsActivation(stored)' /\ stored'.ts >= stored.ts /\ UNCHANGED cur /\ Spawn(cur)
    BY <1>4 DEF ReplyPlain, TimesInv, IsActivation
  <2>2. QED
    BY <2>1, SpawnKeeps
<1>5. CASE ReplyEnriching
  BY <1>1, <1>5 DEF ReplyEnriching, TimesInv, IsWork, IsActivation
<1>6. CASE RefreshSearch
  <2>1. IsWork(cur)'
    BY <1>6 DEF RefreshSearch, TimesInv, IsWork, IsActivation
  <2>2. QED
    BY <1>1, <1>6, <2>1 DEF RefreshSearch
<1>7. CASE RefreshWrite
  <2>1. IsActivation(stored)' /\ stored'.ts >= stored.ts
    BY <1>7, CompareAndSetGrows DEF RefreshWrite, TimesInv, IsWork
  <2>2. UNCHANGED cur /\ Spawn(cur)
    BY <1>7 DEF RefreshWrite
  <2>3. QED
    BY <2>1, <2>2, SpawnKeeps
<1>8. CASE TurnFails
  BY <1>1, <1>8 DEF TurnFails, TimesInv, IsWork, IsActivation
<1>9. ASSUME NEW t \in Turn, Persist(t) PROVE TimesInv'
  <2>1. Updated(t, job[t]).ts = t /\ t \in Nat /\ IsActivation(Updated(t, job[t]))
    BY DEF Updated, Turn, IsActivation
  <2>2. /\ IsActivation(stored)' /\ stored'.ts >= stored.ts
        /\ job[t].emb => stored'.ts >= t
    <3>1. CASE job[t].emb
      BY <1>9, <2>1, <3>1, CompareAndSetGrows DEF Persist, TimesInv
    <3>2. CASE ~job[t].emb
      BY <1>9, <3>2 DEF Persist, TimesInv, IsActivation
    <3>3. QED
      BY <3>1, <3>2
  <2>3. /\ UNCHANGED <<job, cur>> /\ bg' \in [Turn -> {"none", "pending", "done", "lost"}]
        /\ \A s \in Turn : s # t => bg'[s] = bg[s]
    BY <1>9 DEF Persist, TimesInv
  <2>4. ASSUME NEW s \in Turn, bg'[s] = "done", job[s].emb PROVE stored'.ts >= s
    <3>1. CASE s = t
      BY <2>2, <2>4, <3>1
    <3>2. CASE s # t
      <4>1. stored.ts >= s
        BY <2>3, <2>4, <3>2 DEF TimesInv, NeverClobbered
      <4>2. QED
        BY <2>2, <4>1 DEF TimesInv, IsActivation, Turn
    <3>3. QED
      BY <3>1, <3>2
  <2>5. QED
    BY <2>2, <2>3, <2>4 DEF TimesInv, NeverClobbered
<1>10. ASSUME NEW t \in Turn, PersistFails(t) PROVE TimesInv'
  BY <1>10 DEF PersistFails, TimesInv, NeverClobbered
<1>11. CASE UNCHANGED vars
  BY <1>1, <1>11 DEF vars, TimesInv
<1>12. QED
  BY <1>2, <1>3, <1>4, <1>5, <1>6, <1>7, <1>8, <1>9, <1>10, <1>11 DEF Next, Quiescent

\* An update of the activation that landed is never undone by an older one,
\* however late the prefetch task or the refresh of the older turn writes.
THEOREM LateWritesLose == Spec => []NeverClobbered
<1>1. Init => TimesInv
  BY DEF Init, TimesInv, NeverClobbered, NoActivation, Cold, IsWork, IsActivation
<1>2. TimesInv => NeverClobbered
  BY DEF TimesInv
<1>3. QED
  BY <1>1, <1>2, StepTimes, PTL DEF Spec

-----------------------------------------------------------------------------

Distinct(s) == \A i, j \in 1 .. Len(s) : s[i] = s[j] => i = j

FiledBefore(t, topic) == {s \in 1 .. t - 1 : filed[s] = topic}

ReadOK(act, t) ==
  /\ act \in Activation /\ Distinct(act.archived)
  /\ Exists(act) =>
       /\ act.ts < t /\ act.topic \in Turn /\ act.recent # <<>> /\ Last(act.recent) = act.ts
       /\ filed[act.ts] = act.topic /\ act.count <= Cardinality(FiledBefore(t, act.topic))
       /\ bg[act.ts] = "done" /\ job[act.ts].emb

WorkOK(c, t) ==
  /\ c \in Work /\ c.topic \in Turn /\ ReadOK(c.act, t) /\ c.act.ts <= stored.ts
  /\ c.state # "cold" => Exists(c.act) /\ c.emb /\ c.topic = c.act.topic

PlaceInv ==
  /\ turn \in 0 .. MaxTurns /\ pc \in {"idle", "search", "llm", "refresh", "fold"}
  /\ facts \subseteq Turn /\ folded \subseteq Turn
  /\ cur \in Work /\ job \in [Turn -> Work]
  /\ bg \in [Turn -> {"none", "pending", "done", "lost"}] /\ filed \in [Turn -> 0 .. MaxTurns]
  /\ \A t \in Turn : t > turn => filed[t] = 0 /\ bg[t] = "none"
  /\ pc # "idle" => turn \in Turn /\ bg[turn] = "none"
  /\ pc \in {"search", "llm"} => filed[turn] = 0
  /\ pc = "search" => cur.state # "warm"
  /\ pc \in {"refresh", "fold"} => filed[turn] = cur.topic /\ turn \in facts /\ Exists(cur.act)
  /\ pc = "fold" => turn \in cur.act.merged

BlobsInv ==
  /\ ReadOK(stored, turn + 1)
  /\ pc # "idle" => WorkOK(cur, turn)
  /\ \A t \in Turn : bg[t] # "none" => WorkOK(job[t], t) /\ filed[t] = job[t].topic

Calm(t) == \A s \in 1 .. t - 1 : bg[s] = "done" /\ job[s].emb => job[t].act.ts >= s

FoldsInv ==
  \A t \in folded :
    /\ bg[t] # "none" /\ t \in job[t].act.merged
    /\ job[t].state = "warm" /\ Calm(t) =>
         /\ turn = t => t \in stored.merged
         /\ turn = t + 1 /\ pc # "idle" /\ cur.state = "warm" => t \in cur.l3

BlobInv == PlaceInv /\ BlobsInv /\ FoldsInv

LEMMA SiftedBuilds ==
  ASSUME NEW S, NEW s \in Seq(S), NEW x
  PROVE  \A n \in 0 .. Len(s) : Sifted(s, x)[n] =
           IF n = 0 THEN <<>> ELSE IF s[n] = x THEN Sifted(s, x)[n - 1] ELSE Append(Sifted(s, x)[n - 1], s[n])
<1>. DEFINE N == Len(s)
            Builds(g, n) == \A k \in 0 .. n : g[k] = IF k = 0 THEN <<>> ELSE IF s[k] = x THEN g[k - 1] ELSE Append(g[k - 1], s[k])
            bad == {n \in 0 .. N : ~\E g : Builds(g, n)}
<1>0. N \in Nat
  OBVIOUS
<1>. HIDE DEF N
<1>1. bad = {}
  <2>. SUFFICES ASSUME bad # {} PROVE FALSE
    OBVIOUS
  <2>1. bad \subseteq Nat
    BY <1>0
  <2>2. PICK n \in bad : \A m \in bad : <<m, n>> \notin OpToRel(<, Nat)
    BY <2>1, NatLessThanWellFounded, WFMin
  <2>3. n # 0
    <3>1. Builds([k \in 0 .. 0 |-> <<>>], 0)
      OBVIOUS
    <3>. QED
      BY <2>2, <3>1
  <2>4. n \in 0 .. N /\ n \in Nat /\ n - 1 \in 0 .. N /\ n - 1 \in Nat /\ n - 1 < n
    <3>1. n \in 0 .. N
      BY <2>2
    <3>. QED
      BY <1>0, <2>3, <3>1
  <2>5. n - 1 \notin bad
    BY <2>2, <2>4 DEF OpToRel
  <2>6. PICK g : Builds(g, n - 1)
    BY <2>4, <2>5
  <2>. DEFINE h == [k \in 0 .. n |-> IF k = n THEN IF s[n] = x THEN g[n - 1] ELSE Append(g[n - 1], s[n]) ELSE g[k]]
  <2>7. Builds(h, n)
    BY <2>3, <2>4, <2>6
  <2>. QED
    BY <2>2, <2>7
<1>2. N \in 0 .. N
  BY <1>0
<1>3. PICK g : Builds(g, N)
  BY <1>1, <1>2
<1>. DEFINE h == [n \in 0 .. N |-> g[n]]
<1>4. h = [n \in 0 .. N |-> IF n = 0 THEN <<>> ELSE IF s[n] = x THEN h[n - 1] ELSE Append(h[n - 1], s[n])]
  BY <1>0, <1>3
<1>. HIDE DEF h
<1>5. Sifted(s, x) = [n \in 0 .. N |-> IF n = 0 THEN <<>> ELSE IF s[n] = x THEN Sifted(s, x)[n - 1] ELSE Append(Sifted(s, x)[n - 1], s[n])]
  BY <1>4 DEF Sifted, N
<1>. QED
  BY <1>5 DEF N

LEMMA SiftedKeeps ==
  ASSUME NEW S, NEW s \in Seq(S), NEW x, Distinct(s)
  PROVE  LET r == Sifted(s, x)[Len(s)]
         IN  r \in Seq(S) /\ Distinct(r) /\ \A i \in 1 .. Len(r) : r[i] # x
<1>. DEFINE N == Len(s)
            f == Sifted(s, x)
            From(r, n) == \A i \in 1 .. Len(r) : r[i] # x /\ \E k \in 1 .. n : r[i] = s[k]
            Good(n) == f[n] \in Seq(S) /\ Distinct(f[n]) /\ From(f[n], n)
            bad == {n \in 0 .. N : ~Good(n)}
<1>0. N \in Nat /\ \A n \in 1 .. N : s[n] \in S
  BY ElementOfSeq
<1>1. \A n \in 0 .. N : f[n] = IF n = 0 THEN <<>> ELSE IF s[n] = x THEN f[n - 1] ELSE Append(f[n - 1], s[n])
  BY SiftedBuilds
<1>2. \A i, j \in 1 .. N : s[i] = s[j] => i = j
  BY DEF Distinct
<1>. HIDE DEF N, f
<1>3. bad = {}
  <2>. SUFFICES ASSUME bad # {} PROVE FALSE
    OBVIOUS
  <2>1. bad \subseteq Nat
    BY <1>0
  <2>2. PICK n \in bad : \A m \in bad : <<m, n>> \notin OpToRel(<, Nat)
    BY <2>1, NatLessThanWellFounded, WFMin
  <2>3. n # 0
    <3>1. f[0] = <<>>
      BY <1>0, <1>1
    <3>2. Good(0)
      BY <3>1, EmptySeq DEF Distinct
    <3>. QED
      BY <2>2, <3>2
  <2>4. n \in 1 .. N /\ n \in Nat /\ n - 1 \in 0 .. N /\ n - 1 \in Nat /\ n - 1 < n
    <3>1. n \in 0 .. N
      BY <2>2
    <3>. QED
      BY <1>0, <2>3, <3>1
  <2>5. n - 1 \notin bad
    BY <2>2, <2>4 DEF OpToRel
  <2>6. Good(n - 1)
    BY <2>4, <2>5
  <2>. DEFINE r == f[n - 1]
  <2>7. r \in Seq(S) /\ Distinct(r) /\ Len(r) \in Nat /\ \A i \in 1 .. Len(r) : r[i] # x /\ \E k \in 1 .. n - 1 : r[i] = s[k]
    BY <2>6
  <2>8. f[n] = IF s[n] = x THEN r ELSE Append(r, s[n])
    BY <1>1, <2>3, <2>4
  <2>. HIDE DEF r
  <2>9. From(r, n)
    BY <2>4, <2>7
  <2>10. CASE s[n] = x
    BY <2>2, <2>7, <2>8, <2>9, <2>10
  <2>11. CASE s[n] # x
    <3>. DEFINE q == Append(r, s[n])
    <3>1. s[n] \in S /\ q \in Seq(S) /\ Len(q) = Len(r) + 1 /\ q[Len(r) + 1] = s[n] /\ \A i \in 1 .. Len(r) : q[i] = r[i]
      BY <1>0, <2>4, <2>7
    <3>2. \A i \in 1 .. Len(r) : r[i] # s[n]
      <4>. SUFFICES ASSUME NEW i \in 1 .. Len(r), r[i] = s[n] PROVE FALSE
        OBVIOUS
      <4>1. PICK k \in 1 .. n - 1 : r[i] = s[k]
        BY <2>7
      <4>2. k \in 1 .. N /\ k # n
        BY <1>0, <2>4
      <4>. QED
        BY <1>2, <2>4, <4>1, <4>2
    <3>. HIDE DEF q
    <3>3. \A i \in 1 .. Len(q) : i \in 1 .. Len(r) \/ i = Len(r) + 1
      BY <2>7, <3>1
    <3>4. Distinct(q)
      BY <2>7, <3>1, <3>2, <3>3, SMTT(20) DEF Distinct
    <3>5. From(q, n)
      <4>1. n \in 1 .. n
        BY <2>4
      <4>. QED
        BY <2>9, <2>11, <3>1, <3>3, <4>1
    <3>. QED
      BY <2>2, <2>8, <2>11, <3>1, <3>4, <3>5 DEF q
  <2>. QED
    BY <2>10, <2>11
<1>4. Good(N)
  BY <1>0, <1>3
<1>. QED
  BY <1>4 DEF N, f

LEMMA NewestKeeps ==
  ASSUME NEW S, NEW s \in Seq(S), s # <<>>, NEW n \in Nat \ {0}
  PROVE  /\ Newest(s, n) \in Seq(S) /\ Newest(s, n) # <<>> /\ Last(Newest(s, n)) = Last(s)
         /\ Distinct(s) => Distinct(Newest(s, n))
<1>. DEFINE N == Len(s)
            q == SubSeq(s, N - n + 1, N)
<1>0. N \in Nat /\ N # 0 /\ \A i \in 1 .. N : s[i] \in S
  BY ElementOfSeq
<1>. HIDE DEF N
<1>1. CASE N > n
  <2>1. N - n + 1 \in Int /\ N \in Int /\ \A i \in N - n + 1 .. N : i \in 1 .. N
    BY <1>0, <1>1
  <2>2. \A i \in N - n + 1 .. N : s[i] \in S
    BY <1>0, <2>1
  <2>3. q \in Seq(S) /\ Len(q) = (IF N - n + 1 <= N THEN N - (N - n + 1) + 1 ELSE 0) /\ \A i \in 1 .. N - (N - n + 1) + 1 : q[i] = s[(N - n + 1) + i - 1]
    BY <2>1, <2>2, SubSeqProperties
  <2>4. q \in Seq(S) /\ Len(q) = n /\ \A i \in 1 .. n : q[i] = s[(N - n) + i]
    BY <1>0, <2>3
  <2>. HIDE DEF q
  <2>5. q[n] = s[N] /\ q # <<>>
    BY <1>0, <2>4
  <2>6. Newest(s, n) = q /\ Last(q) = Last(s)
    BY <1>1, <2>4, <2>5 DEF Newest, Last, N, q
  <2>7. ASSUME Distinct(s) PROVE Distinct(q)
    <3>1. \A i \in 1 .. n : (N - n) + i \in 1 .. N
      BY <1>0, <1>1
    <3>2. \A i, j \in 1 .. n : (N - n) + i = (N - n) + j => i = j
      BY <1>0
    <3>3. \A i, j \in 1 .. N : s[i] = s[j] => i = j
      BY <2>7 DEF Distinct, N
    <3>4. \A i, j \in 1 .. n : q[i] = q[j] => i = j
      BY <2>4, <3>1, <3>2, <3>3
    <3>. QED
      BY <2>4, <3>4 DEF Distinct
  <2>. QED
    BY <2>4, <2>5, <2>6, <2>7
<1>2. CASE ~(N > n)
  BY <1>2 DEF Newest, N
<1>. QED
  BY <1>1, <1>2

Grows ==
  /\ turn \in Nat /\ turn' \in Nat /\ turn <= turn' /\ filed' \in [Turn -> 0 .. MaxTurns]
  /\ \A s \in Turn : filed[s] # 0 => filed'[s] = filed[s]
  /\ \A s \in Turn : bg[s] # "none" => bg'[s] # "none" /\ job'[s] = job[s]
  /\ \A s \in Turn : bg[s] = "done" => bg'[s] = "done"

LEMMA SpawnGrows ==
  ASSUME PlaceInv, pc # "idle", NEW c, Spawn(c)
  PROVE  /\ \A s \in Turn : bg[s] # "none" => bg'[s] = bg[s] /\ job'[s] = job[s]
         /\ job'[turn] = c /\ bg'[turn] = "pending" /\ \A s \in Turn : s # turn => bg'[s] = bg[s] /\ job'[s] = job[s]
         /\ bg' \in [Turn -> {"none", "pending", "done", "lost"}] /\ (c \in Work => job' \in [Turn -> Work])
  BY DEF PlaceInv, Spawn

LEMMA FilesTurn ==
  ASSUME PlaceInv, pc = "llm", NEW topic \in 0 .. MaxTurns, filed' = [filed EXCEPT ![turn] = topic]
  PROVE  /\ filed' \in [Turn -> 0 .. MaxTurns] /\ filed'[turn] = topic
         /\ \A s \in Turn : filed[s] # 0 => filed'[s] = filed[s]
         /\ \A s \in Turn : s # turn => filed'[s] = filed[s]
  BY DEF PlaceInv

LEMMA StepGrows == PlaceInv /\ [Next]_vars => Grows
<1>. SUFFICES ASSUME PlaceInv, [Next]_vars PROVE Grows
  OBVIOUS
<1>. USE DEF Grows
<1>0. turn \in Nat /\ filed \in [Turn -> 0 .. MaxTurns]
  BY TurnsAssumption DEF PlaceInv
<1>1. CASE Begin
  BY <1>0, <1>1 DEF Begin
<1>2. CASE Search \/ RefreshSearch \/ TurnFails \/ UNCHANGED vars
  BY <1>0, <1>2 DEF Search, RefreshSearch, TurnFails, vars
<1>3. CASE ReplyPlain
  <2>1. cur.topic \in 0 .. MaxTurns
    BY DEF PlaceInv, Work
  <2>2. pc = "llm" /\ filed' = [filed EXCEPT ![turn] = cur.topic] /\ UNCHANGED turn /\ Spawn(cur)
    BY <1>3 DEF ReplyPlain
  <2>3. filed' \in [Turn -> 0 .. MaxTurns] /\ \A s \in Turn : filed[s] # 0 => filed'[s] = filed[s]
    BY <2>1, <2>2, FilesTurn
  <2>4. \A s \in Turn : bg[s] # "none" => bg'[s] = bg[s] /\ job'[s] = job[s]
    BY <2>2, SpawnGrows
  <2>. QED
    BY <1>0, <2>2, <2>3, <2>4
<1>4. CASE ReplyEnriching
  <2>1. cur.topic \in 0 .. MaxTurns
    BY DEF PlaceInv, Work
  <2>2. pc = "llm" /\ filed' = [filed EXCEPT ![turn] = cur.topic] /\ UNCHANGED turn /\ UNCHANGED <<bg, job>>
    BY <1>4 DEF ReplyEnriching
  <2>3. filed' \in [Turn -> 0 .. MaxTurns] /\ \A s \in Turn : filed[s] # 0 => filed'[s] = filed[s]
    BY <2>1, <2>2, FilesTurn
  <2>4. \A s \in Turn : bg[s] # "none" => bg'[s] = bg[s] /\ job'[s] = job[s]
    BY <2>2
  <2>. QED
    BY <1>0, <2>2, <2>3, <2>4
<1>5. CASE RefreshWrite
  BY <1>0, <1>5, SpawnGrows DEF RefreshWrite
<1>6. ASSUME NEW t \in Turn, Persist(t) \/ PersistFails(t) PROVE Grows
  BY <1>0, <1>6 DEF Persist, PersistFails, PlaceInv
<1>. QED
  BY <1>1, <1>2, <1>3, <1>4, <1>5, <1>6 DEF Next, Quiescent

LEMMA ReadStays ==
  ASSUME Grows, filed \in [Turn -> 0 .. MaxTurns],
         NEW act, NEW t \in Nat, NEW u \in Nat, t <= u, t <= MaxTurns + 1, ReadOK(act, t)
  PROVE  ReadOK(act, u)'
<1>. USE DEF ReadOK
<1>1. CASE ~Exists(act)
  BY <1>1 DEF Exists
<1>2. CASE Exists(act)
  <2>0. act.ts \in 0 .. MaxTurns /\ act.count \in 0 .. MaxTurns /\ act.topic \in Turn /\ act.ts # 0 /\ act.ts < t
    BY <1>2 DEF Exists, Activation
  <2>1. act.ts \in Turn /\ act.topic \in Turn /\ act.count \in Nat /\ act.ts < u
    BY <2>0, TurnsAssumption DEF Turn
  <2>2. filed'[act.ts] = act.topic /\ bg'[act.ts] = "done" /\ job'[act.ts].emb
    BY <1>2, <2>1 DEF Grows, Turn
  <2>3. FiledBefore(t, act.topic) \subseteq FiledBefore(u, act.topic)'
    <3>1. \A s \in 1 .. t - 1 : s \in Turn /\ s \in 1 .. u - 1
      BY TurnsAssumption DEF Turn
    <3>2. act.topic # 0
      BY <2>1 DEF Turn
    <3>. QED
      BY <3>1, <3>2 DEF FiledBefore, Grows
  <2>4. act.count <= Cardinality(FiledBefore(u, act.topic)')
    <3>0. 1 \in Int /\ u - 1 \in Int /\ t - 1 \in Int
      OBVIOUS
    <3>1. IsFiniteSet(1 .. u - 1) /\ IsFiniteSet(1 .. t - 1)
      BY <3>0, FS_Interval
    <3>2. IsFiniteSet(FiledBefore(u, act.topic)') /\ IsFiniteSet(FiledBefore(t, act.topic))
      BY <3>1, FS_Subset DEF FiledBefore
    <3>3. Cardinality(FiledBefore(t, act.topic)) <= Cardinality(FiledBefore(u, act.topic)')
      BY <2>3, <3>2, FS_Subset
    <3>4. Cardinality(FiledBefore(t, act.topic)) \in Nat /\ Cardinality(FiledBefore(u, act.topic)') \in Nat
      BY <3>2, FS_CardinalityType
    <3>. QED
      BY <1>2, <2>1, <3>3, <3>4
  <2>. QED
    BY <1>2, <2>1, <2>2, <2>4
<1>. QED
  BY <1>1, <1>2

LEMMA UpdateIsRead ==
  ASSUME Grows, PlaceInv, NEW t \in Turn, NEW j, WorkOK(j, t), filed[t] = j.topic, filed'[t] = j.topic,
         bg'[t] = "done", job'[t].emb, NEW u \in Nat, t < u, u <= MaxTurns + 1
  PROVE  ReadOK(Updated(t, j), u)'
<1>. DEFINE act == Updated(t, j)
            topic == j.topic
<1>1. /\ act.ts = t /\ act.topic = topic /\ act.recent = TrimRecent(j.act.recent, t)
      /\ act.count = NewCount(j) /\ act.archived = NewArchive(j)
      /\ act.merged = IF j.state = "warm" THEN j.act.merged ELSE j.l3
  BY DEF Updated
<1>2. /\ j \in Work /\ topic \in Turn /\ ReadOK(j.act, t) /\ j.act \in Activation /\ Distinct(j.act.archived)
      /\ j.state # "cold" => Exists(j.act) /\ topic = j.act.topic
  BY DEF WorkOK, ReadOK
<1>3. t \in Nat /\ t - 1 \in Int /\ u - 1 \in Int /\ t \in 1 .. u - 1 /\ MaxTurns \in Nat /\ topic # 0
  BY <1>2, TurnsAssumption DEF Turn
<1>4. act.recent \in Seq(Turn) /\ act.recent # <<>> /\ Last(act.recent) = t
  <2>. DEFINE s == Append(j.act.recent, t)
  <2>1. j.act.recent \in Seq(Turn)
    BY <1>2 DEF Activation
  <2>2. s \in Seq(Turn) /\ s # <<>> /\ Last(s) = t
    BY <2>1 DEF Last
  <2>. HIDE DEF s
  <2>3. act.recent = Newest(s, Window)
    BY <1>1 DEF TrimRecent, s
  <2>. HIDE DEF act
  <2>. QED
    BY <2>2, <2>3, NewestKeeps, WindowAssumption
<1>5. act.archived \in Seq(Turn) /\ Distinct(act.archived)
  <2>0. j.act.archived \in Seq(Turn)
    BY <1>2 DEF Activation
  <2>1. CASE j.state = "cold" /\ Exists(j.act)
    <3>. DEFINE r == Sifted(j.act.archived, j.act.topic)[Len(j.act.archived)]
                s == Append(r, j.act.topic)
    <3>1. j.act.topic \in Turn
      BY <1>2, <2>1 DEF ReadOK
    <3>2. r \in Seq(Turn) /\ Distinct(r) /\ \A i \in 1 .. Len(r) : r[i] # j.act.topic
      BY <1>2, <2>0, SiftedKeeps
    <3>. HIDE DEF r
    <3>3. s \in Seq(Turn) /\ s # <<>> /\ Len(s) = Len(r) + 1 /\ s[Len(r) + 1] = j.act.topic /\ (\A i \in 1 .. Len(r) : s[i] = r[i])
          /\ Len(r) \in Nat
      BY <3>1, <3>2, AppendProperties
    <3>. HIDE DEF s
    <3>4. \A i \in 1 .. Len(s) : i \in 1 .. Len(r) \/ i = Len(r) + 1
      BY <3>3
    <3>5. Distinct(s)
      BY <3>2, <3>3, <3>4 DEF Distinct
    <3>6. act.archived = Newest(s, ArchiveMax)
      BY <1>1, <2>1 DEF NewArchive, ArchiveTopic, s, r
    <3>. QED
      BY <3>3, <3>5, <3>6, NewestKeeps, ArchiveAssumption
  <2>2. CASE ~(j.state = "cold" /\ Exists(j.act))
    BY <1>1, <1>2, <2>0, <2>2 DEF NewArchive
  <2>. QED
    BY <2>1, <2>2
<1>. DEFINE before == FiledBefore(t, topic)
            after == FiledBefore(u, topic)'
<1>6. IsFiniteSet(after) /\ IsFiniteSet(before) /\ Cardinality(after) \in Nat /\ Cardinality(before) \in Nat
  <2>1. IsFiniteSet(1 .. t - 1) /\ IsFiniteSet(1 .. u - 1)
    BY <1>3, FS_Interval
  <2>2. after \subseteq 1 .. u - 1 /\ before \subseteq 1 .. t - 1
    BY DEF FiledBefore
  <2>3. IsFiniteSet(after) /\ IsFiniteSet(before)
    BY <2>1, <2>2, FS_Subset
  <2>. QED
    BY <2>3, FS_CardinalityType
<1>7. Cardinality(before) + 1 <= Cardinality(after)
  <2>1. \A s \in 1 .. t - 1 : s \in Turn /\ s \in 1 .. u - 1
    BY <1>3 DEF Turn
  <2>2. before \subseteq after
    <3>1. \A s \in Turn : filed[s] = topic => filed'[s] = topic
      BY <1>3 DEF Grows
    <3>. QED
      BY <2>1, <3>1 DEF FiledBefore
  <2>3. t \in after /\ t \notin before
    BY <1>3 DEF FiledBefore
  <2>4. Cardinality(before \cup {t}) = Cardinality(before) + 1 /\ IsFiniteSet(before \cup {t})
    BY <1>6, <2>3, FS_AddElement
  <2>5. before \cup {t} \subseteq after
    BY <2>2, <2>3
  <2>. QED
    BY <1>6, <2>4, <2>5, FS_Subset
<1>. HIDE DEF before, after
<1>8. act.count \in Nat /\ act.count <= Cardinality(after)
  <2>1. CASE j.state = "cold"
    BY <1>1, <1>6, <1>7, <2>1 DEF NewCount
  <2>2. CASE j.state # "cold"
    <3>1. j.act.count \in Nat /\ j.act.count <= Cardinality(before)
      BY <1>2, <2>2 DEF ReadOK, Activation, before
    <3>. QED
      BY <1>1, <1>6, <1>7, <2>2, <3>1 DEF NewCount
  <2>. QED
    BY <2>1, <2>2
<1>9. act.count \in 0 .. MaxTurns
  <2>1. \A s \in 1 .. u - 1 : s \in Turn
    BY <1>3 DEF Turn
  <2>2. after \subseteq Turn
    BY <2>1 DEF after, FiledBefore
  <2>3. IsFiniteSet(Turn) /\ Cardinality(Turn) <= MaxTurns
    <3>1. 1 \in Int /\ MaxTurns \in Int
      BY <1>3
    <3>2. IsFiniteSet(1 .. MaxTurns) /\ Cardinality(1 .. MaxTurns) = IF 1 > MaxTurns THEN 0 ELSE MaxTurns - 1 + 1
      BY <3>1, FS_Interval
    <3>. QED
      BY <1>3, <3>2 DEF Turn
  <2>4. Cardinality(after) <= Cardinality(Turn) /\ Cardinality(Turn) \in Nat
    BY <2>2, <2>3, FS_Subset, FS_CardinalityType
  <2>. QED
    BY <1>3, <1>6, <1>8, <2>3, <2>4
<1>10. act \in Activation
  <2>1. act.merged \subseteq Turn
    BY <1>1, <1>2 DEF Work, Activation
  <2>2. act = [ts |-> act.ts, topic |-> act.topic, merged |-> act.merged, recent |-> act.recent, count |-> act.count, archived |-> act.archived]
    BY DEF Updated
  <2>3. act.ts \in 0 .. MaxTurns /\ act.topic \in 0 .. MaxTurns
    BY <1>1, <1>2 DEF Turn
  <2>. HIDE DEF act
  <2>. QED
    BY <1>4, <1>5, <1>9, <2>1, <2>2, <2>3 DEF Activation
<1>. QED
  BY <1>1, <1>2, <1>3, <1>4, <1>5, <1>8, <1>10 DEF ReadOK, after

LEMMA TopicsAreTurns ==
  ASSUME NEW act \in Activation
  PROVE  Topics(act) \subseteq Turn
<1>1. act.archived \in Seq(Turn)
  BY DEF Activation
<1>. QED
  BY <1>1 DEF Topics, ToSet

LEMMA PlaceStep == PlaceInv /\ BlobsInv /\ [Next]_vars => PlaceInv'
<1>. SUFFICES ASSUME PlaceInv, BlobsInv, [Next]_vars PROVE PlaceInv'
  OBVIOUS
<1>0. /\ MaxTurns \in Nat /\ stored \in Activation /\ stored.merged \subseteq Turn /\ cur \in Work /\ cur.topic \in 0 .. MaxTurns
      /\ cur.act \in Activation
  BY TurnsAssumption DEF BlobsInv, ReadOK, PlaceInv, Work, Activation
<1>1. CASE Begin
  <2>1. PICK emb \in BOOLEAN : \E state \in States(emb) : \E topic \in TopicsOf(emb, state) :
       /\ cur' = [state |-> state, emb |-> emb, topic |-> topic, act |-> stored,
                  l3 |-> IF state = "warm" THEN stored.merged ELSE {}]
       /\ pc' = IF state = "warm" THEN "llm" ELSE "search"
    BY <1>1 DEF Begin
  <2>2. PICK state \in States(emb) : \E topic \in TopicsOf(emb, state) :
       /\ cur' = [state |-> state, emb |-> emb, topic |-> topic, act |-> stored,
                  l3 |-> IF state = "warm" THEN stored.merged ELSE {}]
       /\ pc' = IF state = "warm" THEN "llm" ELSE "search"
    BY <2>1
  <2>3. PICK topic \in TopicsOf(emb, state) :
       /\ cur' = [state |-> state, emb |-> emb, topic |-> topic, act |-> stored,
                  l3 |-> IF state = "warm" THEN stored.merged ELSE {}]
       /\ pc' = IF state = "warm" THEN "llm" ELSE "search"
    BY <2>2
  <2>4. turn' = turn + 1 /\ turn < MaxTurns /\ turn' \in Turn /\ UNCHANGED <<facts, job, bg, filed, folded>>
    BY <1>0, <1>1 DEF Begin, PlaceInv, Turn
  <2>5. state \in {"cold", "warm", "drift"}
    BY DEF States
  <2>6. topic \in 0 .. MaxTurns
    <3>0. Turn \subseteq 0 .. MaxTurns
      BY <1>0 DEF Turn
    <3>1. stored.topic \in 0 .. MaxTurns /\ Topics(stored) \subseteq Turn
      BY <1>0, TopicsAreTurns DEF Activation
    <3>. QED
      BY <2>4, <3>0, <3>1 DEF TopicsOf
  <2>7. cur' \in Work
    BY <1>0, <2>3, <2>5, <2>6 DEF Work
  <2>. QED
    BY <1>0, <2>3, <2>4, <2>5, <2>7 DEF PlaceInv
<1>2. CASE Search
  BY <1>0, <1>2 DEF Search, PlaceInv, Found, Work
<1>3. CASE ReplyPlain
  <2>1. pc = "llm" /\ filed' = [filed EXCEPT ![turn] = cur.topic] /\ UNCHANGED <<turn, cur, folded>> /\ Spawn(cur) /\ facts' \in Stored
    BY <1>3 DEF ReplyPlain
  <2>2. turn \in Turn /\ turn' \in 0 .. MaxTurns /\ pc' = "idle" /\ facts' \subseteq Turn /\ folded' \subseteq Turn /\ cur' \in Work
    BY <1>0, <2>1 DEF PlaceInv, Stored, Spawn
  <2>3. filed' \in [Turn -> 0 .. MaxTurns] /\ \A s \in Turn : s # turn => filed'[s] = filed[s]
    BY <1>0, <2>1, FilesTurn
  <2>4. /\ bg' \in [Turn -> {"none", "pending", "done", "lost"}] /\ job' \in [Turn -> Work]
        /\ \A s \in Turn : s # turn => bg'[s] = bg[s]
    BY <1>0, <2>1, SpawnGrows
  <2>5. \A t \in Turn : t > turn' => filed'[t] = 0 /\ bg'[t] = "none"
    <3>1. turn \in Nat /\ \A t \in Turn : t \in Nat /\ (t > turn => t # turn)
      BY <1>0 DEF Turn, PlaceInv
    <3>. QED
      BY <2>1, <2>3, <2>4, <3>1 DEF PlaceInv
  <2>. QED
    BY <2>2, <2>3, <2>4, <2>5 DEF PlaceInv
<1>4. CASE ReplyEnriching
  <2>1. /\ pc = "llm" /\ filed' = [filed EXCEPT ![turn] = cur.topic] /\ UNCHANGED <<turn, cur, job, bg, folded>> /\ pc' = "refresh"
        /\ facts' \in Stored \ {facts} /\ Exists(cur.act)
    BY <1>4 DEF ReplyEnriching
  <2>2. turn \in Turn /\ facts' \subseteq Turn /\ turn \in facts'
    BY <1>0, <2>1 DEF PlaceInv, Stored
  <2>3. filed' \in [Turn -> 0 .. MaxTurns] /\ filed'[turn] = cur.topic /\ \A s \in Turn : s # turn => filed'[s] = filed[s]
    BY <1>0, <2>1, FilesTurn
  <2>5. \A t \in Turn : t > turn' => filed'[t] = 0 /\ bg'[t] = "none"
    <3>1. turn \in Nat /\ \A t \in Turn : t \in Nat /\ (t > turn => t # turn)
      BY <1>0 DEF Turn, PlaceInv
    <3>. QED
      BY <2>1, <2>3, <3>1 DEF PlaceInv
  <2>. QED
    BY <2>1, <2>2, <2>3, <2>5 DEF PlaceInv
<1>5. CASE RefreshSearch
  <2>1. cur' = [cur EXCEPT !.act.merged = facts] /\ UNCHANGED <<facts, turn, job, bg, filed, folded>> /\ pc = "refresh" /\ pc' = "fold"
    BY <1>5 DEF RefreshSearch
  <2>2. /\ cur' \in Work /\ cur'.topic = cur.topic /\ cur'.act.merged = facts /\ cur'.act.ts = cur.act.ts
    BY <1>0, <2>1 DEF Work, Activation, PlaceInv
  <2>. QED
    BY <2>1, <2>2 DEF PlaceInv, Exists
<1>6. CASE RefreshWrite
  <2>1. pc = "fold" /\ UNCHANGED <<facts, turn, cur, filed>> /\ Spawn(cur) /\ folded' = folded \cup {turn} /\ pc' = "idle"
    BY <1>6 DEF RefreshWrite, Spawn
  <2>2. turn \in Turn
    BY <2>1 DEF PlaceInv
  <2>3. /\ bg' \in [Turn -> {"none", "pending", "done", "lost"}] /\ job' \in [Turn -> Work]
        /\ \A s \in Turn : s # turn => bg'[s] = bg[s]
    BY <1>0, <2>1, SpawnGrows
  <2>4. \A t \in Turn : t > turn' => filed'[t] = 0 /\ bg'[t] = "none"
    <3>1. turn \in Nat /\ \A t \in Turn : t \in Nat /\ (t > turn => t # turn)
      BY <1>0 DEF Turn, PlaceInv
    <3>. QED
      BY <2>1, <2>3, <3>1 DEF PlaceInv
  <2>. QED
    BY <2>1, <2>2, <2>3, <2>4 DEF PlaceInv
<1>7. CASE TurnFails
  <2>1. pc # "idle" /\ pc' = "idle" /\ UNCHANGED <<turn, cur, job, bg, filed, folded>> /\ (facts' \in Stored \/ facts' = facts)
    BY <1>7 DEF TurnFails
  <2>2. facts' \subseteq Turn
    BY <2>1 DEF PlaceInv, Stored
  <2>. QED
    BY <2>1, <2>2 DEF PlaceInv
<1>8. ASSUME NEW t \in Turn, NEW ended \in {"done", "lost"}, bg[t] = "pending", bg' = [bg EXCEPT ![t] = ended],
             UNCHANGED <<facts, turn, pc, cur, job, filed, folded>>
      PROVE  PlaceInv'
  <2>1. \A s \in Turn : bg[s] = "none" => bg'[s] = "none"
    BY <1>8 DEF PlaceInv
  <2>2. bg' \in [Turn -> {"none", "pending", "done", "lost"}]
    BY <1>8 DEF PlaceInv
  <2>. QED
    BY <1>8, <2>1, <2>2 DEF PlaceInv
<1>9. ASSUME NEW t \in Turn, Persist(t) \/ PersistFails(t) PROVE PlaceInv'
  BY <1>8, <1>9 DEF Persist, PersistFails
<1>10. CASE UNCHANGED vars
  BY <1>10 DEF vars, PlaceInv
<1>. QED
  BY <1>1, <1>2, <1>3, <1>4, <1>5, <1>6, <1>7, <1>9, <1>10 DEF Next, Quiescent

LEMMA StoredStays ==
  ASSUME PlaceInv, BlobsInv, Grows, turn' \in 0 .. MaxTurns, stored' = stored
  PROVE  ReadOK(stored, turn + 1)'
<1>1. turn + 1 \in Nat /\ turn' + 1 \in Nat /\ turn + 1 <= turn' + 1 /\ turn + 1 <= MaxTurns + 1
  <2>1. turn \in 0 .. MaxTurns /\ turn <= turn'
    BY DEF PlaceInv, Grows
  <2>2. turn \in Nat /\ turn' \in Nat /\ MaxTurns \in Nat /\ turn <= MaxTurns
    BY <2>1, TurnsAssumption DEF Grows
  <2>3. \A a, b, c \in Nat : a <= b /\ a <= c => a + 1 \in Nat /\ b + 1 \in Nat /\ a + 1 <= b + 1 /\ a + 1 <= c + 1
    OBVIOUS
  <2>. QED
    BY <2>1, <2>2, <2>3
<1>2. \A act, u : u = turn' + 1 /\ ReadOK(act, turn + 1) => ReadOK(act, u)'
  BY <1>1, ReadStays DEF PlaceInv
<1>. QED
  BY <1>2 DEF BlobsInv

\* What was read stays read: the turn at work, and the tasks left behind.
LEMMA WorkStays ==
  ASSUME PlaceInv, Grows, stored.ts \in Nat, stored'.ts \in Nat, stored.ts <= stored'.ts
  PROVE  \A c, t : t \in Turn /\ WorkOK(c, t) => WorkOK(c, t)'
<1>. SUFFICES ASSUME NEW c, NEW t \in Turn, WorkOK(c, t) PROVE WorkOK(c, t)'
  OBVIOUS
<1>1. t \in Nat /\ t <= t /\ t <= MaxTurns + 1
  BY TurnsAssumption DEF Turn
<1>2. ReadOK(c.act, t)'
  BY <1>1, ReadStays DEF WorkOK, PlaceInv
<1>3. c.act.ts <= stored'.ts
  BY TurnsAssumption DEF WorkOK, Work, Activation
<1>. QED
  BY <1>2, <1>3 DEF WorkOK

LEMMA StoredGrows ==
  ASSUME PlaceInv, BlobsInv, [Next]_vars
  PROVE  stored.ts \in Nat /\ stored'.ts \in Nat /\ stored.ts <= stored'.ts
         /\ \/ stored' = stored
            \/ RefreshWrite /\ stored' = cur.act
            \/ \E t \in Turn : Persist(t) /\ job[t].emb /\ stored' = Updated(t, job[t]) /\ stored.ts <= t
<1>0. stored \in Activation /\ stored.ts \in Nat
  BY TurnsAssumption DEF BlobsInv, ReadOK, Activation
<1>1. CASE RefreshWrite
  <2>1. cur.act \in Activation /\ cur.act.ts <= stored.ts
    BY <1>1 DEF RefreshWrite, BlobsInv, WorkOK, ReadOK
  <2>2. cur.act.ts \in Nat
    BY <2>1, TurnsAssumption DEF Activation
  <2>. QED
    BY <1>0, <1>1, <2>1, <2>2 DEF RefreshWrite, CompareAndSet
<1>2. ASSUME NEW t \in Turn, Persist(t)
      PROVE  /\ stored.ts <= stored'.ts /\ stored'.ts \in Nat
             /\ stored' = stored \/ (job[t].emb /\ stored' = Updated(t, job[t]) /\ stored.ts <= t)
  <2>1. Updated(t, job[t]).ts = t /\ t \in Nat
    BY DEF Updated, Turn
  <2>. QED
    BY <1>0, <1>2, <2>1 DEF Persist, CompareAndSet
<1>3. CASE ~RefreshWrite /\ \A t \in Turn : ~Persist(t)
  BY <1>0, <1>3 DEF Next, Quiescent, vars, Begin, Search, ReplyPlain, ReplyEnriching, RefreshSearch, TurnFails, PersistFails
<1>. QED
  BY <1>0, <1>1, <1>2, <1>3

LEMMA StoredStep == PlaceInv /\ PlaceInv' /\ BlobsInv /\ [Next]_vars => ReadOK(stored, turn + 1)'
<1>. SUFFICES ASSUME PlaceInv, PlaceInv', BlobsInv, [Next]_vars PROVE ReadOK(stored, turn + 1)'
  OBVIOUS
<1>0. Grows /\ turn' \in 0 .. MaxTurns /\ turn \in Nat /\ turn' \in Nat /\ MaxTurns \in Nat
  BY StepGrows, TurnsAssumption DEF PlaceInv
<1>1. CASE stored' = stored
  BY <1>0, <1>1, StoredStays
<1>2. CASE RefreshWrite /\ stored' = cur.act
  <2>1. turn \in Turn /\ turn' = turn /\ WorkOK(cur, turn)
    BY <1>2 DEF RefreshWrite, PlaceInv, BlobsInv
  <2>2. turn + 1 \in Nat /\ turn <= turn + 1 /\ turn <= MaxTurns + 1
    BY <1>0, <2>1
  <2>3. \A act, u : u = turn + 1 /\ ReadOK(act, turn) => ReadOK(act, u)'
    BY <1>0, <2>2, ReadStays DEF PlaceInv
  <2>4. ReadOK(cur.act, turn)
    BY <2>1 DEF WorkOK
  <2>. QED
    BY <1>2, <2>1, <2>3, <2>4
<1>3. ASSUME NEW t \in Turn, Persist(t), job[t].emb, stored' = Updated(t, job[t]) PROVE ReadOK(stored, turn + 1)'
  <2>1. WorkOK(job[t], t) /\ filed[t] = job[t].topic /\ filed'[t] = job[t].topic /\ t <= turn
    BY <1>0, <1>3 DEF Persist, BlobsInv, PlaceInv, Turn
  <2>2. bg'[t] = "done" /\ job'[t].emb /\ turn' = turn
    BY <1>3 DEF Persist, PlaceInv
  <2>3. turn + 1 \in Nat /\ t < turn + 1 /\ turn + 1 <= MaxTurns + 1
    BY <1>0, <2>1, <2>2 DEF Turn
  <2>4. \A j, u : u = turn + 1 /\ j = job[t] => ReadOK(Updated(t, j), u)'
    BY <1>0, <2>1, <2>2, <2>3, UpdateIsRead
  <2>. QED
    BY <1>3, <2>2, <2>4
<1>. QED
  BY <1>1, <1>2, <1>3, StoredGrows

LEMMA BlobsStep == PlaceInv /\ PlaceInv' /\ BlobsInv /\ [Next]_vars => BlobsInv'
<1>. SUFFICES ASSUME PlaceInv, PlaceInv', BlobsInv, [Next]_vars PROVE BlobsInv'
  OBVIOUS
<1>0. Grows /\ ReadOK(stored, turn + 1)' /\ \A c, t : t \in Turn /\ WorkOK(c, t) => WorkOK(c, t)'
  BY StepGrows, StoredStep, WorkStays, StoredGrows
<1>1. ASSUME NEW t \in Turn, bg[t] # "none" PROVE WorkOK(job[t], t)' /\ (filed[t] = job[t].topic)'
  <2>1. WorkOK(job[t], t) /\ filed[t] = job[t].topic /\ job'[t] = job[t] /\ job[t].topic \in Turn
    BY <1>0, <1>1 DEF BlobsInv, Grows, WorkOK
  <2>2. filed[t] # 0
    BY <2>1 DEF Turn
  <2>. QED
    BY <1>0, <2>1, <2>2 DEF Grows
<1>2. ASSUME cur' = cur, pc # "idle", turn' = turn PROVE WorkOK(cur, turn)'
  BY <1>0, <1>2 DEF BlobsInv, PlaceInv
<1>3. ASSUME \A t \in Turn : bg[t] = "none" => bg'[t] = "none", (pc # "idle" => WorkOK(cur, turn))' PROVE BlobsInv'
  BY <1>0, <1>1, <1>3 DEF BlobsInv
<1>4. CASE Begin
  <2>1. PICK emb \in BOOLEAN : \E state \in States(emb) : \E topic \in TopicsOf(emb, state) :
       /\ cur' = [state |-> state, emb |-> emb, topic |-> topic, act |-> stored,
                  l3 |-> IF state = "warm" THEN stored.merged ELSE {}]
    BY <1>4 DEF Begin
  <2>2. PICK state \in States(emb) : \E topic \in TopicsOf(emb, state) :
       /\ cur' = [state |-> state, emb |-> emb, topic |-> topic, act |-> stored,
                  l3 |-> IF state = "warm" THEN stored.merged ELSE {}]
    BY <2>1
  <2>3. PICK topic \in TopicsOf(emb, state) :
       /\ cur' = [state |-> state, emb |-> emb, topic |-> topic, act |-> stored,
                  l3 |-> IF state = "warm" THEN stored.merged ELSE {}]
    BY <2>2
  <2>4. turn' = turn + 1 /\ turn < MaxTurns /\ turn' \in Turn /\ UNCHANGED <<stored, facts, job, bg, filed, folded>>
    BY <1>0, <1>4, TurnsAssumption DEF Begin, PlaceInv, Turn, Grows
  <2>5. state \in {"cold", "warm", "drift"} /\ (state # "cold" => emb /\ Exists(stored))
    BY DEF States
  <2>6. stored \in Activation /\ ReadOK(stored, turn + 1) /\ (Exists(stored) => stored.topic \in Turn) /\ stored.merged \subseteq Turn
    BY DEF BlobsInv, ReadOK, Activation
  <2>7. topic \in Turn
    BY <2>4, <2>5, <2>6, TopicsAreTurns DEF TopicsOf
  <2>8. cur'.act = stored /\ cur'.topic = topic /\ cur'.state = state /\ cur'.emb = emb
    BY <2>3
  <2>9. cur' \in Work
    BY DEF PlaceInv
  <2>10. state # "cold" => topic = stored.topic
    BY <2>5 DEF TopicsOf
  <2>11. \A c : c = cur' => ReadOK(c.act, turn)'
    BY <1>0, <2>4, <2>6, <2>8 DEF ReadOK, FiledBefore
  <2>12. WorkOK(cur, turn)'
    BY <2>4, <2>5, <2>6, <2>7, <2>8, <2>9, <2>10, <2>11, TurnsAssumption DEF WorkOK, Activation
  <2>. QED
    BY <1>3, <2>4, <2>12
<1>5. CASE Search
  <2>1. WorkOK(cur, turn) /\ turn' = turn /\ turn \in Turn /\ UNCHANGED bg
    BY <1>5 DEF Search, BlobsInv, PlaceInv
  <2>2. PICK found \in Found : cur' = [cur EXCEPT !.l3 = found]
    BY <1>5 DEF Search
  <2>3. cur' \in Work /\ cur'.act = cur.act /\ cur'.topic = cur.topic /\ cur'.state = cur.state /\ cur'.emb = cur.emb
    BY <2>1, <2>2 DEF WorkOK, Work, PlaceInv
  <2>4. WorkOK(cur, turn)'
    BY <1>0, <2>1, <2>3 DEF WorkOK
  <2>. QED
    BY <1>3, <2>1, <2>4
<1>6. CASE RefreshSearch
  <2>1. WorkOK(cur, turn) /\ turn' = turn /\ turn \in Turn /\ UNCHANGED bg
    BY <1>6 DEF RefreshSearch, BlobsInv, PlaceInv
  <2>2. cur' = [cur EXCEPT !.act.merged = facts] /\ cur \in Work /\ cur.act \in Activation
    BY <1>6, <2>1 DEF RefreshSearch, WorkOK, ReadOK
  <2>3. /\ cur' \in Work /\ cur'.topic = cur.topic /\ cur'.state = cur.state /\ cur'.emb = cur.emb
        /\ cur'.act.ts = cur.act.ts /\ cur'.act.topic = cur.act.topic /\ cur'.act.recent = cur.act.recent
        /\ cur'.act.count = cur.act.count /\ cur'.act.archived = cur.act.archived /\ cur'.act \in Activation
    BY <2>2 DEF Work, Activation, PlaceInv
  <2>4. WorkOK(cur, turn)'
    <3>1. \A c, t : c = cur /\ t = turn => WorkOK(c, t)'
      BY <1>0, <2>1
    <3>2. ASSUME NEW a, NEW b \in Activation, NEW t, ReadOK(a, t)', b.ts = a.ts, b.topic = a.topic,
                 b.recent = a.recent, b.count = a.count, b.archived = a.archived
          PROVE  ReadOK(b, t)'
      BY <3>2 DEF ReadOK, Exists
    <3>3. ReadOK(cur.act, turn)'
      <4>1. \A a, t : a = cur.act /\ t = turn => ReadOK(a, t)'
        BY <3>1 DEF WorkOK
      <4>. QED
        BY <2>1, <2>3, <3>2, <4>1
    <3>. QED
      BY <2>1, <2>3, <3>1, <3>3 DEF WorkOK, Exists
  <2>. QED
    BY <1>3, <2>1, <2>4
<1>7. CASE ReplyEnriching
  BY <1>2, <1>3, <1>7 DEF ReplyEnriching
<1>8. ASSUME pc # "idle", Spawn(cur), cur' = cur, turn' = turn, filed'[turn] = cur.topic PROVE BlobsInv'
  <2>1. turn \in Turn /\ WorkOK(cur, turn)'
    BY <1>2, <1>8 DEF PlaceInv
  <2>2. job'[turn] = cur /\ (\A s \in Turn : s # turn => bg'[s] = bg[s]) /\ pc' = "idle"
    BY <1>8, SpawnGrows DEF Spawn
  <2>3. WorkOK(job[turn], turn)'
    BY <1>8, <2>1, <2>2
  <2>. QED
    BY <1>0, <1>1, <1>8, <2>1, <2>2, <2>3 DEF BlobsInv
<1>9. CASE ReplyPlain
  <2>1. cur.topic \in 0 .. MaxTurns /\ pc = "llm" /\ filed' = [filed EXCEPT ![turn] = cur.topic]
    BY <1>9 DEF PlaceInv, Work, ReplyPlain
  <2>2. filed'[turn] = cur.topic
    BY <2>1, FilesTurn
  <2>. QED
    BY <1>8, <1>9, <2>1, <2>2 DEF ReplyPlain
<1>10. CASE RefreshWrite
  BY <1>8, <1>10 DEF RefreshWrite, PlaceInv
<1>11. CASE TurnFails
  BY <1>3, <1>11 DEF TurnFails
<1>12. ASSUME NEW t \in Turn, Persist(t) \/ PersistFails(t) PROVE BlobsInv'
  <2>1. (\A s \in Turn : bg[s] = "none" => bg'[s] = "none") /\ UNCHANGED <<pc, cur, turn>>
    BY <1>12 DEF Persist, PersistFails, PlaceInv
  <2>. QED
    BY <1>2, <1>3, <2>1
<1>13. CASE UNCHANGED vars
  BY <1>2, <1>3, <1>13 DEF vars
<1>. QED
  BY <1>4, <1>5, <1>6, <1>7, <1>9, <1>10, <1>11, <1>12, <1>13 DEF Next, Quiescent

LEMMA StoredHasLanded ==
  ASSUME PlaceInv, BlobsInv, stored.ts # 0
  PROVE  stored.ts \in 1 .. turn /\ stored.ts \in Turn /\ bg[stored.ts] = "done" /\ job[stored.ts].emb
<1>1. stored.ts \in 0 .. MaxTurns /\ stored.ts < turn + 1 /\ bg[stored.ts] = "done" /\ job[stored.ts].emb
  BY DEF BlobsInv, ReadOK, Exists, Activation
<1>2. turn \in Nat /\ MaxTurns \in Nat
  BY TurnsAssumption DEF PlaceInv
<1>. QED
  BY <1>1, <1>2 DEF Turn

LEMMA CalmBefore ==
  ASSUME Grows, NEW t \in Turn, bg[t] # "none", Calm(t)'
  PROVE  Calm(t)
<1>. SUFFICES ASSUME NEW s \in 1 .. t - 1, bg[s] = "done", job[s].emb PROVE job[t].act.ts >= s
  BY DEF Calm
<1>1. s \in Turn
  BY TurnsAssumption DEF Turn
<1>2. bg'[s] = "done" /\ job'[s] = job[s] /\ job'[t] = job[t]
  BY <1>1 DEF Grows
<1>. QED
  BY <1>2 DEF Calm

\* What the fold of turn t means for the turn after it.
Serves(t) ==
  /\ bg[t] # "none" /\ t \in job[t].act.merged
  /\ job[t].state = "warm" /\ Calm(t) =>
       /\ turn = t => t \in stored.merged
       /\ turn = t + 1 /\ pc # "idle" /\ cur.state = "warm" => t \in cur.l3

LEMMA FoldLands ==
  ASSUME PlaceInv, BlobsInv, [Next]_vars, RefreshWrite
  PROVE  Serves(turn)'
<1>0. Grows /\ turn \in Turn /\ turn \in Nat /\ turn' = turn /\ pc = "fold" /\ bg[turn] = "none" /\ pc' = "idle"
  BY StepGrows DEF RefreshWrite, PlaceInv, Turn, Spawn
<1>1. job'[turn] = cur /\ bg'[turn] = "pending" /\ turn \in cur.act.merged
  BY <1>0, SpawnGrows DEF RefreshWrite, PlaceInv
<1>2. ASSUME Calm(turn)', stored.ts > cur.act.ts PROVE FALSE
  <2>1. stored.ts \in Nat /\ cur.act.ts \in Nat
    BY <1>0, TurnsAssumption DEF BlobsInv, WorkOK, ReadOK, Activation
  <2>2. stored.ts \in 1 .. turn /\ stored.ts \in Turn /\ bg[stored.ts] = "done" /\ job[stored.ts].emb
    BY <1>2, <2>1, StoredHasLanded
  <2>3. stored.ts \in 1 .. turn - 1
    BY <1>0, <2>1, <2>2
  <2>4. bg'[stored.ts] = "done" /\ job'[stored.ts] = job[stored.ts]
    BY <1>0, <2>2 DEF Grows
  <2>5. job'[turn].act.ts >= stored.ts
    BY <1>0, <1>2, <2>2, <2>3, <2>4 DEF Calm
  <2>. QED
    BY <1>1, <1>2, <2>1, <2>5
<1>3. ASSUME Calm(turn)' PROVE stored' = cur.act
  BY <1>2, <1>3 DEF RefreshWrite, CompareAndSet
<1>. QED
  BY <1>0, <1>1, <1>3 DEF Serves

LEMMA PersistServes ==
  ASSUME PlaceInv, BlobsInv, [Next]_vars, NEW t \in Turn, Serves(t), NEW u \in Turn, Persist(u) \/ PersistFails(u)
  PROVE  Serves(t)'
<1>0. /\ Grows /\ UNCHANGED <<turn, pc, cur, job>> /\ bg[t] # "none" /\ bg'[t] # "none" /\ t \in Nat /\ u \in Nat
      /\ bg[u] = "pending" /\ (Calm(t)' => Calm(t)) /\ u <= turn
  <2>1. turn \in Nat
    BY TurnsAssumption DEF PlaceInv
  <2>. QED
    BY <2>1, StepGrows, CalmBefore DEF Persist, PersistFails, Serves, Grows, Turn, PlaceInv
<1>1. CASE stored' = stored
  BY <1>0, <1>1 DEF Serves
<1>2. CASE stored' # stored
  <2>1. Persist(u) /\ job[u].emb /\ stored' = Updated(u, job[u]) /\ stored.ts <= u
    <3>1. Persist(u) /\ job[u].emb /\ stored' = CompareAndSet(Updated(u, job[u]))
      BY <1>2 DEF Persist, PersistFails
    <3>2. Updated(u, job[u]).ts = u /\ stored.ts \in Nat
      BY StoredGrows DEF Updated
    <3>. QED
      BY <1>0, <1>2, <3>1, <3>2 DEF CompareAndSet
  <2>2. ASSUME job[t].state = "warm", Calm(t)', turn = t PROVE t \in stored'.merged
    <3>1. CASE u = t
      BY <2>1, <2>2, <3>1 DEF Updated, Serves
    <3>2. CASE u # t
      <4>1. u \in 1 .. t - 1 /\ bg'[u] = "done"
        BY <1>0, <2>1, <2>2, <3>2 DEF Persist, PlaceInv, Turn
      <4>2. job[t].act.ts >= u
        BY <1>0, <2>1, <2>2, <4>1 DEF Calm
      <4>3. WorkOK(job[t], t) /\ stored.ts \in Nat
        BY <1>0, StoredGrows DEF BlobsInv
      <4>5. job[t].act \in Activation /\ job[t].act.ts <= stored.ts
        BY <4>3 DEF WorkOK, ReadOK
      <4>6. job[t].act.ts \in 0 .. MaxTurns
        BY <4>5 DEF Activation
      <4>7. job[t].act.ts \in Nat
        BY <4>6, TurnsAssumption
      <4>4. stored.ts = u /\ u # 0
        BY <1>0, <2>1, <4>1, <4>2, <4>3, <4>5, <4>7
      <4>. QED
        BY <1>0, <4>4, StoredHasLanded
    <3>. QED
      BY <3>1, <3>2
  <2>. QED
    BY <1>0, <2>2 DEF Serves
<1>. QED
  BY <1>1, <1>2

LEMMA FoldsStep == PlaceInv /\ BlobsInv /\ FoldsInv /\ [Next]_vars => FoldsInv'
<1>. SUFFICES ASSUME PlaceInv, BlobsInv, FoldsInv, [Next]_vars PROVE FoldsInv'
  OBVIOUS
<1>0. Grows /\ turn \in Nat /\ \A t \in folded : t \in Turn /\ t \in Nat /\ bg[t] # "none" /\ Serves(t)
  BY StepGrows, TurnsAssumption DEF PlaceInv, FoldsInv, Serves, Turn
<1>. SUFFICES ASSUME NEW t \in folded' PROVE Serves(t)'
  BY DEF FoldsInv, Serves
<1>1. CASE RefreshWrite
  <2>1. CASE t = turn
    <3>1. turn' = turn
      BY <1>1 DEF RefreshWrite
    <3>2. \A u : u = turn' => Serves(u)'
      BY <1>1, FoldLands
    <3>. QED
      BY <2>1, <3>1, <3>2
  <2>2. CASE t # turn
    <3>1. t \in folded /\ turn' = turn /\ pc' = "idle"
      BY <1>1, <2>2 DEF RefreshWrite, Spawn
    <3>2. bg'[t] # "none" /\ job'[t] = job[t]
      BY <1>0, <3>1 DEF Grows
    <3>. QED
      BY <1>0, <2>2, <3>1, <3>2 DEF Serves
  <2>. QED
    BY <2>1, <2>2
<1>2. CASE folded' = folded
  <2>0. /\ Serves(t) /\ t \in Turn /\ t \in Nat /\ bg[t] # "none" /\ bg'[t] # "none" /\ job'[t] = job[t]
        /\ (Calm(t)' => Calm(t)) /\ t <= turn
    <3>1. t \in Turn /\ t \in Nat /\ bg[t] # "none" /\ Serves(t)
      BY <1>0, <1>2
    <3>2. bg'[t] # "none" /\ job'[t] = job[t] /\ (Calm(t)' => Calm(t))
      BY <1>0, <3>1, CalmBefore DEF Grows
    <3>3. t <= turn
      BY <1>0, <3>1 DEF PlaceInv
    <3>. QED
      BY <3>1, <3>2, <3>3
  <2>1. CASE Begin
    <3>1. turn' = turn + 1 /\ stored' = stored /\ (cur'.state = "warm" => cur'.l3 = stored.merged)
      BY <2>1 DEF Begin
    <3>. QED
      BY <1>0, <2>0, <3>1 DEF Serves
  <2>2. ASSUME stored' = stored, turn' = turn, pc' # "idle" => pc # "idle",
               cur'.state = "warm" /\ pc # "idle" => cur.state = "warm" /\ cur'.l3 = cur.l3
        PROVE  Serves(t)'
    BY <2>0, <2>2 DEF Serves
  <2>3. CASE Search
    <3>1. pc = "search" /\ cur.state # "warm"
      BY <2>3 DEF Search, PlaceInv
    <3>2. cur'.state = cur.state
      BY <2>3 DEF Search, PlaceInv, Work
    <3>. QED
      BY <2>2, <2>3, <3>1, <3>2 DEF Search
  <2>4. CASE RefreshSearch
    <3>1. cur'.state = cur.state /\ cur'.l3 = cur.l3
      BY <2>4 DEF RefreshSearch, PlaceInv, Work
    <3>. QED
      BY <2>2, <2>4, <3>1 DEF RefreshSearch
  <2>5. CASE ReplyPlain \/ ReplyEnriching \/ TurnFails \/ UNCHANGED vars
    BY <2>2, <2>5 DEF ReplyPlain, ReplyEnriching, TurnFails, vars, Spawn
  <2>6. ASSUME NEW u \in Turn, Persist(u) \/ PersistFails(u) PROVE Serves(t)'
    BY <2>0, <2>6, PersistServes
  <2>. QED
    BY <1>1, <2>1, <2>3, <2>4, <2>5, <2>6 DEF Next, Quiescent
<1>3. RefreshWrite \/ folded' = folded
  BY DEF Next, Quiescent, vars, Begin, Search, ReplyPlain, ReplyEnriching, RefreshSearch, TurnFails, Persist, PersistFails
<1>. QED
  BY <1>1, <1>2, <1>3

LEMMA BlobBegins == Init => BlobInv
<1>. SUFFICES ASSUME Init PROVE BlobInv
  OBVIOUS
<1>1. NoActivation \in Activation /\ NoActivation.ts = 0 /\ Distinct(NoActivation.archived)
  BY TurnsAssumption DEF NoActivation, Activation, Distinct
<1>2. Cold \in Work
  BY <1>1, TurnsAssumption DEF Cold, Work
<1>3. PlaceInv
  BY <1>2, TurnsAssumption DEF Init, PlaceInv
<1>4. BlobsInv
  BY <1>1 DEF Init, BlobsInv, ReadOK, Exists
<1>5. FoldsInv
  BY DEF Init, FoldsInv
<1>. QED
  BY <1>3, <1>4, <1>5 DEF BlobInv

LEMMA DistinctCounts ==
  ASSUME NEW S, NEW s \in Seq(S), Distinct(s)
  PROVE  Cardinality(ToSet(s)) = Len(s)
<1>. DEFINE f == [i \in 1 .. Len(s) |-> s[i]]
<1>1. f \in Bijection(1 .. Len(s), ToSet(s))
  BY DEF Distinct, ToSet, Bijection, Injection, Surjection, IsInjective
<1>. QED
  BY <1>1, FS_CountingElements DEF ExistsBijection

LEMMA BlobInvMeans == BlobInv => ActivationSound
<1>. SUFFICES ASSUME BlobInv PROVE ActivationSound
  OBVIOUS
<1>1. TypeOK
  BY DEF BlobInv, PlaceInv, BlobsInv, ReadOK, TypeOK
<1>2. BlobIsOneTurn
  BY DEF BlobInv, BlobsInv, ReadOK, BlobIsOneTurn
<1>3. CountWithinTopic
  <2>. SUFFICES ASSUME Exists(stored) PROVE stored.count <= Cardinality({t \in Turn : filed[t] = stored.topic})
    BY DEF CountWithinTopic
  <2>1. stored.count \in 0 .. MaxTurns /\ stored.count <= Cardinality(FiledBefore(turn + 1, stored.topic))
    BY DEF BlobInv, BlobsInv, ReadOK, Activation
  <2>. DEFINE before == FiledBefore(turn + 1, stored.topic)
              all == {t \in Turn : filed[t] = stored.topic}
  <2>2. turn \in 0 .. MaxTurns /\ MaxTurns \in Nat
    BY TurnsAssumption DEF BlobInv, PlaceInv
  <2>3. \A s \in 1 .. (turn + 1) - 1 : s \in Turn
    BY <2>2 DEF Turn
  <2>4. before \subseteq all
    BY <2>3 DEF FiledBefore
  <2>5. IsFiniteSet(1 .. MaxTurns)
    BY <2>2, FS_Interval
  <2>6. IsFiniteSet(all)
    BY <2>5, FS_Subset DEF Turn
  <2>7. IsFiniteSet(before) /\ Cardinality(before) <= Cardinality(all)
    BY <2>4, <2>6, FS_Subset
  <2>8. Cardinality(before) \in Nat /\ Cardinality(all) \in Nat
    BY <2>6, <2>7, FS_CardinalityType
  <2>. QED
    BY <2>1, <2>2, <2>7, <2>8
<1>4. ArchivedDistinct
  <2>1. stored.archived \in Seq(Turn) /\ Distinct(stored.archived)
    BY DEF BlobInv, BlobsInv, ReadOK, Activation
  <2>. QED
    BY <2>1, DistinctCounts DEF ArchivedDistinct, Topics
<1>5. WarmFoldServed
  BY DEF BlobInv, FoldsInv, WarmFoldServed, ReadCalm, Calm
<1>. QED
  BY <1>1, <1>2, <1>3, <1>4, <1>5 DEF ActivationSound

THEOREM ActivationIsSound == Spec => []ActivationSound
<1>1. BlobInv /\ [Next]_vars => BlobInv'
  BY PlaceStep, BlobsStep, FoldsStep DEF BlobInv
<1>. QED
  BY BlobBegins, <1>1, BlobInvMeans, PTL DEF Spec
=============================================================================
