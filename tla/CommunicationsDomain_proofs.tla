--------------------- MODULE CommunicationsDomain_proofs ---------------------
(***************************************************************************)
(* Proofs about the communications domain.  The transition log, for any    *)
(* number of writers and communications: the log is the history of its     *)
(* aggregate, in order of time unless updated_at was set back, a decision is used once, and the triggers implement the      *)
(* lifecycle of the domain.  Dispatch, for any number of connections,      *)
(* channels and purposes: an attempt is queued only while consent and      *)
(* suppressions permit it.  Commands, for any callers and keys: a key is   *)
(* reserved once and its result is final.                                  *)
(***************************************************************************)
EXTENDS CommunicationsDomain, TLAPS

-----------------------------------------------------------------------------
(***************************************************************************)
(* The trigger's table                                                     *)
(***************************************************************************)

\* The trigger repeats the table of the domain package: what it allows,
\* canTransitionCommunicationLifecycleState allows.
LEMMA TriggerImpliesTable ==
  ASSUME NEW from, NEW to, TriggerAllows(from, to)
  PROVE  /\ from \in States /\ to \in States
         /\ Lifecycle!CanTransition(from, to)
<1>1. /\ from \in {"requested", "policy_checking", "authorized", "queued", "dispatching",
                   "accepted", "active"}
      /\ to \in States
  BY DEF TriggerAllows, States, Lifecycle!States, Lifecycle!Terminal
<1>2. from \in States /\ from \notin Lifecycle!Terminal
  BY <1>1 DEF States, Lifecycle!States, Lifecycle!Terminal
<1>3. to \in Lifecycle!AllowedTransitions[from]
  <2>1. CASE from = "requested"
    BY <1>2, <2>1 DEF TriggerAllows, Lifecycle!AllowedTransitions, States
  <2>2. CASE from = "policy_checking"
    BY <1>2, <2>2 DEF TriggerAllows, Lifecycle!AllowedTransitions, States
  <2>3. CASE from = "authorized"
    BY <1>2, <2>3 DEF TriggerAllows, Lifecycle!AllowedTransitions, States
  <2>4. CASE from = "queued"
    BY <1>2, <2>4 DEF TriggerAllows, Lifecycle!AllowedTransitions, States
  <2>5. CASE from = "dispatching"
    BY <1>2, <2>5 DEF TriggerAllows, Lifecycle!AllowedTransitions, States
  <2>6. CASE from = "accepted"
    BY <1>2, <2>6 DEF TriggerAllows, Lifecycle!AllowedTransitions, States
  <2>7. CASE from = "active"
    BY <1>2, <2>7 DEF TriggerAllows, Lifecycle!AllowedTransitions, States
  <2> QED
    BY <1>1, <2>1, <2>2, <2>3, <2>4, <2>5, <2>6, <2>7
<1> QED
  BY <1>1, <1>2, <1>3 DEF Lifecycle!CanTransition

\* Ranks are numbers.
LEMMA RankType == \A s \in States : Rank[s] \in 0..7
BY DEF Rank

\* The table has no cycle: every transition it allows goes up.
LEMMA TriggerGoesUp ==
  ASSUME NEW from, NEW to, TriggerAllows(from, to)
  PROVE  Rank[from] < Rank[to]
<1>1. from \in States /\ to \in States
  BY TriggerImpliesTable
<1>2. Rank[from] = CASE from = "requested" -> 0 [] from = "policy_checking" -> 1
                     [] from = "authorized" -> 2 [] from = "queued" -> 3
                     [] from = "dispatching" -> 4 [] from = "accepted" -> 5
                     [] from = "active" -> 6 [] OTHER -> 7
  BY <1>1 DEF Rank
<1>3. Rank[to] = CASE to = "requested" -> 0 [] to = "policy_checking" -> 1
                   [] to = "authorized" -> 2 [] to = "queued" -> 3
                   [] to = "dispatching" -> 4 [] to = "accepted" -> 5
                   [] to = "active" -> 6 [] OTHER -> 7
  BY <1>1 DEF Rank
<1> QED
  BY <1>2, <1>3 DEF TriggerAllows

-----------------------------------------------------------------------------
(***************************************************************************)
(* The invariant                                                           *)
(***************************************************************************)

\* A prepared transition is not the null value.
LEMMA DraftIsNoNull == NoDraft \notin Draft
BY DEF NoDraft, Draft

\* The empty tables.
LEMMA InitInv == Init => IndInv
BY BoundsAssumption
DEF Init, IndInv, TypeOK, RowsAreWhole, LogIsHistory, LogIsChronological, LogGoesUp, NoRow, Row, Entries

\* A step that touches neither aggregates nor log.
LEMMA DraftStep ==
  ASSUME IndInv, UNCHANGED <<rows, log, setBack>>, draft' \in [Writers -> Draft \cup {NoDraft}]
  PROVE  IndInv'
BY DEF IndInv, TypeOK, RowsAreWhole, LogIsHistory, LogIsChronological, LogGoesUp, Entries

LEMMA PrepareInv ==
  ASSUME IndInv, NEW w \in Writers, Prepare(w)
  PROVE  IndInv'
<1>1. PICK c \in Communications, to \in States, t \in 0..MaxTime :
        /\ rows[c] # NoRow /\ rows[c].version < MaxVersion
        /\ draft' = [draft EXCEPT ![w] =
                        [communication |-> c, sequence |-> rows[c].version + 1,
                         from |-> rows[c].state, to |-> to, occurredAt |-> t,
                         authorized |-> FALSE]]
  BY DEF Prepare
<1>2. rows[c].state \in States /\ rows[c].version \in 0..MaxVersion
  BY <1>1 DEF IndInv, TypeOK, Row, RowsAreWhole
<1>3. rows[c].version + 1 \in 1..MaxVersion
  BY <1>1, <1>2, BoundsAssumption
<1>4. draft' \in [Writers -> Draft \cup {NoDraft}]
  BY <1>1, <1>2, <1>3 DEF IndInv, TypeOK, Draft
<1> QED
  BY <1>4, DraftStep DEF Prepare

LEMMA AuthorizeInv ==
  ASSUME IndInv, NEW w \in Writers, Authorize(w)
  PROVE  IndInv'
<1>1. draft[w] \in Draft
  BY DEF IndInv, TypeOK, Authorize
<1>2. [draft[w] EXCEPT !.authorized = TRUE] \in Draft
  BY <1>1 DEF Draft
<1>3. draft' \in [Writers -> Draft \cup {NoDraft}]
  BY <1>2 DEF IndInv, TypeOK, Authorize
<1> QED
  BY <1>3, DraftStep DEF Authorize

LEMMA RejectTransitionInv ==
  ASSUME IndInv, NEW w \in Writers, RejectTransition(w)
  PROVE  IndInv'
<1>1. draft' \in [Writers -> Draft \cup {NoDraft}]
  BY DEF IndInv, TypeOK, RejectTransition
<1> QED
  BY <1>1, DraftStep DEF RejectTransition

\* A new aggregate has an empty log.
LEMMA InsertCommunicationInv ==
  ASSUME IndInv, NEW c \in Communications, InsertCommunication(c)
  PROVE  IndInv'
<1>1. PICK created \in 0..MaxTime, updated \in 0..MaxTime :
        /\ rows[c] = NoRow /\ created <= updated
        /\ rows' = [rows EXCEPT ![c] = [state |-> "requested", version |-> 0,
                                        createdAt |-> created, updatedAt |-> updated]]
        /\ log' = log /\ draft' = draft /\ setBack' = setBack
  BY DEF InsertCommunication
<1>2. \A d \in log : d.communication # c /\ d \in Draft
  BY <1>1 DEF IndInv, LogGoesUp, TypeOK
<1>3. \A b \in Communications \ {c} : rows'[b] = rows[b]
  BY <1>1 DEF IndInv, TypeOK
<1>4. rows'[c] = [state |-> "requested", version |-> 0, createdAt |-> created, updatedAt |-> updated]
  BY <1>1 DEF IndInv, TypeOK
<1>5. TypeOK'
  <2>1. [state |-> "requested", version |-> 0, createdAt |-> created, updatedAt |-> updated] \in Row
    BY BoundsAssumption DEF Row, States, Lifecycle!States
  <2> QED
    BY <1>1, <2>1 DEF IndInv, TypeOK
<1>6. RowsAreWhole'
  BY <1>1, <1>3, <1>4 DEF IndInv, RowsAreWhole
<1>7. LogIsHistory'
  <2> SUFFICES ASSUME NEW b \in Communications
               PROVE  LET n == rows'[b].version IN
                      /\ \A i \in 1..n : \E d \in Entries(b)' : d.sequence = i
                      /\ \A d \in Entries(b)' :
                          /\ d.sequence <= n
                          /\ d.sequence = 1 => d.from = "requested"
                          /\ d.sequence = n => d.to = rows'[b].state
                      /\ \A d, e \in Entries(b)' :
                          /\ d.sequence = e.sequence => d = e
                          /\ e.sequence = d.sequence + 1 => e.from = d.to
    BY DEF LogIsHistory
  <2>1. CASE b = c
    <3>1. Entries(b)' = {}
      BY <1>1, <1>2, <2>1 DEF Entries
    <3> QED
      BY <1>4, <2>1, <3>1
  <2>2. CASE b # c
    <3>1. Entries(b)' = Entries(b) /\ rows'[b] = rows[b]
      BY <1>1, <1>3, <2>2 DEF Entries
    <3> QED
      BY <3>1 DEF IndInv, LogIsHistory
  <2> QED
    BY <2>1, <2>2
<1>8. LogGoesUp'
  BY <1>1, <1>2, <1>3 DEF IndInv, TypeOK, LogGoesUp, Draft
<1>9. LogIsChronological'
  <2>1. \A d \in log : rows'[d.communication] = rows[d.communication]
    BY <1>2, <1>3 DEF Draft
  <2>2. \A b \in Communications : Entries(b)' = Entries(b)
    BY <1>1 DEF Entries
  <2>3. \A b \in Communications : \A d \in Entries(b) : rows'[b] = rows[b]
    BY <2>1 DEF Entries
  <2> QED
    BY <1>1, <2>1, <2>2, <2>3 DEF IndInv, LogIsChronological
<1> QED
  BY <1>5, <1>6, <1>7, <1>8, <1>9 DEF IndInv

\* A plain UPDATE moves updated_at only; where it sets it back, nothing is said
\* of the order in time any more.
LEMMA UpdateCommunicationInv ==
  ASSUME IndInv, NEW c \in Communications, UpdateCommunication(c)
  PROVE  IndInv'
<1>1. PICK t \in 0..MaxTime :
        /\ rows[c] # NoRow /\ rows[c].createdAt <= t
        /\ rows' = [rows EXCEPT ![c].updatedAt = t]
        /\ setBack' = IF t < rows[c].updatedAt THEN setBack \cup {c} ELSE setBack
        /\ log' = log /\ draft' = draft
  BY DEF UpdateCommunication
<1>2. rows \in [Communications -> Row] /\ rows[c] \in Row
  BY DEF IndInv, TypeOK
<1>3. rows' = [rows EXCEPT ![c] = [rows[c] EXCEPT !.updatedAt = t]]
  BY <1>1
<1>4. [rows[c] EXCEPT !.updatedAt = t] \in Row
  BY <1>2 DEF Row
<1>5. /\ rows' \in [Communications -> Row]
      /\ rows'[c] = [rows[c] EXCEPT !.updatedAt = t]
      /\ \A b \in Communications \ {c} : rows'[b] = rows[b]
  BY <1>2, <1>3, <1>4
<1>6. \A b \in Communications : /\ rows'[b].state = rows[b].state
                               /\ rows'[b].version = rows[b].version
                               /\ rows'[b].createdAt = rows[b].createdAt
                               /\ Entries(b)' = Entries(b)
  BY <1>1, <1>2, <1>5 DEF Row, Entries
<1>7. rows'[c].updatedAt = t /\ rows[c].updatedAt \in Nat /\ rows[c].createdAt \in Nat
  BY <1>2, <1>5 DEF Row
<1>8. TypeOK'
  BY <1>1, <1>5 DEF IndInv, TypeOK
<1>9. RowsAreWhole'
  <2>1. rows[c].state # "none"
    BY <1>1 DEF IndInv, RowsAreWhole
  <2>2. ASSUME NEW b \in Communications
        PROVE  /\ rows'[b].state = "none" => rows'[b] = NoRow
               /\ rows'[b].version = 0 => rows'[b].state \in {"none", "requested"}
               /\ rows'[b].createdAt <= rows'[b].updatedAt
    <3>1. CASE b = c
      BY <1>1, <1>6, <1>7, <2>1, <3>1 DEF IndInv, RowsAreWhole
    <3>2. CASE b # c
      BY <1>5, <3>2 DEF IndInv, RowsAreWhole
    <3> QED
      BY <3>1, <3>2
  <2> QED
    BY <2>2 DEF RowsAreWhole
<1>10. LogIsHistory'
  BY <1>6 DEF IndInv, LogIsHistory
<1>11. LogGoesUp'
  <2>1. \A d \in log : d.communication \in Communications
    BY DEF IndInv, TypeOK, Draft
  <2>2. \A d \in log : rows'[d.communication] # NoRow
    BY <1>6, <2>1 DEF IndInv, LogGoesUp, RowsAreWhole, NoRow
  <2> QED
    BY <1>1, <1>6, <2>1, <2>2 DEF IndInv, LogGoesUp
<1>12. LogIsChronological'
  <2>1. \A d \in log : d.communication \in Communications /\ d.occurredAt \in Nat
    BY DEF IndInv, TypeOK, Draft
  <2>2. \A d \in log' : rows'[d.communication].createdAt <= d.occurredAt
    BY <1>1, <1>6, <2>1 DEF IndInv, LogIsChronological
  <2>3. ASSUME NEW b \in Communications \ setBack'
        PROVE  /\ \A d \in Entries(b)' : d.occurredAt <= rows'[b].updatedAt
               /\ \A d, e \in Entries(b)' : d.sequence <= e.sequence => d.occurredAt <= e.occurredAt
    <3>1. b \in Communications \ setBack
      BY <1>1, <2>3
    <3>2. b = c => rows[c].updatedAt <= t
      BY <1>1, <1>7, <2>3
    <3>3. \A d \in Entries(b) : d.occurredAt \in Nat /\ d.occurredAt <= rows[b].updatedAt
      BY <2>1, <3>1 DEF IndInv, LogIsChronological, Entries
    <3>4. \A d \in Entries(b) : d.occurredAt <= rows'[b].updatedAt
      <4>1. CASE b = c
        BY <1>7, <3>2, <3>3, <4>1
      <4>2. CASE b # c
        BY <1>5, <3>1, <3>3, <4>2
      <4> QED
        BY <4>1, <4>2
    <3> QED
      BY <1>6, <3>1, <3>4 DEF IndInv, LogIsChronological
  <2> QED
    BY <2>2, <2>3 DEF LogIsChronological
<1> QED
  BY <1>8, <1>9, <1>10, <1>11, <1>12 DEF IndInv

\* The insert that the trigger accepts extends the history by one entry: the
\* locked aggregate is what the draft was prepared from.
LEMMA InsertTransitionInv ==
  ASSUME IndInv, NEW w \in Writers, InsertTransition(w)
  PROVE  IndInv'
<1>0. PICK d \in Draft, c \in Communications :
        /\ d = draft[w] /\ c = d.communication
        /\ TransitionAccepted(d)
        /\ rows' = [rows EXCEPT ![c] = [state |-> d.to, version |-> d.sequence,
                                        createdAt |-> rows[c].createdAt, updatedAt |-> d.occurredAt]]
        /\ log' = log \cup {d} /\ setBack' = setBack
        /\ draft' = [draft EXCEPT ![w] = NoDraft]
  <2>1. draft[w] \in Draft
    BY DEF InsertTransition, IndInv, TypeOK
  <2>2. draft[w].communication \in Communications
    BY <2>1 DEF Draft
  <2>3. rows[draft[w].communication] \in Row
    BY <2>2 DEF IndInv, TypeOK
  <2> QED
    BY <2>1, <2>2, <2>3 DEF InsertTransition
<1> DEFINE n == rows[c].version
<1>1. /\ d \in Draft /\ TransitionAccepted(d)
      /\ rows' = [rows EXCEPT ![c] = [state |-> d.to, version |-> d.sequence,
                                      createdAt |-> rows[c].createdAt, updatedAt |-> d.occurredAt]]
      /\ log' = log \cup {d} /\ setBack' = setBack /\ c = d.communication
      /\ draft' = [draft EXCEPT ![w] = NoDraft]
  BY <1>0
<1>2. /\ c \in Communications /\ d.sequence \in 1..MaxVersion
      /\ d.from \in States /\ d.to \in States /\ d.occurredAt \in 0..MaxTime
  BY <1>1 DEF Draft
<1>3. /\ rows[c] # NoRow /\ d.from = rows[c].state /\ d.sequence = n + 1
      /\ d.occurredAt >= rows[c].updatedAt /\ d.authorized /\ TriggerAllows(d.from, d.to)
  BY <1>1 DEF TransitionAccepted
<1>4. n \in Nat /\ rows[c].updatedAt \in Nat /\ rows[c].createdAt \in 0..MaxTime
      /\ rows[c].createdAt <= rows[c].updatedAt
  BY <1>2 DEF IndInv, TypeOK, Row, RowsAreWhole
<1>5. \A b \in Communications \ {c} : rows'[b] = rows[b]
  BY <1>1 DEF IndInv, TypeOK
<1>6. rows'[c] = [state |-> d.to, version |-> d.sequence,
                  createdAt |-> rows[c].createdAt, updatedAt |-> d.occurredAt]
  BY <1>1, <1>2 DEF IndInv, TypeOK
<1>7. \A e \in log : /\ e \in Draft /\ e.communication \in Communications
                     /\ e.sequence \in Nat /\ e.occurredAt \in Nat
                     /\ e.from \in States /\ e.to \in States
  BY DEF IndInv, TypeOK, Draft
<1>8. TypeOK'
  <2>1. [state |-> d.to, version |-> d.sequence,
         createdAt |-> rows[c].createdAt, updatedAt |-> d.occurredAt] \in Row
    BY <1>2, <1>4, BoundsAssumption DEF Row
  <2>2. rows' \in [Communications -> Row]
    BY <1>1, <2>1 DEF IndInv, TypeOK
  <2>3. log' \subseteq {e \in Draft : e.authorized}
    BY <1>1, <1>3 DEF IndInv, TypeOK
  <2>4. draft' \in [Writers -> Draft \cup {NoDraft}]
    BY <1>1 DEF IndInv, TypeOK
  <2> QED
    BY <1>1, <2>2, <2>3, <2>4 DEF IndInv, TypeOK
<1>9. RowsAreWhole'
  <2>1. d.to # "none"
    BY <1>3 DEF TriggerAllows
  <2>2. d.sequence # 0
    BY <1>2
  <2>3. rows[c].createdAt <= d.occurredAt
    BY <1>2, <1>3, <1>4
  <2> QED
    BY <1>5, <1>6, <2>1, <2>2, <2>3 DEF IndInv, RowsAreWhole
<1>10. LogIsHistory'
  <2>1. ASSUME NEW b \in Communications, b # c
        PROVE  Entries(b)' = Entries(b) /\ rows'[b] = rows[b]
    BY <1>1, <1>5, <2>1 DEF Entries
  <2>2. Entries(c)' = Entries(c) \cup {d}
    BY <1>1 DEF Entries
  <2>3. /\ \A i \in 1..n : \E e \in Entries(c) : e.sequence = i
        /\ \A e \in Entries(c) :
            /\ e.sequence <= n
            /\ e.sequence = 1 => e.from = "requested"
            /\ e.sequence = n => e.to = rows[c].state
        /\ \A e, f \in Entries(c) :
            /\ e.sequence = f.sequence => e = f
            /\ f.sequence = e.sequence + 1 => f.from = e.to
    BY <1>2 DEF IndInv, LogIsHistory
  <2>4. \A i \in 1..n+1 : \E e \in Entries(c)' : e.sequence = i
    <3>1. d \in Entries(c)' /\ d.sequence = n + 1
      BY <1>3, <2>2
    <3>2. \A i \in 1..n : \E e \in Entries(c)' : e.sequence = i
      BY <2>2, <2>3
    <3>3. \A i \in 1..n+1 : i \in 1..n \/ i = n + 1
      BY <1>4
    <3> QED
      BY <3>1, <3>2, <3>3
  <2>5. \A e \in Entries(c) : e.sequence \in Nat /\ e.sequence <= n
    BY <1>7, <2>3 DEF Entries
  <2>6. d.sequence = 1 => d.from = "requested"
    BY <1>2, <1>3, <1>4 DEF IndInv, RowsAreWhole
  <2>7. \A e \in Entries(c)' :
          /\ e.sequence <= n + 1
          /\ e.sequence = 1 => e.from = "requested"
          /\ e.sequence = n + 1 => e.to = d.to
    BY <1>3, <1>4, <2>2, <2>3, <2>5, <2>6
  <2>8. ASSUME NEW e \in Entries(c)', NEW f \in Entries(c)'
        PROVE  /\ e.sequence = f.sequence => e = f
               /\ f.sequence = e.sequence + 1 => f.from = e.to
    <3>1. CASE e \in Entries(c) /\ f \in Entries(c)
      BY <2>3, <3>1
    <3>2. CASE e = d /\ f = d
      BY <1>3, <1>4, <3>2
    <3>3. CASE e = d /\ f \in Entries(c)
      BY <1>3, <1>4, <2>5, <3>3
    <3>4. CASE e \in Entries(c) /\ f = d
      <4>1. e.sequence # f.sequence
        BY <1>3, <1>4, <2>5, <3>4
      <4>2. ASSUME f.sequence = e.sequence + 1
            PROVE  f.from = e.to
        <5>1. e.sequence = n
          BY <1>3, <1>4, <2>5, <3>4, <4>2
        <5> QED
          BY <1>3, <2>3, <3>4, <5>1
      <4> QED
        BY <4>1, <4>2
    <3> QED
      BY <2>2, <3>1, <3>2, <3>3, <3>4
  <2>9. ASSUME NEW b \in Communications
        PROVE  LET m == rows'[b].version IN
               /\ \A i \in 1..m : \E e \in Entries(b)' : e.sequence = i
               /\ \A e \in Entries(b)' :
                   /\ e.sequence <= m
                   /\ e.sequence = 1 => e.from = "requested"
                   /\ e.sequence = m => e.to = rows'[b].state
               /\ \A e, f \in Entries(b)' :
                   /\ e.sequence = f.sequence => e = f
                   /\ f.sequence = e.sequence + 1 => f.from = e.to
    <3>1. CASE b = c
      <4>1. rows'[b].version = n + 1 /\ rows'[b].state = d.to
        BY <1>3, <1>6, <3>1
      <4> QED
        BY <2>4, <2>7, <2>8, <3>1, <4>1
    <3>2. CASE b # c
      BY <2>1, <3>2 DEF IndInv, LogIsHistory
    <3> QED
      BY <3>1, <3>2
  <2> QED
    BY <2>9 DEF LogIsHistory
<1>11. LogGoesUp'
  <2>1. Rank[d.from] < Rank[d.to]
    BY <1>3, TriggerGoesUp
  <2>2. \A s \in States : Rank[s] \in 0..7
    BY RankType
  <2>3. rows'[c] # NoRow
    BY <1>2, <1>6 DEF NoRow
  <2>4. ASSUME NEW e \in log, e.communication = c
        PROVE  Rank[e.to] <= Rank[d.from] /\ Rank[e.to] <= Rank[d.to]
    BY <1>2, <1>3, <1>7, <2>1, <2>2, <2>4 DEF IndInv, LogGoesUp
  <2>5. ASSUME NEW e \in log'
        PROVE  /\ Rank[e.from] < Rank[e.to]
               /\ rows'[e.communication] # NoRow
               /\ Rank[e.to] <= Rank[rows'[e.communication].state]
    <3>1. CASE e = d
      BY <1>1, <1>2, <1>6, <2>1, <2>2, <2>3, <3>1
    <3>2. CASE e \in log /\ e.communication = c
      BY <1>6, <2>3, <2>4, <3>2 DEF IndInv, LogGoesUp
    <3>3. CASE e \in log /\ e.communication # c
      BY <1>5, <1>7, <3>3 DEF IndInv, LogGoesUp
    <3> QED
      BY <1>1, <3>1, <3>2, <3>3
  <2>6. ASSUME NEW e \in log', NEW f \in log', e.communication = f.communication,
               e.sequence < f.sequence
        PROVE  Rank[e.to] <= Rank[f.from]
    <3>1. CASE e \in log /\ f \in log
      BY <2>6, <3>1 DEF IndInv, LogGoesUp
    <3>2. CASE f = d /\ e \in log
      BY <1>1, <2>4, <2>6, <3>2
    <3>3. CASE e = d
      <4>1. f \in log => f.sequence <= n
        BY <1>1, <1>2, <2>6, <3>3 DEF IndInv, LogIsHistory, Entries
      <4> QED
        BY <1>1, <1>3, <1>4, <1>7, <2>6, <3>3, <4>1
    <3> QED
      BY <1>1, <3>1, <3>2, <3>3
  <2> QED
    BY <2>5, <2>6 DEF LogGoesUp
<1>12. LogIsChronological'
  <2>1. \A e \in log : rows'[e.communication].createdAt = rows[e.communication].createdAt
    BY <1>5, <1>6, <1>7
  <2>2. rows'[c].createdAt <= d.occurredAt /\ rows'[c].updatedAt = d.occurredAt
    BY <1>2, <1>3, <1>4, <1>6
  <2>3. \A e \in log' : rows'[e.communication].createdAt <= e.occurredAt
    BY <1>1, <2>1, <2>2 DEF IndInv, LogIsChronological
  <2>4. ASSUME NEW b \in Communications \ setBack'
        PROVE  /\ \A e \in Entries(b)' : e.occurredAt <= rows'[b].updatedAt
               /\ \A e, f \in Entries(b)' : e.sequence <= f.sequence => e.occurredAt <= f.occurredAt
    <3>1. b \in Communications \ setBack
      BY <1>1, <2>4
    <3>2. /\ \A e \in Entries(b) : /\ e.occurredAt \in Nat /\ e.sequence \in Nat
                                   /\ e.occurredAt <= rows[b].updatedAt
          /\ \A e, f \in Entries(b) : e.sequence <= f.sequence => e.occurredAt <= f.occurredAt
      BY <1>7, <3>1 DEF IndInv, LogIsChronological, Entries
    <3>3. CASE b # c
      <4>1. Entries(b)' = Entries(b) /\ rows'[b] = rows[b]
        BY <1>1, <1>5, <3>3 DEF Entries
      <4> QED
        BY <3>2, <4>1
    <3>4. CASE b = c
      <4>1. Entries(c)' = Entries(c) \cup {d}
        BY <1>1 DEF Entries
      <4>2. \A e \in Entries(c) : e.occurredAt <= d.occurredAt
        BY <1>2, <1>3, <1>4, <3>2, <3>4
      <4>3. \A e \in Entries(c) : e.sequence <= n
        BY <1>2 DEF IndInv, LogIsHistory
      <4>4. \A e \in Entries(c) : ~(d.sequence <= e.sequence)
        BY <1>3, <1>4, <3>2, <3>4, <4>3
      <4>5. \A e \in Entries(c)' : e.occurredAt <= rows'[c].updatedAt
        BY <1>2, <2>2, <4>1, <4>2
      <4>6. \A e, f \in Entries(c)' : e.sequence <= f.sequence => e.occurredAt <= f.occurredAt
        BY <1>2, <3>2, <3>4, <4>1, <4>2, <4>4
      <4> QED
        BY <3>4, <4>5, <4>6
    <3> QED
      BY <3>3, <3>4
  <2> QED
    BY <2>3, <2>4 DEF LogIsChronological
<1> QED
  BY <1>8, <1>9, <1>10, <1>11, <1>12 DEF IndInv

\* Every step keeps the invariant.
LEMMA NextInv ==
  ASSUME IndInv, [Next]_vars
  PROVE  IndInv'
<1>1. CASE UNCHANGED vars
  BY <1>1 DEF vars, IndInv, TypeOK, RowsAreWhole, LogIsHistory, LogIsChronological, LogGoesUp, Entries
<1>2. CASE Next
  BY <1>2, InsertCommunicationInv, UpdateCommunicationInv, PrepareInv, AuthorizeInv, InsertTransitionInv,
     RejectTransitionInv DEF Next
<1> QED
  BY <1>1, <1>2

\* Whatever stale transitions writers insert, the invariant holds.
THEOREM InvariantHolds == Spec => []IndInv
<1>1. Init => IndInv
  BY InitInv
<1>2. IndInv /\ [Next]_vars => IndInv'
  BY NextInv
<1> QED
  BY <1>1, <1>2, PTL DEF Spec

\* Two entries of one communication start from different states, because the
\* table has no cycle; so a decision is used once.
LEMMA DecisionsDiffer == IndInv => DecisionIsUsedOnce
<1> SUFFICES ASSUME IndInv, NEW d \in log, NEW e \in log,
                    d.communication = e.communication, d.from = e.from, d.to = e.to, d # e
             PROVE  FALSE
  BY DEF DecisionIsUsedOnce
<1>1. /\ d.sequence \in Nat /\ e.sequence \in Nat /\ d.communication \in Communications
      /\ d.from \in States /\ d.to \in States
  BY DEF IndInv, TypeOK, Draft
<1>2. d.sequence # e.sequence
  BY <1>1 DEF IndInv, LogIsHistory, Entries
<1>3. Rank[d.from] \in 0..7 /\ Rank[d.to] \in 0..7 /\ Rank[d.from] < Rank[d.to]
  BY <1>1, RankType DEF IndInv, LogGoesUp
<1>4. d.sequence < e.sequence \/ e.sequence < d.sequence
  BY <1>1, <1>2
<1>5. Rank[d.to] <= Rank[d.from]
  BY <1>4 DEF IndInv, LogGoesUp
<1> QED
  BY <1>3, <1>5

\* The log of every communication is its history, in the order of time unless an
\* UPDATE has set updated_at back, and no decision authorises two transitions (the triggers of migration 0018), for any number of writers.
THEOREM LogSound == Spec => []LogIsSound
<1>1. IndInv => LogIsSound
  BY DecisionsDiffer DEF IndInv, LogIsSound
<1> QED
  BY <1>1, InvariantHolds, PTL

-----------------------------------------------------------------------------
(***************************************************************************)
(* The refinement                                                          *)
(***************************************************************************)

\* The triggers implement the lifecycle of the domain package: inserting an
\* aggregate requests it, the accepted insert of a transition is a transition
\* of canTransitionCommunicationLifecycleState, and nothing else moves it.
THEOREM TriggersImplementLifecycle == Spec => ImplementsLifecycle
<1> DEFINE state == [c \in Communications |-> rows[c].state]
<1>1. Init => Lifecycle!Init
  BY DEF Init, Lifecycle!Init, NoRow
<1>2. ASSUME IndInv, [Next]_vars
      PROVE  [Lifecycle!Next]_state
  <2>1. CASE UNCHANGED rows
    BY <2>1
  <2>2. ASSUME NEW c \in Communications, InsertCommunication(c)
        PROVE  Lifecycle!Next
    <3>1. PICK created \in 0..MaxTime, updated \in 0..MaxTime :
            /\ rows[c] = NoRow
            /\ rows' = [rows EXCEPT ![c] = [state |-> "requested", version |-> 0,
                                            createdAt |-> created, updatedAt |-> updated]]
      BY <2>2 DEF InsertCommunication
    <3>2. state[c] = "none"
      BY <3>1 DEF NoRow
    <3>3. rows \in [Communications -> Row]
      BY <1>2 DEF IndInv, TypeOK
    <3>4. state' = [state EXCEPT ![c] = "requested"]
      BY <3>1, <3>3
    <3> QED
      BY <3>2, <3>4 DEF Lifecycle!Next, Lifecycle!Request
  <2>3. ASSUME NEW w \in Writers, InsertTransition(w)
        PROVE  Lifecycle!Next
    <3>1. PICK d \in Draft, c \in Communications :
            /\ c = d.communication /\ TransitionAccepted(d)
            /\ rows' = [rows EXCEPT ![c] = [state |-> d.to, version |-> d.sequence,
                                            createdAt |-> rows[c].createdAt,
                                            updatedAt |-> d.occurredAt]]
      <4>1. draft[w] \in Draft
        BY <1>2, <2>3 DEF InsertTransition, IndInv, TypeOK
      <4>2. draft[w].communication \in Communications
        BY <4>1 DEF Draft
      <4>3. rows[draft[w].communication] \in Row
        BY <1>2, <4>2 DEF IndInv, TypeOK
      <4> QED
        BY <2>3, <4>1, <4>2, <4>3 DEF InsertTransition
    <3>2. c \in Communications /\ d.from = rows[c].state /\ TriggerAllows(d.from, d.to)
      BY <3>1 DEF Draft, TransitionAccepted
    <3>3. state' = [state EXCEPT ![c] = d.to]
      BY <1>2, <3>1, <3>2 DEF IndInv, TypeOK
    <3>4. d.to \in Lifecycle!States /\ Lifecycle!CanTransition(state[c], d.to) /\ state[c] # "none"
      BY <3>2, TriggerImpliesTable DEF States, Lifecycle!States, Lifecycle!Terminal
    <3>5. Lifecycle!Transition(c)
      BY <3>3, <3>4 DEF Lifecycle!Transition
    <3> QED
      BY <3>2, <3>5 DEF Lifecycle!Next
  <2>4. CASE \E w \in Writers : Prepare(w) \/ Authorize(w) \/ RejectTransition(w)
    BY <2>1, <2>4 DEF Prepare, Authorize, RejectTransition
  <2>5. ASSUME NEW c \in Communications, UpdateCommunication(c)
        PROVE  UNCHANGED state
    <3>1. PICK t \in 0..MaxTime : rows' = [rows EXCEPT ![c].updatedAt = t]
      BY <2>5 DEF UpdateCommunication
    <3>2. rows \in [Communications -> Row] /\ rows[c] \in Row
      BY <1>2 DEF IndInv, TypeOK
    <3>3. \A b \in Communications : rows'[b].state = rows[b].state
      BY <3>1, <3>2 DEF Row
    <3> QED
      BY <3>3
  <2> QED
    BY <1>2, <2>1, <2>2, <2>3, <2>4, <2>5 DEF Next, vars
<1> QED
  BY <1>1, <1>2, InvariantHolds, PTL DEF Spec, ImplementsLifecycle, Lifecycle!Spec

-----------------------------------------------------------------------------
(***************************************************************************)
(* Dispatch under consent and suppression (CommunicationsDispatch).        *)
(***************************************************************************)
Widest == <<Wildcard, Wildcard>>

(***************************************************************************)
(* Transactions and the locks they have still to take.                     *)
(***************************************************************************)

\* The fields of a transaction; an idle connection has none of them.
LEMMA TransactionShape ==
    ASSUME NEW t \in Dispatch!Transaction
    PROVE  /\ t \in [at : {"locking", "written"}, statement : {"insert", "update"},
                     table : {"receipts", "suppressions", "attempts"},
                     row : Dispatch!Receipt \cup Dispatch!Suppression \cup Dispatch!Attempt,
                     now : Dispatch!Instants,
                     todo : Seq(Dispatch!Subject)]
           /\ t.table = "receipts" => t.row \in Dispatch!Receipt
           /\ t.table = "suppressions" => t.row \in Dispatch!Suppression
           /\ t.table = "attempts" => t.row \in Dispatch!Attempt
           /\ t # Dispatch!Idle
BY DEF Dispatch!Transaction, Dispatch!Idle

LEMMA NewTransaction ==
    ASSUME NEW statement \in {"insert", "update"}, NEW now \in Dispatch!Instants,
           NEW todo \in Seq(Dispatch!Subject),
           NEW row, NEW table,
           \/ table = "receipts" /\ row \in Dispatch!Receipt
           \/ table = "suppressions" /\ row \in Dispatch!Suppression
           \/ table = "attempts" /\ row \in Dispatch!Attempt
    PROVE  [at |-> "locking", statement |-> statement, table |-> table, row |-> row,
            now |-> now, todo |-> todo] \in Dispatch!Transaction
BY DEF Dispatch!Transaction

\* A statement of a transaction that is updated keeps the others.
LEMMA WithTodo ==
    ASSUME NEW t \in Dispatch!Transaction, NEW todo \in Seq(Dispatch!Subject)
    PROVE  LET u == [t EXCEPT !.todo = todo] IN
           /\ u \in Dispatch!Transaction
           /\ u.todo = todo /\ u.at = t.at /\ u.table = t.table /\ u.row = t.row /\ u.now = t.now
BY DEF Dispatch!Transaction

LEMMA WithWritten ==
    ASSUME NEW t \in Dispatch!Transaction
    PROVE  LET u == [t EXCEPT !.at = "written"] IN
           /\ u \in Dispatch!Transaction
           /\ u.at = "written" /\ u.todo = t.todo /\ u.table = t.table /\ u.row = t.row
           /\ u.now = t.now
BY DEF Dispatch!Transaction

\* Whatever the subject, the widest lock is the last one.
LEMMA WidestLock ==
    ASSUME NEW ch \in Channels \cup {Wildcard}, NEW pu \in Purposes \cup {Wildcard}
    PROVE  /\ Dispatch!LockKeys(ch, pu) \in Seq(Dispatch!Subject)
           /\ Dispatch!LockKeys(ch, pu) # <<>>
           /\ Dispatch!LockKeys(ch, pu)[Len(Dispatch!LockKeys(ch, pu))] = Widest
BY DEF Dispatch!LockKeys, Dispatch!Subject, Widest

\* Taking the first of the locks leaves the others in their order.
LEMMA TakingTheFirst ==
    ASSUME NEW todo \in Seq(Dispatch!Subject), todo # <<>>, todo[Len(todo)] = Widest
    PROVE  /\ Head(todo) \in Dispatch!Subject /\ Tail(todo) \in Seq(Dispatch!Subject)
           /\ Tail(todo) = <<>> => Head(todo) = Widest
           /\ Tail(todo) # <<>> => Tail(todo)[Len(Tail(todo))] = Widest
<1>1. Len(todo) \in Nat /\ Len(todo) >= 1 /\ Head(todo) = todo[1]
  OBVIOUS
<1>2. Tail(todo) \in Seq(Dispatch!Subject) /\ Len(Tail(todo)) = Len(todo) - 1
  OBVIOUS
<1>3. Head(todo) \in Dispatch!Subject
  OBVIOUS
<1>4. Tail(todo) = <<>> => Head(todo) = Widest
  <2>1. PICK rest : rest = Tail(todo)
    OBVIOUS
  <2>2. rest = <<>> => Len(rest) = 0
    OBVIOUS
  <2>3. rest = <<>> => Len(todo) = 1
    BY <1>1, <1>2, <2>1, <2>2
  <2> QED
    BY <1>1, <2>1, <2>3
<1>5. ASSUME Tail(todo) # <<>> PROVE Tail(todo)[Len(Tail(todo))] = Widest
  <2>1. Len(Tail(todo)) \in 1..Len(todo) - 1
    BY <1>1, <1>2, <1>5
  <2>2. \A i \in 1..Len(todo) - 1 : Tail(todo)[i] = todo[i + 1]
    OBVIOUS
  <2> QED
    BY <1>1, <1>2, <2>1, <2>2
<1> QED
  BY <1>2, <1>3, <1>4, <1>5

LEMMA TailTyped ==
    ASSUME NEW todo \in Seq(Dispatch!Subject), todo # <<>>
    PROVE  Head(todo) \in Dispatch!Subject /\ Tail(todo) \in Seq(Dispatch!Subject)
OBVIOUS

LEMMA NoKeys == <<>> \in Seq(Dispatch!Subject)
OBVIOUS

\* What permits an attempt reads the receipts and the suppressions only.
LEMMA PermissionKept ==
    ASSUME NEW a, NEW t, receipts' = receipts, suppressions' = suppressions
    PROVE  Dispatch!MayQueue(a, t)' <=> Dispatch!MayQueue(a, t)
<1>1. \A ch, pu : Dispatch!RevokedAt(ch, pu, t)' <=> Dispatch!RevokedAt(ch, pu, t)
  BY DEF Dispatch!RevokedAt
<1>2. \A ch, pu : Dispatch!ActiveConsents(ch, pu, t)' = Dispatch!ActiveConsents(ch, pu, t)
  BY <1>1 DEF Dispatch!ActiveConsents
<1>3. \A ch, pu : Dispatch!ActiveSuppressions(ch, pu, t)' = Dispatch!ActiveSuppressions(ch, pu, t)
  BY DEF Dispatch!ActiveSuppressions
<1> QED
  BY <1>2, <1>3 DEF Dispatch!MayQueue

\* An attempt that may be queued belongs to no revoked subject.
LEMMA PermittedIsNotRevoked ==
    ASSUME NEW a, NEW t, Dispatch!MayQueue(a, t)
    PROVE  ~Dispatch!RevokedAt(a.channel, a.purpose, t)
BY DEF Dispatch!MayQueue, Dispatch!ActiveConsents

(***************************************************************************)
(* What the actions do to the transactions.                                *)
(***************************************************************************)

\* A statement that is started: the new transaction is well formed, has the
\* locks of its subject before it, and is evaluated at its own start.
Opens(c, t) ==
    /\ t \in Dispatch!Transaction /\ t.at = "locking"
    /\ Dispatch!TakesLocks(t) => t.todo # <<>> /\ t.todo[Len(t.todo)] = Widest
    /\ (t.table = "attempts" /\ t.row.state = "queued") => t.row.evaluatedAt = t.now

Starts(c) ==
    \/ Dispatch!InsertReceipt(c) \/ Dispatch!InsertSuppression(c) \/ Dispatch!ReleaseSuppression(c)
    \/ Dispatch!InsertAttempt(c) \/ Dispatch!UpdateAttempt(c)

LEMMA StartsOpen ==
    ASSUME Dispatch!ConstantsAssumed, Dispatch!TypeOK, NEW c \in Connections, Starts(c)
    PROVE  /\ txn[c] = Dispatch!Idle
           /\ \E t : Opens(c, t) /\ txn' = [txn EXCEPT ![c] = t]
           /\ started < MaxTxns /\ started' = started + 1
           /\ UNCHANGED <<clock, receipts, suppressions, audits, attempts, held>>
<1>a. clock \in Dispatch!Instants /\ clock \in Nat
      /\ \A from \in 0..clock : from \in Dispatch!Instants
  BY DEF Dispatch!TypeOK, Dispatch!ConstantsAssumed, Dispatch!Instants
<1>1. CASE Dispatch!InsertReceipt(c)
  <2>1. PICK id \in ReceiptIds, st \in {"granted", "denied", "revoked"},
             ch \in Channels, pu \in Purposes, from \in 0..clock, to \in Dispatch!Ends :
          Dispatch!Begin(c, "insert", "receipts",
                [id |-> id, status |-> st, channel |-> ch, purpose |-> pu,
                 effectiveAt |-> from, expiresAt |-> to], Dispatch!LockKeys(ch, pu))
    BY <1>1 DEF Dispatch!InsertReceipt
  <2> DEFINE row == [id |-> id, status |-> st, channel |-> ch, purpose |-> pu,
                     effectiveAt |-> from, expiresAt |-> to]
             keys == Dispatch!LockKeys(ch, pu)
             t == [at |-> "locking", statement |-> "insert", table |-> "receipts", row |-> row,
                   now |-> clock, todo |-> keys]
  <2>2. row \in Dispatch!Receipt
    BY <1>a DEF Dispatch!Receipt
  <2>3. keys \in Seq(Dispatch!Subject) /\ keys # <<>> /\ keys[Len(keys)] = Widest
    BY WidestLock
  <2> HIDE DEF row, keys
  <2>4. t \in Dispatch!Transaction
    BY <1>a, <2>2, <2>3, NewTransaction
  <2>5. Opens(c, t)
    BY <2>3, <2>4 DEF Opens, Dispatch!TakesLocks
  <2> QED
    BY <2>1, <2>5 DEF Dispatch!Begin, row, keys
<1>2. CASE Dispatch!InsertSuppression(c)
  <2>1. PICK id \in SuppressionIds, ch \in Channels \cup {Wildcard},
        pu \in Purposes \cup {Wildcard},
             from \in 0..clock, to \in Dispatch!Ends :
          Dispatch!Begin(c, "insert", "suppressions",
                [id |-> id, status |-> "active", channel |-> ch,
                 purpose |-> pu, createdAt |-> from, expiresAt |-> to], Dispatch!LockKeys(ch, pu))
    BY <1>2 DEF Dispatch!InsertSuppression
  <2> DEFINE row == [id |-> id, status |-> "active", channel |-> ch,
                     purpose |-> pu, createdAt |-> from, expiresAt |-> to]
             keys == Dispatch!LockKeys(ch, pu)
             t == [at |-> "locking", statement |-> "insert", table |-> "suppressions", row |-> row,
                   now |-> clock, todo |-> keys]
  <2>2. row \in Dispatch!Suppression
    BY <1>a DEF Dispatch!Suppression
  <2>3. keys \in Seq(Dispatch!Subject) /\ keys # <<>> /\ keys[Len(keys)] = Widest
    BY WidestLock
  <2> HIDE DEF row, keys
  <2>4. t \in Dispatch!Transaction
    BY <1>a, <2>2, <2>3, NewTransaction
  <2>5. Opens(c, t)
    BY <2>3, <2>4 DEF Opens, Dispatch!TakesLocks
  <2> QED
    BY <2>1, <2>5 DEF Dispatch!Begin, row, keys
<1>3. CASE Dispatch!ReleaseSuppression(c)
  <2>1. PICK s \in suppressions :
          Dispatch!Begin(c, "update", "suppressions", [s EXCEPT !.status = "released"],
                Dispatch!LockKeys(s.channel, s.purpose))
    BY <1>3 DEF Dispatch!ReleaseSuppression
  <2> DEFINE row == [s EXCEPT !.status = "released"]
             keys == Dispatch!LockKeys(s.channel, s.purpose)
             t == [at |-> "locking", statement |-> "update", table |-> "suppressions", row |-> row,
                   now |-> clock, todo |-> keys]
  <2>2. s \in Dispatch!Suppression /\ row \in Dispatch!Suppression
    BY DEF Dispatch!Suppression, Dispatch!TypeOK
  <2>3. keys \in Seq(Dispatch!Subject) /\ keys # <<>> /\ keys[Len(keys)] = Widest
    BY <2>2, WidestLock DEF Dispatch!Suppression
  <2> HIDE DEF row, keys
  <2>4. t \in Dispatch!Transaction
    BY <1>a, <2>2, <2>3, NewTransaction
  <2>5. Opens(c, t)
    BY <2>3, <2>4 DEF Opens, Dispatch!TakesLocks
  <2> QED
    BY <2>1, <2>5 DEF Dispatch!Begin, row, keys
<1>4. CASE Dispatch!InsertAttempt(c)
  <2>1. PICK id \in AttemptIds, st \in Dispatch!AttemptStates, ch \in Channels, pu \in Purposes,
             consent \in {r.id : r \in receipts} \cup {"none"} :
          Dispatch!Begin(c, "insert", "attempts",
                [id |-> id, state |-> st, channel |-> ch, purpose |-> pu,
                 consent |-> consent, evaluatedAt |-> clock],
                IF st = "queued" THEN Dispatch!LockKeys(ch, pu) ELSE <<>>)
    BY <1>4 DEF Dispatch!InsertAttempt
  <2> DEFINE row == [id |-> id, state |-> st, channel |-> ch, purpose |-> pu,
                     consent |-> consent, evaluatedAt |-> clock]
             keys == IF st = "queued" THEN Dispatch!LockKeys(ch, pu) ELSE <<>>
             t == [at |-> "locking", statement |-> "insert", table |-> "attempts", row |-> row,
                   now |-> clock, todo |-> keys]
  <2>2. row \in Dispatch!Attempt /\ row.state = st /\ row.evaluatedAt = clock
    BY <1>a DEF Dispatch!Attempt, Dispatch!Receipt, Dispatch!TypeOK
  <2>3. keys \in Seq(Dispatch!Subject) /\ (st = "queued" => keys # <<>> /\ keys[Len(keys)] = Widest)
    BY WidestLock, NoKeys
  <2> HIDE DEF row, keys
  <2>4. t \in Dispatch!Transaction
    BY <1>a, <2>2, <2>3, NewTransaction
  <2>5. Opens(c, t)
    BY <2>2, <2>3, <2>4 DEF Opens, Dispatch!TakesLocks
  <2> QED
    BY <2>1, <2>5 DEF Dispatch!Begin, row, keys
<1>5. CASE Dispatch!UpdateAttempt(c)
  <2>1. PICK a \in attempts, st \in Dispatch!AttemptStates :
          Dispatch!Begin(c, "update", "attempts",
                [a EXCEPT !.state = st,
                          !.evaluatedAt = IF st = "queued" THEN clock ELSE @],
                IF st = "queued" THEN Dispatch!LockKeys(a.channel, a.purpose) ELSE <<>>)
    BY <1>5 DEF Dispatch!UpdateAttempt
  <2> DEFINE row == [a EXCEPT !.state = st, !.evaluatedAt = IF st = "queued" THEN clock ELSE @]
             keys == IF st = "queued" THEN Dispatch!LockKeys(a.channel, a.purpose) ELSE <<>>
             t == [at |-> "locking", statement |-> "update", table |-> "attempts", row |-> row,
                   now |-> clock, todo |-> keys]
  <2>2. /\ a \in Dispatch!Attempt /\ row \in Dispatch!Attempt /\ row.state = st
        /\ st = "queued" => row.evaluatedAt = clock
    BY <1>a DEF Dispatch!Attempt, Dispatch!TypeOK
  <2>3. keys \in Seq(Dispatch!Subject) /\ (st = "queued" => keys # <<>> /\ keys[Len(keys)] = Widest)
    BY <2>2, WidestLock, NoKeys DEF Dispatch!Attempt
  <2> HIDE DEF row, keys
  <2>4. t \in Dispatch!Transaction
    BY <1>a, <2>2, <2>3, NewTransaction
  <2>5. Opens(c, t)
    BY <2>2, <2>3, <2>4 DEF Opens, Dispatch!TakesLocks
  <2> QED
    BY <2>1, <2>5 DEF Dispatch!Begin, row, keys
<1> QED
  BY <1>1, <1>2, <1>3, <1>4, <1>5 DEF Starts

\* The steps by which a transaction goes on.
LEMMA TakesALock ==
    ASSUME Dispatch!TypeOK, NEW c \in Connections, Dispatch!TakeLock(c)
    PROVE  /\ txn[c] \in Dispatch!Transaction /\ txn[c].at = "locking" /\ txn[c].todo # <<>>
           /\ txn' = [txn EXCEPT ![c] = [txn[c] EXCEPT !.todo = Tail(txn[c].todo)]]
BY DEF Dispatch!TakeLock, Dispatch!TypeOK, Dispatch!Idle

LEMMA RunsTriggers ==
    ASSUME Dispatch!TypeOK, NEW c \in Connections, Dispatch!RunTriggers(c)
    PROVE  /\ txn[c] \in Dispatch!Transaction /\ txn[c].at = "locking" /\ txn[c].todo = <<>>
           /\ txn' = [txn EXCEPT ![c] = [txn[c] EXCEPT !.at = "written"]]
BY DEF Dispatch!RunTriggers, Dispatch!TypeOK, Dispatch!Idle

LEMMA EndsTransaction ==
    ASSUME Dispatch!TypeOK, NEW c \in Connections, Dispatch!Commit(c) \/ Dispatch!Rollback(c)
    PROVE  /\ txn[c] \in Dispatch!Transaction
           /\ txn' = [txn EXCEPT ![c] = Dispatch!Idle]
           /\ held' = Dispatch!Unlocked(c)
           /\ UNCHANGED <<clock, audits, started>>
BY DEF Dispatch!Commit, Dispatch!Rollback, Dispatch!TypeOK, Dispatch!Idle

\* Of the transactions that take locks, the one that has all of them holds the
\* widest; so no two of them are between their triggers and their commit.
LEMMA OneAtATime ==
    ASSUME Dispatch!IndInv, NEW c \in Connections, NEW d \in Connections, c # d,
           txn[c] # Dispatch!Idle, txn[c].at = "written", Dispatch!TakesLocks(txn[c]),
           txn[d] # Dispatch!Idle, txn[d].at = "written"
    PROVE  ~Dispatch!TakesLocks(txn[d])
BY DEF Dispatch!IndInv, Dispatch!WidestIsLast, Dispatch!WrittenIsPermitted

(***************************************************************************)
(* The parts of the inductive invariant.                                   *)
(***************************************************************************)
LEMMA InitHolds == Dispatch!ConstantsAssumed /\ Dispatch!Init => Dispatch!IndInv
<1> SUFFICES ASSUME Dispatch!ConstantsAssumed, Dispatch!Init PROVE Dispatch!IndInv
  OBVIOUS
<1>1. Dispatch!TypeOK
  BY DEF Dispatch!Init, Dispatch!TypeOK, Dispatch!ConstantsAssumed, Dispatch!Instants
<1>2. \A c \in Connections : txn[c] = Dispatch!Idle
  BY DEF Dispatch!Init
<1> QED
  BY <1>1, <1>2 DEF Dispatch!IndInv, Dispatch!WidestIsLast, Dispatch!WrittenIsPermitted,
     Dispatch!EvaluatedAtStart

LEMMA KeepsType ==
    ASSUME Dispatch!ConstantsAssumed, Dispatch!TypeOK, Dispatch!Next
    PROVE  Dispatch!TypeOK'
<1>1. CASE Dispatch!Tick
  BY <1>1 DEF Dispatch!Tick, Dispatch!TypeOK, Dispatch!Instants, Dispatch!ConstantsAssumed
<1>2. ASSUME NEW c \in Connections, Starts(c) PROVE Dispatch!TypeOK'
  <2>1. PICK t : t \in Dispatch!Transaction /\ txn' = [txn EXCEPT ![c] = t]
    BY <1>2, StartsOpen DEF Opens
  <2>2. txn' \in [Connections -> Dispatch!Transaction \cup {Dispatch!Idle}]
    BY <2>1 DEF Dispatch!TypeOK
  <2>3. started' \in 0..MaxTxns
    BY <1>2, StartsOpen DEF Dispatch!TypeOK, Dispatch!ConstantsAssumed
  <2>4. UNCHANGED <<clock, receipts, suppressions, audits, attempts, held>>
    BY <1>2, StartsOpen
  <2> QED
    BY <2>2, <2>3, <2>4 DEF Dispatch!TypeOK
<1>3. ASSUME NEW c \in Connections, Dispatch!AuditRelease(c) PROVE Dispatch!TypeOK'
  BY <1>3 DEF Dispatch!AuditRelease, Dispatch!TypeOK, Dispatch!Suppression
<1>4. ASSUME NEW c \in Connections, Dispatch!TakeLock(c) PROVE Dispatch!TypeOK'
  <2>1. txn[c].todo \in Seq(Dispatch!Subject) /\ txn[c].todo # <<>>
    BY <1>4, TakesALock, TransactionShape
  <2>2. Head(txn[c].todo) \in Dispatch!Subject /\ Tail(txn[c].todo) \in Seq(Dispatch!Subject)
    BY <2>1, TailTyped
  <2>3. [txn[c] EXCEPT !.todo = Tail(txn[c].todo)] \in Dispatch!Transaction
    BY <1>4, <2>2, TakesALock, WithTodo
  <2>4. txn' \in [Connections -> Dispatch!Transaction \cup {Dispatch!Idle}]
    BY <1>4, <2>3, TakesALock DEF Dispatch!TypeOK
  <2>5. held' \in [Dispatch!Subject -> Connections \cup {Dispatch!Free}]
    BY <1>4, <2>2 DEF Dispatch!TakeLock, Dispatch!TypeOK
  <2> QED
    BY <1>4, <2>4, <2>5 DEF Dispatch!TakeLock, Dispatch!TypeOK
<1>5. ASSUME NEW c \in Connections, Dispatch!RunTriggers(c) PROVE Dispatch!TypeOK'
  <2>1. [txn[c] EXCEPT !.at = "written"] \in Dispatch!Transaction
    BY <1>5, RunsTriggers, WithWritten
  <2>2. txn' \in [Connections -> Dispatch!Transaction \cup {Dispatch!Idle}]
    BY <1>5, <2>1, RunsTriggers DEF Dispatch!TypeOK
  <2> QED
    BY <1>5, <2>2 DEF Dispatch!RunTriggers, Dispatch!TypeOK
<1>6. ASSUME NEW c \in Connections, Dispatch!Commit(c)
             \/ Dispatch!Rollback(c) PROVE Dispatch!TypeOK'
  <2>1. txn' \in [Connections -> Dispatch!Transaction \cup {Dispatch!Idle}]
    BY <1>6, EndsTransaction DEF Dispatch!TypeOK
  <2>2. held' \in [Dispatch!Subject -> Connections \cup {Dispatch!Free}]
    BY <1>6, EndsTransaction DEF Dispatch!TypeOK, Dispatch!Unlocked
  <2>3. receipts' \subseteq Dispatch!Receipt /\ suppressions' \subseteq Dispatch!Suppression
        /\ attempts' \subseteq Dispatch!Attempt
    BY <1>6, EndsTransaction, TransactionShape DEF Dispatch!Commit, Dispatch!Rollback,
       Dispatch!Replace, Dispatch!TypeOK
  <2> QED
    BY <1>6, <2>1, <2>2, <2>3, EndsTransaction DEF Dispatch!TypeOK
<1> QED
  BY <1>1, <1>2, <1>3, <1>4, <1>5, <1>6 DEF Dispatch!Next, Dispatch!Step, Starts

\* The transactions of the other connections, and the widest lock they hold,
\* are left alone by every step.
LEMMA OthersKept ==
    ASSUME Dispatch!ConstantsAssumed, Dispatch!IndInv, NEW c \in Connections,
           NEW d \in Connections, c # d,
           \/ Starts(c) \/ Dispatch!AuditRelease(c) \/ Dispatch!Step(c)
    PROVE  /\ txn'[d] = txn[d]
           /\ held[Widest] = d => held'[Widest] = d
<1>0. Dispatch!TypeOK /\ Widest \in Dispatch!Subject /\ d # Dispatch!Free
  BY DEF Dispatch!IndInv, Widest, Dispatch!Subject, Dispatch!ConstantsAssumed, Dispatch!Free
<1>1. CASE Starts(c)
  BY <1>0, <1>1, StartsOpen DEF Dispatch!TypeOK
<1>2. CASE Dispatch!AuditRelease(c)
  BY <1>2 DEF Dispatch!AuditRelease
<1>3. CASE Dispatch!TakeLock(c)
  BY <1>0, <1>3 DEF Dispatch!TakeLock, Dispatch!TypeOK
<1>4. CASE Dispatch!RunTriggers(c)
  BY <1>0, <1>4 DEF Dispatch!RunTriggers, Dispatch!TypeOK
<1>5. CASE Dispatch!Commit(c) \/ Dispatch!Rollback(c)
  BY <1>0, <1>5, EndsTransaction DEF Dispatch!Unlocked, Dispatch!TypeOK
<1> QED
  BY <1>1, <1>2, <1>3, <1>4, <1>5 DEF Dispatch!Step

\* The connection that acts: after the step it is idle, has just started, has
\* one lock more, or has run its triggers.
LEMMA OwnStep ==
    ASSUME Dispatch!ConstantsAssumed, Dispatch!IndInv, NEW c \in Connections,
           \/ Starts(c) \/ Dispatch!AuditRelease(c) \/ Dispatch!Step(c)
    PROVE  LET t == txn'[c] IN
           t # Dispatch!Idle =>
             /\ Dispatch!TakesLocks(t) => IF t.todo = <<>> THEN held'[Widest] = c
                                 ELSE t.todo[Len(t.todo)] = Widest
             /\ t.at = "written" => t.todo = <<>>
             /\ (t.at = "written" /\ t.table = "attempts" /\ t.row.state = "queued") =>
                  Dispatch!MayQueue(t.row, t.now)
             /\ (t.table = "attempts" /\ t.row.state = "queued") => t.row.evaluatedAt = t.now
<1>0. Dispatch!TypeOK /\ Widest \in Dispatch!Subject
  BY DEF Dispatch!IndInv, Widest, Dispatch!Subject
<1>1. CASE Starts(c)
  <2>1. PICK t : Opens(c, t) /\ txn' = [txn EXCEPT ![c] = t]
    BY <1>0, <1>1, StartsOpen
  <2>2. txn'[c] = t
    BY <1>0, <2>1 DEF Dispatch!TypeOK
  <2>3. t.at # "written"
    BY <2>1 DEF Opens
  <2> QED
    BY <2>1, <2>2, <2>3 DEF Opens
<1>2. CASE Dispatch!AuditRelease(c)
  BY <1>2 DEF Dispatch!AuditRelease
<1>3. CASE Dispatch!TakeLock(c)
  <2>1. /\ txn[c] \in Dispatch!Transaction /\ txn[c].at = "locking" /\ txn[c].todo # <<>>
        /\ txn' = [txn EXCEPT ![c] = [txn[c] EXCEPT !.todo = Tail(txn[c].todo)]]
    BY <1>0, <1>3, TakesALock
  <2>2. PICK before : before = txn[c]
    OBVIOUS
  <2>3. PICK rest : rest = Tail(before.todo)
    OBVIOUS
  <2>4. before \in Dispatch!Transaction /\ before.todo \in Seq(Dispatch!Subject)
        /\ before # Dispatch!Idle
    BY <2>1, <2>2, TransactionShape
  <2>5. Head(before.todo) \in Dispatch!Subject /\ rest \in Seq(Dispatch!Subject)
    BY <2>1, <2>2, <2>3, <2>4, TailTyped
  <2>6. PICK t : t = [before EXCEPT !.todo = rest]
    OBVIOUS
  <2>7. /\ t.todo = rest /\ t.at = before.at /\ t.table = before.table /\ t.row = before.row
        /\ t.now = before.now
    BY <2>4, <2>5, <2>6, WithTodo
  <2>8. txn'[c] = t
    BY <1>0, <2>1, <2>2, <2>3, <2>6 DEF Dispatch!TypeOK
  <2>9. t.at # "written"
    BY <2>1, <2>2, <2>7
  <2>10. ASSUME Dispatch!TakesLocks(t)
         PROVE  IF t.todo = <<>> THEN held'[Widest] = c ELSE t.todo[Len(t.todo)] = Widest
    <3>1. Dispatch!TakesLocks(before)
      BY <2>7, <2>10 DEF Dispatch!TakesLocks
    <3>2. before.todo # <<>> /\ before.todo[Len(before.todo)] = Widest
      BY <2>1, <2>2, <2>4, <3>1 DEF Dispatch!IndInv, Dispatch!WidestIsLast, Widest
    <3>3. /\ rest = <<>> => Head(before.todo) = Widest
          /\ rest # <<>> => rest[Len(rest)] = Widest
      BY <2>3, <2>4, <3>2, TakingTheFirst
    <3>4. held' = [held EXCEPT ![Head(before.todo)] = c]
      BY <1>3, <2>2 DEF Dispatch!TakeLock
    <3>5. rest = <<>> => held'[Widest] = c
      BY <1>0, <3>3, <3>4 DEF Dispatch!TypeOK
    <3> QED
      BY <2>7, <3>3, <3>5
  <2>11. (t.table = "attempts" /\ t.row.state = "queued") => t.row.evaluatedAt = t.now
    BY <2>2, <2>4, <2>7 DEF Dispatch!IndInv, Dispatch!EvaluatedAtStart
  <2> QED
    BY <2>8, <2>9, <2>10, <2>11
<1>4. CASE Dispatch!RunTriggers(c)
  <2>1. /\ txn[c] \in Dispatch!Transaction /\ txn[c].at = "locking" /\ txn[c].todo = <<>>
        /\ txn' = [txn EXCEPT ![c] = [txn[c] EXCEPT !.at = "written"]]
    BY <1>0, <1>4, RunsTriggers
  <2>2. PICK before : before = txn[c]
    OBVIOUS
  <2>3. PICK t : t = [before EXCEPT !.at = "written"]
    OBVIOUS
  <2>4. before # Dispatch!Idle
    BY <2>1, <2>2, TransactionShape
  <2>5. /\ t.todo = <<>> /\ t.table = before.table /\ t.row = before.row
        /\ t.now = before.now
    BY <2>1, <2>2, <2>3, WithWritten
  <2>6. txn'[c] = t
    BY <1>0, <2>1, <2>2, <2>3 DEF Dispatch!TypeOK
  <2>7. Dispatch!TakesLocks(t) => held'[Widest] = c
    <3>1. Dispatch!TakesLocks(t) => Dispatch!TakesLocks(before)
      BY <2>5 DEF Dispatch!TakesLocks
    <3>2. Dispatch!TakesLocks(before) => held[Widest] = c
      BY <2>1, <2>2, <2>4 DEF Dispatch!IndInv, Dispatch!WidestIsLast, Widest
    <3>3. held' = held
      BY <1>4 DEF Dispatch!RunTriggers
    <3> QED
      BY <3>1, <3>2, <3>3
  <2>8. (t.table = "attempts" /\ t.row.state = "queued") => Dispatch!MayQueue(t.row, t.now)
    BY <1>4, <2>2, <2>5 DEF Dispatch!RunTriggers, Dispatch!Accepted
  <2>9. (t.table = "attempts" /\ t.row.state = "queued") => t.row.evaluatedAt = t.now
    BY <2>2, <2>4, <2>5 DEF Dispatch!IndInv, Dispatch!EvaluatedAtStart
  <2> QED
    BY <2>5, <2>6, <2>7, <2>8, <2>9
<1>5. CASE Dispatch!Commit(c) \/ Dispatch!Rollback(c)
  BY <1>0, <1>5, EndsTransaction DEF Dispatch!TypeOK
<1> QED
  BY <1>1, <1>2, <1>3, <1>4, <1>5 DEF Dispatch!Step

\* Receipts and suppressions change only when a transaction that has taken the
\* locks commits, and then no attempt is between its triggers and its commit.
LEMMA PermissionsHeld ==
    ASSUME Dispatch!ConstantsAssumed, Dispatch!IndInv, Dispatch!Next, NEW d \in Connections,
           txn'[d] # Dispatch!Idle, txn'[d].at = "written", txn'[d].table = "attempts",
           txn'[d].row.state = "queued"
    PROVE  /\ Dispatch!MayQueue(txn'[d].row, txn'[d].now)
           /\ receipts' = receipts /\ suppressions' = suppressions
<1>1. CASE Dispatch!Tick
  BY <1>1 DEF Dispatch!Tick, Dispatch!IndInv, Dispatch!WrittenIsPermitted
<1>2. ASSUME NEW c \in Connections, Starts(c) \/ Dispatch!AuditRelease(c) \/ Dispatch!Step(c)
      PROVE  Dispatch!MayQueue(txn'[d].row, txn'[d].now) /\ receipts' = receipts
             /\ suppressions' = suppressions
  <2>0. Dispatch!TypeOK
    BY DEF Dispatch!IndInv
  <2>1. Dispatch!MayQueue(txn'[d].row, txn'[d].now)
    <3>1. CASE c = d
      BY <1>2, <3>1, OwnStep
    <3>2. CASE c # d
      <4>1. txn'[d] = txn[d]
        BY <1>2, <3>2, OthersKept
      <4> QED
        BY <4>1 DEF Dispatch!IndInv, Dispatch!WrittenIsPermitted
    <3> QED
      BY <3>1, <3>2
  <2>2. CASE Dispatch!Commit(c)
    <3>1. txn'[c] = Dispatch!Idle /\ txn[c] # Dispatch!Idle /\ txn[c].at = "written"
          /\ txn[c] \in Dispatch!Transaction
      BY <2>0, <2>2, EndsTransaction, TransactionShape DEF Dispatch!TypeOK, Dispatch!Commit
    <3>2. c # d
      BY <3>1
    <3>3. txn'[d] = txn[d]
      BY <1>2, <3>2, OthersKept
    <3>4. Dispatch!TakesLocks(txn[d])
      BY <3>3 DEF Dispatch!TakesLocks
    <3>5. ~Dispatch!TakesLocks(txn[c])
      BY <3>1, <3>2, <3>3, <3>4, OneAtATime
    <3>6. txn[c].table = "attempts"
      BY <3>5 DEF Dispatch!TakesLocks
    <3> QED
      BY <2>1, <2>2, <3>6 DEF Dispatch!Commit
  <2>3. CASE ~Dispatch!Commit(c)
    <3>1. receipts' = receipts /\ suppressions' = suppressions
      BY <1>2, <2>0, <2>3, StartsOpen DEF Dispatch!AuditRelease, Dispatch!Step, Dispatch!TakeLock,
         Dispatch!RunTriggers, Dispatch!Rollback
    <3> QED
      BY <2>1, <3>1
  <2> QED
    BY <2>2, <2>3
<1> QED
  BY <1>1, <1>2 DEF Dispatch!Next, Starts

LEMMA KeepsInvariant ==
    ASSUME Dispatch!ConstantsAssumed, Dispatch!IndInv, Dispatch!Next
    PROVE  Dispatch!IndInv'
<1>1. Dispatch!TypeOK'
  BY KeepsType DEF Dispatch!IndInv
<1>2. ASSUME Dispatch!Tick \/ \E c \in Connections : Starts(c) \/ Dispatch!AuditRelease(c)
             \/ Dispatch!Step(c),
             NEW d \in Connections, txn'[d] # Dispatch!Idle
      PROVE  LET t == txn'[d] IN
             /\ Dispatch!TakesLocks(t) => IF t.todo = <<>> THEN held'[Widest] = d
                                 ELSE t.todo[Len(t.todo)] = Widest
             /\ t.at = "written" => t.todo = <<>>
             /\ (t.table = "attempts" /\ t.row.state = "queued") => t.row.evaluatedAt = t.now
  <2>1. CASE Dispatch!Tick
    BY <1>2, <2>1 DEF Dispatch!Tick, Dispatch!IndInv, Dispatch!WidestIsLast,
       Dispatch!WrittenIsPermitted, Dispatch!EvaluatedAtStart, Widest
  <2>2. ASSUME NEW c \in Connections, Starts(c) \/ Dispatch!AuditRelease(c)
               \/ Dispatch!Step(c), c # d
        PROVE  LET t == txn'[d] IN
             /\ Dispatch!TakesLocks(t) => IF t.todo = <<>> THEN held'[Widest] = d
                                 ELSE t.todo[Len(t.todo)] = Widest
             /\ t.at = "written" => t.todo = <<>>
             /\ (t.table = "attempts" /\ t.row.state = "queued") => t.row.evaluatedAt = t.now
    <3>1. txn'[d] = txn[d] /\ (held[Widest] = d => held'[Widest] = d)
      BY <2>2, OthersKept
    <3> QED
      BY <1>2, <3>1 DEF Dispatch!IndInv, Dispatch!WidestIsLast, Dispatch!WrittenIsPermitted,
         Dispatch!EvaluatedAtStart, Widest
  <2>3. ASSUME Starts(d) \/ Dispatch!AuditRelease(d) \/ Dispatch!Step(d)
        PROVE  LET t == txn'[d] IN
             /\ Dispatch!TakesLocks(t) => IF t.todo = <<>> THEN held'[Widest] = d
                                 ELSE t.todo[Len(t.todo)] = Widest
             /\ t.at = "written" => t.todo = <<>>
             /\ (t.table = "attempts" /\ t.row.state = "queued") => t.row.evaluatedAt = t.now
    BY <1>2, <2>3, OwnStep
  <2> QED
    BY <1>2, <2>1, <2>2, <2>3
<1>3. Dispatch!Tick \/ \E c \in Connections : Starts(c) \/ Dispatch!AuditRelease(c)
      \/ Dispatch!Step(c)
  BY DEF Dispatch!Next, Starts
<1>4. Dispatch!WidestIsLast'
  BY <1>2, <1>3 DEF Dispatch!WidestIsLast, Widest, Dispatch!TakesLocks
<1>5. Dispatch!EvaluatedAtStart'
  BY <1>2, <1>3 DEF Dispatch!EvaluatedAtStart
<1>6. Dispatch!WrittenIsPermitted'
  <2> SUFFICES ASSUME NEW d \in Connections, txn'[d] # Dispatch!Idle, txn'[d].at = "written"
               PROVE  /\ txn'[d].todo = <<>>
                      /\ (txn'[d].table = "attempts" /\ txn'[d].row.state = "queued") =>
                            Dispatch!MayQueue(txn[d].row, txn[d].now)'
    BY DEF Dispatch!WrittenIsPermitted, Dispatch!Idle
  <2>1. txn'[d].todo = <<>>
    BY <1>2, <1>3
  <2>2. ASSUME txn'[d].table = "attempts", txn'[d].row.state = "queued"
        PROVE  Dispatch!MayQueue(txn[d].row, txn[d].now)'
    <3>1. PICK row, now : row = txn'[d].row /\ now = txn'[d].now
      OBVIOUS
    <3>2. Dispatch!MayQueue(row, now) /\ receipts' = receipts /\ suppressions' = suppressions
      BY <2>2, <3>1, PermissionsHeld
    <3>3. Dispatch!MayQueue(row, now)'
      BY <3>2, PermissionKept
    <3> QED
      BY <3>1, <3>3
  <2> QED
    BY <2>1, <2>2
<1> QED
  BY <1>1, <1>4, <1>5, <1>6 DEF Dispatch!IndInv

LEMMA Stutters ==
    ASSUME Dispatch!IndInv, UNCHANGED Dispatch!vars
    PROVE  Dispatch!IndInv'
<1>1. Dispatch!TypeOK' /\ Dispatch!WidestIsLast' /\ Dispatch!EvaluatedAtStart'
  BY DEF Dispatch!IndInv, Dispatch!TypeOK, Dispatch!WidestIsLast, Dispatch!EvaluatedAtStart,
     Dispatch!TakesLocks, Dispatch!vars
<1>2. Dispatch!WrittenIsPermitted'
  <2>1. receipts' = receipts /\ suppressions' = suppressions /\ txn' = txn
    BY DEF Dispatch!vars
  <2>2. \A a, t : Dispatch!MayQueue(a, t)' <=> Dispatch!MayQueue(a, t)
    BY <2>1, PermissionKept
  <2> QED
    BY <2>1, <2>2 DEF Dispatch!IndInv, Dispatch!WrittenIsPermitted
<1> QED
  BY <1>1, <1>2 DEF Dispatch!IndInv

(***************************************************************************)
(* The theorems.                                                           *)
(***************************************************************************)

\* Migration 0018's dispatch, with any connections, channels and purposes: the
\* inductive invariant.  Every transaction that takes locks ends its list with
\* the widest one, so between its triggers and its commit it holds that lock,
\* and what its triggers permitted stays permitted.
THEOREM DispatchInvariantHolds ==
    Dispatch!Spec => []Dispatch!IndInv
<1>1. Dispatch!Init => Dispatch!IndInv
  BY InitHolds, DispatchConstants
<1>2. Dispatch!IndInv /\ [Dispatch!Next]_Dispatch!vars => Dispatch!IndInv'
  BY KeepsInvariant, Stutters, DispatchConstants
<1> QED
  BY <1>1, <1>2, PTL DEF Dispatch!Spec

\* enforce_communication_dispatch_policy_v1 of migration 0018: no step commits a
\* queued attempt that the consents and suppressions committed by then do not
\* permit at the start of its transaction, and a revocation that escaped took
\* effect after that.
THEOREM DispatchStaysPermitted ==
    Dispatch!Spec => DispatchIsPermitted
<1>1. ASSUME Dispatch!IndInv, Dispatch!Next
      PROVE  Dispatch!QueuedIsPermitted
  <2>0. Dispatch!TypeOK
    BY <1>1 DEF Dispatch!IndInv
  <2> SUFFICES ASSUME NEW a \in attempts' \ attempts, a.state = "queued"
               PROVE  Dispatch!MayQueue(a, a.evaluatedAt)
    BY DEF Dispatch!QueuedIsPermitted
  <2>1. PICK c \in Connections : Dispatch!Commit(c)
    <3>1. Dispatch!Tick => attempts' = attempts
      BY DEF Dispatch!Tick
    <3>2. \A c \in Connections : Starts(c) => attempts' = attempts
      BY <2>0, StartsOpen, DispatchConstants
    <3>3. \A c \in Connections : Dispatch!AuditRelease(c) \/ Dispatch!TakeLock(c)
          \/ Dispatch!RunTriggers(c) \/ Dispatch!Rollback(c)
            => attempts' = attempts
      BY DEF Dispatch!AuditRelease, Dispatch!TakeLock, Dispatch!RunTriggers, Dispatch!Rollback
    <3> QED
      BY <1>1, <3>1, <3>2, <3>3 DEF Dispatch!Next, Dispatch!Step, Starts
  <2>2. a = txn[c].row /\ txn[c].table = "attempts" /\ txn[c].at = "written"
    BY <2>1 DEF Dispatch!Commit, Dispatch!Replace
  <2>3. txn[c] # Dispatch!Idle
    BY <2>2 DEF Dispatch!Idle
  <2> QED
    BY <1>1, <2>2, <2>3 DEF Dispatch!IndInv, Dispatch!WrittenIsPermitted, Dispatch!EvaluatedAtStart
<1>2. ASSUME Dispatch!IndInv, Dispatch!Next
      PROVE  Dispatch!OnlyLateRevocationsEscape
  <2> SUFFICES ASSUME NEW a \in attempts' \ attempts, NEW r \in receipts,
                      a.state = "queued", r.status = "revoked",
                      r.channel = a.channel, r.purpose = a.purpose
               PROVE  a.evaluatedAt < r.effectiveAt
    BY DEF Dispatch!OnlyLateRevocationsEscape
  <2>1. Dispatch!MayQueue(a, a.evaluatedAt)
    BY <1>1, <1>2 DEF Dispatch!QueuedIsPermitted
  <2>2. ~(r.effectiveAt <= a.evaluatedAt)
    BY <2>1, PermittedIsNotRevoked DEF Dispatch!RevokedAt
  <2>3. Dispatch!TypeOK /\ Dispatch!TypeOK'
    BY <1>2, KeepsType, DispatchConstants DEF Dispatch!IndInv
  <2>4. a.evaluatedAt \in Nat /\ r.effectiveAt \in Nat
    BY <2>3 DEF Dispatch!TypeOK, Dispatch!Attempt, Dispatch!Receipt, Dispatch!Instants
  <2> QED
    BY <2>2, <2>4
<1>3. Dispatch!IndInv /\ [Dispatch!Next]_Dispatch!vars => [Dispatch!QueuedIsPermitted
      /\ Dispatch!OnlyLateRevocationsEscape]_Dispatch!vars
  BY <1>1, <1>2
<1> QED
  BY <1>3, DispatchInvariantHolds, PTL DEF Dispatch!Spec, DispatchIsPermitted,
     Dispatch!DispatchIsPermitted

-----------------------------------------------------------------------------
(***************************************************************************)
(* Commands (CommunicationsCommands).  The primary key decides who         *)
(* reserves, and only a reserved record moves.                             *)
(***************************************************************************)
\* Of the drafts that pass the table's constraints the domain package refuses only
\* those with an empty key or decision id.
LEMMA StoredIsAccepted ==
  \A d \in Commands!Draft : Commands!StoresDraft(d) /\ d.named => Commands!AcceptsDraft(d)
  <1> SUFFICES ASSUME NEW d \in Commands!Draft, Commands!StoresDraft(d), d.named
               PROVE  Commands!AcceptsDraft(d)
    OBVIOUS
  <1>1. d.actor \in {"user", "service", "platform"} /\ d.scope \in {"card", "tenant", "platform"}
    BY DEF Commands!Draft
  <1>2. Commands!ActorMatches(d)
    BY <1>1 DEF Commands!StoresDraft, Commands!ActorMatches, Commands!Draft
  <1>3. Commands!ScopeMatches(d)
    <2>1. d.operation \notin Commands!KillSwitches => d.scope = "card"
      BY DEF Commands!StoresDraft, Commands!PermissionMatches, Commands!KillSwitches
    <2> QED BY <2>1 DEF Commands!StoresDraft, Commands!ScopeMatches
  <1> QED BY <1>2, <1>3 DEF Commands!StoresDraft, Commands!AcceptsDraft

\* Of the drafts that the domain package accepts the table refuses only a grant
\* outside card scope.
LEMMA AcceptedIsStored ==
  \A d \in Commands!Draft : Commands!AcceptsDraft(d) => Commands!StoresDraft(d) \/ (d.grant
  /\ d.scope = "tenant")
  <1> SUFFICES ASSUME NEW d \in Commands!Draft, Commands!AcceptsDraft(d), ~(d.grant
                      /\ d.scope = "tenant")
               PROVE  Commands!StoresDraft(d)
    OBVIOUS
  <1>0. Commands!ScopeMatches(d) /\ Commands!ActorMatches(d) /\ Commands!PermissionMatches(d)
        /\ d.versionsMatch /\ d.hashed
    BY DEF Commands!AcceptsDraft
  <1>1. /\ d.actor \in {"user", "service", "platform"} /\ d.scope \in {"card", "tenant", "platform"}
        /\ d.user \in BOOLEAN /\ d.service \in BOOLEAN /\ d.platform \in BOOLEAN
        /\ d.session \in BOOLEAN /\ d.grant \in BOOLEAN
    BY DEF Commands!Draft
  <1>2. d.actor = "user" => d.scope \in {"card", "tenant"}
    BY <1>0 DEF Commands!PermissionMatches
  <1>3. /\ d.user = (d.actor = "user") /\ d.service = (d.actor = "service")
        /\ d.platform = (d.actor = "platform") /\ d.session = (d.actor = "user")
    BY <1>0, <1>1 DEF Commands!ActorMatches
  <1>4. d.grant = (d.scope = "card" /\ d.actor = "user")
    BY <1>0, <1>1, <1>2 DEF Commands!ActorMatches
  <1> QED BY <1>0, <1>3, <1>4 DEF Commands!StoresDraft, Commands!ScopeMatches

\* The domain package and the table of migration 0018 accept the same drafts of a
\* reservation, but for a card grant on a command outside card scope, which only
\* the table refuses, and an empty key or decision id, which it stores.
THEOREM ContractsDoAgree == Commands!ContractsAgree
  BY StoredIsAccepted, AcceptedIsStored DEF Commands!ContractsAgree, Commands!ContractsDiffer

\* A record that is stored is not the null record, and has its fields.
LEMMA RecordShape ==
  ASSUME Commands!TypeOK, NEW s \in Commands!Slots, commands[s] # Commands!NoCommand
  PROVE  commands[s] \in [status : {"reserved", "completed", "failed"}, hash : Hashes,
         result : BOOLEAN]
  BY DEF Commands!TypeOK

\* The record that a reservation or a completion writes.
LEMMA NewRecord ==
  ASSUME NEW h \in Hashes, NEW st \in {"reserved", "completed", "failed"}, NEW r \in BOOLEAN
  PROVE  LET new == [status |-> st, hash |-> h, result |-> r]
         IN
         /\ new \in [status : {"reserved", "completed", "failed"}, hash : Hashes, result : BOOLEAN]
             /\ new # Commands!NoCommand
  <1> DEFINE new == [status |-> st, hash |-> h, result |-> r]
  <1>1. new.status # Commands!NoCommand.status
    BY DEF Commands!NoCommand
  <1> QED BY <1>1

\* Callers are answered one of the known answers.
LEMMA ReplyType ==
  ASSUME Commands!TypeOK, NEW c \in Callers,
         NEW a \in {Commands!None, "reserved", "replayed", "conflict", "rejected", "completed",
             "failed", "disabled", "disabled_custom", "blocked", "threw"},
         reply' = [reply EXCEPT ![c] = a]
  PROVE  reply' \in [Callers ->
            {Commands!None, "reserved", "replayed", "conflict", "rejected", "completed",
             "failed", "disabled", "disabled_custom", "blocked", "threw"}]
  BY DEF Commands!TypeOK

\* One lemma per action: it preserves the invariant.
LEMMA CommandsInit == Commands!Init => Commands!IndInv
  BY DEF Commands!Init, Commands!IndInv, Commands!TypeOK, Commands!OwnersAreAlone,
     Commands!OneReservationPerKey

LEMMA ReserveInv ==
  ASSUME Commands!IndInv, NEW c \in Callers, NEW k \in Keys, NEW h \in Hashes,
         NEW d \in Commands!ValidDrafts,
         Commands!Reserve(c, k, h, d)
  PROVE  Commands!IndInv'
  <1> DEFINE s == <<d.operation, k>>
             new == [status |-> "reserved", hash |-> h, result |-> FALSE]
  <1>1. s \in Commands!Slots
    BY DEF Commands!Slots, Commands!ValidDrafts, Commands!CallerDraft
  <1>2. UNCHANGED <<authority, event>> /\ Commands!TypeOK /\ Commands!OwnersAreAlone
    BY DEF Commands!Reserve, Commands!IndInv
  <1> HIDE DEF s
  <1>3. CASE UNCHANGED <<commands, owner>>
             /\ \E a \in {"replayed", "conflict", "rejected"} : reply' = [reply EXCEPT ![c] = a]
    <2>1. Commands!TypeOK'
      BY <1>2, <1>3, ReplyType DEF Commands!TypeOK
    <2>2. Commands!OwnersAreAlone'
      BY <1>2, <1>3 DEF Commands!OwnersAreAlone, Commands!OneReservationPerKey
    <2> QED BY <2>1, <2>2 DEF Commands!IndInv
  <1>4. CASE /\ commands[s] = Commands!NoCommand
             /\ commands' = [commands EXCEPT ![s] = new]
             /\ reply' = [reply EXCEPT ![c] = "reserved"]
             /\ owner' = [owner EXCEPT ![s] = @ \cup {c}]
    <2>1. new \in [status : {"reserved", "completed", "failed"}, hash : Hashes,
          result : BOOLEAN] /\ new # Commands!NoCommand
      BY NewRecord
    <2> HIDE DEF new
    <2>2. commands' \in [Commands!Slots -> {Commands!NoCommand} \cup [status : {"reserved",
          "completed", "failed"}, hash : Hashes, result : BOOLEAN]]
      BY <1>1, <1>2, <1>4, <2>1 DEF Commands!TypeOK
    <2>3. owner' \in [Commands!Slots -> SUBSET Callers]
      BY <1>1, <1>2, <1>4 DEF Commands!TypeOK
    <2>4. Commands!TypeOK'
      BY <1>2, <1>4, <2>2, <2>3, ReplyType DEF Commands!TypeOK
    <2>5. owner[s] = {}
      BY <1>1, <1>2, <1>4 DEF Commands!OwnersAreAlone, Commands!OneReservationPerKey
    <2>6. \A t \in Commands!Slots : IF t = s THEN owner'[t] = {c} /\ commands'[t] = new
                           ELSE owner'[t] = owner[t] /\ commands'[t] = commands[t]
      BY <1>1, <1>2, <1>4, <2>5 DEF Commands!TypeOK
    <2>7. Commands!OwnersAreAlone'
      BY <1>2, <2>1, <2>6 DEF Commands!OwnersAreAlone, Commands!OneReservationPerKey
    <2> QED BY <2>4, <2>7 DEF Commands!IndInv
  <1>5. CASE commands[s] # Commands!NoCommand
    <2>1. /\ reply' = [reply EXCEPT ![c] = IF commands[s].hash = h THEN "replayed" ELSE "conflict"]
          /\ UNCHANGED <<commands, owner>>
      BY <1>5 DEF Commands!Reserve, s
    <2> QED BY <2>1, <1>3
  <1>6. CASE commands[s] = Commands!NoCommand /\ Commands!AuthorizedNow(d)
             /\ Commands!StoresDraft(d)
    BY <1>4, <1>6 DEF Commands!Reserve, s
  <1>7. CASE ~(commands[s] # Commands!NoCommand) /\ ~(commands[s] = Commands!NoCommand
             /\ Commands!AuthorizedNow(d) /\ Commands!StoresDraft(d))
    <2>1. reply' = [reply EXCEPT ![c] = "rejected"] /\ UNCHANGED <<commands, owner>>
      BY <1>7 DEF Commands!Reserve, s
    <2> QED BY <2>1, <1>3
  <1> QED BY <1>5, <1>6, <1>7

\* What a completion does to the records: nothing, or the result of a reserved one.
LEMMA CompleteChanges ==
  ASSUME Commands!TypeOK, NEW c \in Callers, NEW s \in Commands!Slots, NEW st \in {"completed",
         "failed"},
         NEW r \in BOOLEAN, Commands!Complete(c, s, st, r)
  PROVE  \/ commands' = commands
         \/ /\ commands[s] # Commands!NoCommand /\ commands[s].status = "reserved"
            /\ \E h \in Hashes : commands' = [commands EXCEPT ![s] = [status |-> st, hash |-> h,
               result |-> r]]
  <1>1. CASE commands[s].status # "reserved"
    BY <1>1 DEF Commands!Complete
  <1>2. CASE commands[s].status = "reserved"
    <2>1. commands[s] # Commands!NoCommand
      BY <1>2 DEF Commands!NoCommand
    <2>2. commands' = [commands EXCEPT ![s].status = st, ![s].result = r]
      BY <1>2 DEF Commands!Complete
    <2>3. commands[s] \in [status : {"reserved", "completed", "failed"}, hash : Hashes,
          result : BOOLEAN]
      BY <2>1, RecordShape
    <2> DEFINE h == commands[s].hash
    <2>4. h \in Hashes
          /\ [[commands[s] EXCEPT !.status = st] EXCEPT !.result = r] = [status |-> st, hash |-> h,
             result |-> r]
      <3> DEFINE old == commands[s]
                 mid == [old EXCEPT !.status = st]
                 end == [mid EXCEPT !.result = r]
      <3>1. old = [status |-> old.status, hash |-> h, result |-> old.result] /\ h \in Hashes
        BY <2>3
      <3>2. mid = [status |-> st, hash |-> h, result |-> old.result]
        BY <3>1
      <3> HIDE DEF mid, h
      <3>3. end = [status |-> st, hash |-> h, result |-> r]
        BY <3>2
      <3> QED BY <3>1, <3>3 DEF mid, h
    <2>5. commands' = [commands EXCEPT ![s] = [[commands[s] EXCEPT !.status = st] EXCEPT !.result = r]]
      BY <2>2 DEF Commands!TypeOK
    <2> QED BY <1>2, <2>1, <2>4, <2>5
  <1> QED BY <1>1, <1>2

LEMMA CompleteInv ==
  ASSUME Commands!IndInv, NEW c \in Callers, NEW s \in Commands!Slots, NEW st \in {"completed",
         "failed"},
         NEW r \in BOOLEAN, Commands!Complete(c, s, st, r)
  PROVE  Commands!IndInv'
  <1>1. UNCHANGED <<owner, authority, event>> /\ Commands!TypeOK /\ Commands!OwnersAreAlone
    BY DEF Commands!Complete, Commands!IndInv
  <1>2. \E a \in {"completed", "failed", "replayed"} : reply' = [reply EXCEPT ![c] = a]
    BY DEF Commands!Complete
  <1>3. /\ commands' \in [Commands!Slots -> {Commands!NoCommand} \cup [status : {"reserved",
           "completed", "failed"}, hash : Hashes, result : BOOLEAN]]
        /\ \A t \in Commands!Slots : commands[t] # Commands!NoCommand
           => commands'[t] # Commands!NoCommand
    <2>1. CASE commands' = commands
      BY <1>1, <2>1 DEF Commands!TypeOK
    <2>2. ASSUME NEW h \in Hashes, commands' = [commands EXCEPT ![s] = [status |-> st, hash |-> h,
                 result |-> r]]
          PROVE  <1>3!:
      <3> DEFINE new == [status |-> st, hash |-> h, result |-> r]
      <3>1. new \in [status : {"reserved", "completed", "failed"}, hash : Hashes,
            result : BOOLEAN] /\ new # Commands!NoCommand
        BY NewRecord
      <3> HIDE DEF new
      <3>2. commands' = [commands EXCEPT ![s] = new]
        BY <2>2 DEF new
      <3> QED BY <1>1, <3>1, <3>2 DEF Commands!TypeOK
    <2> QED BY <1>1, <2>1, <2>2, CompleteChanges
  <1>4. Commands!TypeOK'
    BY <1>1, <1>2, <1>3, ReplyType DEF Commands!TypeOK
  <1>5. Commands!OwnersAreAlone'
    BY <1>1, <1>3 DEF Commands!OwnersAreAlone, Commands!OneReservationPerKey
  <1> QED BY <1>4, <1>5 DEF Commands!IndInv

LEMMA BoundaryInv ==
  ASSUME Commands!IndInv, NEW c \in Callers,
         \/ Commands!Revoke
         \/ \E cmd \in Commands!Command : Commands!ApiDispatch(c, cmd)
            \/ Commands!OrchestratorDispatch(c, cmd)
         \/ \E t \in Tenants \cup {Commands!NoTenant},
            ch \in UsedChannels : Commands!AdapterEvent(c, t, ch)
  PROVE  Commands!IndInv'
  <1>1. UNCHANGED <<commands, owner>> /\ authority' \subseteq authority /\ Commands!TypeOK
        /\ Commands!OwnersAreAlone
    BY DEF Commands!Revoke, Commands!ApiDispatch, Commands!OrchestratorDispatch,
       Commands!AdapterEvent, Commands!IndInv
  <1>2. reply' = reply
        \/ \E a \in {"disabled", "disabled_custom", "blocked",
           "threw"} : reply' = [reply EXCEPT ![c] = a]
    BY DEF Commands!Revoke, Commands!ApiDispatch, Commands!OrchestratorDispatch,
       Commands!AdapterEvent
  <1>3. event' = event \/ event'.tenant \in Tenants
    <2>1. CASE Commands!Revoke
      BY <2>1 DEF Commands!Revoke
    <2>2. CASE \E cmd \in Commands!Command : Commands!ApiDispatch(c, cmd)
               \/ Commands!OrchestratorDispatch(c, cmd)
      BY <2>2 DEF Commands!ApiDispatch, Commands!OrchestratorDispatch, Commands!Command,
         Commands!BlockedEvent
    <2>3. CASE \E t \in Tenants \cup {Commands!NoTenant},
               ch \in UsedChannels : Commands!AdapterEvent(c, t, ch)
      BY <2>3 DEF Commands!AdapterEvent, Commands!BlockedEvent
    <2> QED BY <2>1, <2>2, <2>3
  <1>4. Commands!TypeOK'
    <2>1. reply' \in [Callers ->
            {Commands!None, "reserved", "replayed", "conflict", "rejected", "completed",
             "failed", "disabled", "disabled_custom", "blocked", "threw"}]
      BY <1>1, <1>2, ReplyType DEF Commands!TypeOK
    <2> QED BY <1>1, <1>3, <2>1 DEF Commands!TypeOK
  <1>5. Commands!OwnersAreAlone'
    BY <1>1 DEF Commands!OwnersAreAlone, Commands!OneReservationPerKey
  <1> QED BY <1>4, <1>5 DEF Commands!IndInv

\* The inductive invariant of commands holds in every state.
THEOREM CommandsInvariantHolds == Commands!Spec => []Commands!IndInv
  <1>1. Commands!IndInv /\ [Commands!Next]_Commands!vars => Commands!IndInv'
    <2> SUFFICES ASSUME Commands!IndInv, [Commands!Next]_Commands!vars PROVE Commands!IndInv'
      OBVIOUS
    <2>1. CASE UNCHANGED Commands!vars
      BY <2>1 DEF Commands!vars, Commands!IndInv, Commands!TypeOK, Commands!OwnersAreAlone,
         Commands!OneReservationPerKey
    <2>2. CASE Commands!Next
      BY <2>2, ReserveInv, CompleteInv, BoundaryInv DEF Commands!Next
    <2> QED BY <2>1, <2>2
  <1> QED BY <1>1, CommandsInit, PTL DEF Commands!Spec

\* The records of commands are sound in every state (reserveCommandIdempotency).
THEOREM CommandsSound == Commands!Spec => []Commands!CommandsAreSound
  <1>1. Commands!IndInv => Commands!CommandsAreSound
    BY DEF Commands!IndInv, Commands!OwnersAreAlone, Commands!CommandsAreSound
  <1> QED BY <1>1, CommandsInvariantHolds, PTL

\* completeCommandIdempotency: no retry and no late completion changes the record
\* of a command that has completed or failed.
THEOREM ResultStaysFinal == Commands!Spec => ResultIsFinal
  <1> DEFINE Final == \A s \in Commands!Slots :
               commands[s].status \in {"completed", "failed"} => commands'[s] = commands[s]
  <1>1. Commands!IndInv /\ [Commands!Next]_Commands!vars => [Final]_Commands!vars
    <2> SUFFICES ASSUME Commands!IndInv, Commands!Next PROVE Final
      OBVIOUS
    <2>0. Commands!TypeOK
      BY DEF Commands!IndInv
    <2>1. PICK c \in Callers :
            \/ \E k \in Keys, h \in Hashes, d \in Commands!ValidDrafts : Commands!Reserve(c, k, h,
               d)
            \/ \E s \in Commands!Slots, st \in {"completed", "failed"},
               r \in BOOLEAN : Commands!Complete(c, s, st, r)
            \/ UNCHANGED commands
      BY DEF Commands!Next, Commands!Revoke, Commands!ApiDispatch, Commands!OrchestratorDispatch,
         Commands!AdapterEvent
    <2>2. ASSUME NEW k \in Keys, NEW h \in Hashes, NEW d \in Commands!ValidDrafts,
                 Commands!Reserve(c, k, h, d)
          PROVE  Final
      <3>1. <<d.operation, k>> \in Commands!Slots
        BY DEF Commands!Slots, Commands!ValidDrafts, Commands!CallerDraft
      <3>2. commands[<<d.operation, k>>] = Commands!NoCommand \/ UNCHANGED commands
        BY <2>2 DEF Commands!Reserve
      <3>3. CASE commands[<<d.operation, k>>] = Commands!NoCommand
        <4>1. \A s \in Commands!Slots : s # <<d.operation, k>> => commands'[s] = commands[s]
          BY <2>0, <2>2, <3>1, <3>3 DEF Commands!Reserve, Commands!TypeOK
        <4> QED BY <3>3, <4>1 DEF Commands!NoCommand
      <3> QED BY <3>2, <3>3
    <2>3. ASSUME NEW s \in Commands!Slots, NEW st \in {"completed", "failed"}, NEW r \in BOOLEAN,
                 Commands!Complete(c, s, st, r)
          PROVE  Final
      BY <2>0, <2>3, CompleteChanges DEF Commands!TypeOK
    <2> QED BY <2>1, <2>2, <2>3
  <1>2. Commands!IndInv /\ [Commands!Next]_Commands!vars => [\A s \in Commands!Slots :
            commands[s].status \in {"completed", "failed"}
            => commands'[s] = commands[s]]_Commands!vars
    BY <1>1
  <1> QED BY <1>2, CommandsInvariantHolds, PTL DEF Commands!Spec, ResultIsFinal, Commands!ResultIsFinal

\* The tables of dispatch and of commands are sound in every state: each key has
\* one reservation (reserveCommandIdempotency).
THEOREM RecordsSound == Dispatch!Spec /\ Commands!Spec => []RecordsAreSound
  <1>1. Dispatch!IndInv => Dispatch!TypeOK
    BY DEF Dispatch!IndInv
  <1>2. Dispatch!TypeOK /\ Commands!CommandsAreSound => RecordsAreSound
    BY DEF RecordsAreSound
  <1> QED BY <1>1, <1>2, DispatchInvariantHolds, CommandsSound, PTL
=============================================================================
