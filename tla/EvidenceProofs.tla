--------------------------- MODULE EvidenceProofs ---------------------------
(***************************************************************************)
(* The record and the reconciliations of a supervised session, for traces  *)
(* of any length.  Nothing here is computed by recursion: what the record  *)
(* says of a dispatch depends on the events before it alone, so appending  *)
(* an event leaves what was said, and the invariant says of each act in    *)
(* the surface's order which event of the trace tells of it.               *)
(***************************************************************************)
EXTENDS Evidence, FiniteSetTheorems, TLAPS

Hands == {"automation", "human"}

Epochs == Nat \ {0}

Transitions == {"claimed", "released", "hold expired", "resumed"}

Events ==
  [event : {"resolve"}, target : Controls]
  \cup [event : {"authorize"}, id : Nat, granted : BOOLEAN]
  \cup [event : {"dispatch"}, refused : {FALSE}, id : Nat, actor : Hands, epoch : Epochs]
  \cup [event : {"dispatch"}, refused : {TRUE}, actor : Hands, epoch : Nat]
  \cup [event : {"lease"}, transition : Transitions, epoch : Nat]

ActRecord == [actor : Hands, epoch : Epochs, control : Controls \cup {NoControl}, id : Nat]

CallRecord ==
  [at : {"resolve", "authorize", "act", "record"}, actor : Hands, epoch : Epochs,
   control : Controls \cup {NoControl}]

Typed ==
  /\ lease \in LeaseRecord
  /\ trace \in Seq(Events)
  /\ surface \in Seq(ActRecord)
  /\ call \in CallRecord \cup {NoCall}
  /\ run \in [at : {"idle", "running", "failing", "lost", "ended"}, epoch : Nat]
  /\ claiming \in Nat
  /\ filed \in 0 .. Len(trace)
  /\ lease.holder = "automation" => lease.state = "running"

(* Who holds which epoch, and who is acting under it.                      *)
Holds ==
  /\ \A e \in ByPeople : e <= lease.epoch
  /\ lease.state = "human_control" <=> lease.epoch \in ByPeople
  /\ run.at = "running" => lease.state = "running"
  /\ \A n \in DOMAIN surface :
       /\ surface[n].epoch <= lease.epoch
       /\ surface[n].actor = "human" <=> surface[n].epoch \in ByPeople
  /\ call # NoCall =>
       /\ call.epoch <= lease.epoch
       /\ call.actor = "human" <=> call.epoch \in ByPeople
       /\ call.actor = "automation" => run.at = "running"

(* What the call in flight has left in the trace so far.                   *)
LastResolved(events, n, control) ==
  \E m \in 1 .. (n - 1) :
    /\ events[m].event = "resolve" /\ events[m].target = control
    /\ \A k \in (m + 1) .. (n - 1) : events[k].event # "resolve" /\ ~Reached(events[k])

UnderWay ==
  /\ call.at = "resolve" => call.control # NoControl
  /\ call.at \in {"authorize", "act", "record"} /\ call.control # NoControl =>
       LastResolved(trace, Len(trace) + 1, call.control)
  /\ call.at = "act" => Decisions \in Granted(trace)
  /\ call.at = "record" =>
       /\ surface # <<>>
       /\ surface[Len(surface)].actor = call.actor
       /\ surface[Len(surface)].control = call.control

Granting ==
  /\ \A n \in DOMAIN surface : surface[n].id \in Granted(trace)
  /\ \A n \in Dispatches(trace) : trace[n].id \in Granted(trace)

(* Each act but the one in flight has its dispatch, in the same order.     *)
Of(events, n, act) ==
  /\ events[n].actor = act.actor
  /\ events[n].epoch = act.epoch
  /\ act.control # NoControl => Pending(events, n) = act.control

Listed ==
  /\ Cardinality(Dispatches(trace)) = Len(surface) - (IF call.at = "record" THEN 1 ELSE 0)
  /\ \A k \in 1 .. Cardinality(Dispatches(trace)) :
       \E n \in Dispatches(trace) : Place(trace, n) = k /\ Of(trace, n, surface[k])

Kept ==
  run.at = "idle" => \A n \in Dispatches(trace) : n > filed => trace[n].actor = "human"

IInv == Typed /\ Holds /\ UnderWay /\ Granting /\ Listed /\ Kept

-----------------------------------------------------------------------------
(* The dispatches of a trace are finitely many, each with its own place.   *)
LEMMA DispatchesAreFinite ==
  ASSUME NEW s \in Seq(Events)
  PROVE  /\ Dispatches(s) \subseteq 1 .. Len(s)
         /\ IsFiniteSet(Dispatches(s)) /\ Cardinality(Dispatches(s)) \in Nat
         /\ \A n \in Nat : /\ IsFiniteSet({m \in Dispatches(s) : m <= n})
                          /\ Place(s, n) \in 0 .. Cardinality(Dispatches(s))
  <1>1. Dispatches(s) \subseteq 1 .. Len(s) /\ Len(s) \in Nat
    BY DEF Dispatches
  <1>2. IsFiniteSet(Dispatches(s)) /\ Cardinality(Dispatches(s)) \in Nat
    <2>1. IsFiniteSet(1 .. Len(s)) /\ Dispatches(s) \in SUBSET (1 .. Len(s))
      BY <1>1, FS_Interval
    <2>2. IsFiniteSet(Dispatches(s))
      BY <2>1, FS_Subset
    <2>3. QED
      BY <2>2, FS_CardinalityType
  <1>3. ASSUME NEW n \in Nat
        PROVE  /\ IsFiniteSet({m \in Dispatches(s) : m <= n})
               /\ Place(s, n) \in 0 .. Cardinality(Dispatches(s))
    <2>1. {m \in Dispatches(s) : m <= n} \in SUBSET Dispatches(s)
      OBVIOUS
    <2>2. /\ IsFiniteSet({m \in Dispatches(s) : m <= n})
          /\ Cardinality({m \in Dispatches(s) : m <= n}) <= Cardinality(Dispatches(s))
      BY <1>2, <2>1, FS_Subset
    <2>3. Cardinality({m \in Dispatches(s) : m <= n}) \in Nat
      BY <2>2, FS_CardinalityType
    <2>4. QED
      BY <1>2, <2>2, <2>3 DEF Place
  <1>4. QED
    BY <1>1, <1>2, <1>3

LEMMA PlacesAreDistinct ==
  ASSUME NEW s \in Seq(Events), NEW n \in Dispatches(s), NEW m \in 1 .. Len(s), m < n
  PROVE  Place(s, m) < Place(s, n)
  <1> DEFINE upTo(x) == {d \in Dispatches(s) : d <= x}
  <1>1. n \in 1 .. Len(s) /\ Len(s) \in Nat
    BY DispatchesAreFinite
  <1>2. upTo(m) \in SUBSET upTo(n) /\ n \in upTo(n) /\ n \notin upTo(m)
    BY <1>1, DispatchesAreFinite
  <1>3. IsFiniteSet(upTo(n)) /\ IsFiniteSet(upTo(m))
    BY <1>1, DispatchesAreFinite
  <1>4. /\ Cardinality(upTo(m)) <= Cardinality(upTo(n))
        /\ Cardinality(upTo(n)) # Cardinality(upTo(m))
        /\ Cardinality(upTo(m)) \in Nat /\ Cardinality(upTo(n)) \in Nat
    <2> HIDE DEF upTo
    <2>1. QED
      BY <1>2, <1>3, FS_Subset, FS_CardinalityType
  <1>5. QED
    BY <1>4 DEF Place

(* The n-th step of the record is what is read at the n-th dispatch.       *)
LEMMA StepsAreRead ==
  ASSUME NEW s \in Seq(Events), NEW n \in Dispatches(s)
  PROVE  /\ Place(s, n) \in DOMAIN Steps(s)
         /\ Steps(s)[Place(s, n)] = StepOf(s, n)
  <1>1. /\ n \in 1 .. Len(s) /\ n \in Nat /\ Len(s) \in Nat
        /\ \A m \in Dispatches(s) : m \in 1 .. Len(s) /\ m \in Nat
    BY DispatchesAreFinite
  <1>2. Place(s, n) \in 1 .. Cardinality(Dispatches(s))
    <2>1. Place(s, n) \in 0 .. Cardinality(Dispatches(s)) /\ Cardinality(Dispatches(s)) \in Nat
      <3>1. \A x \in Nat : Place(s, x) \in 0 .. Cardinality(Dispatches(s))
        BY DispatchesAreFinite
      <3>2. QED
        BY <1>1, <3>1, DispatchesAreFinite
    <2>2. n \in {m \in Dispatches(s) : m <= n} /\ IsFiniteSet({m \in Dispatches(s) : m <= n})
      BY <1>1, DispatchesAreFinite
    <2>3. Place(s, n) # 0
      BY <2>2, FS_EmptySet DEF Place
    <2>4. QED
      BY <2>1, <2>3
  <1>3. \A m \in Dispatches(s) : Place(s, m) = Place(s, n) => m = n
    <2> SUFFICES ASSUME NEW m \in Dispatches(s), Place(s, m) = Place(s, n), m # n PROVE FALSE
      OBVIOUS
    <2>1. Place(s, m) \in Nat /\ Place(s, n) \in Nat
      <3>1. \A x \in Nat : Place(s, x) \in 0 .. Cardinality(Dispatches(s))
        BY DispatchesAreFinite
      <3>2. QED
        BY <1>1, <3>1
    <2>2. m < n \/ n < m
      BY <1>1
    <2>3. QED
      BY <1>1, <2>1, <2>2, PlacesAreDistinct
  <1>4. (CHOOSE m \in Dispatches(s) : Place(s, m) = Place(s, n)) = n
    BY <1>3
  <1>5. PICK k \in 1 .. Cardinality(Dispatches(s)) : k = Place(s, n)
    BY <1>2
  <1>6. Steps(s)[k] = StepOf(s, CHOOSE m \in Dispatches(s) : Place(s, m) = k)
    BY DEF Steps
  <1>7. DOMAIN Steps(s) = 1 .. Cardinality(Dispatches(s))
    BY DEF Steps
  <1>8. QED
    BY <1>4, <1>5, <1>6, <1>7

(* What is read at an event depends on what comes before it alone.         *)
LEMMA PrefixReads ==
  ASSUME NEW s \in Seq(Events), NEW t \in Seq(Events), Len(s) <= Len(t),
         \A n \in 1 .. Len(s) : s[n] = t[n]
  PROVE  /\ Dispatches(s) = {n \in Dispatches(t) : n <= Len(s)}
         /\ Granted(s) \subseteq Granted(t)
         /\ \A n \in 1 .. Len(s) : Place(s, n) = Place(t, n) /\ Pending(s, n) = Pending(t, n)
  <1>1. /\ DOMAIN s = 1 .. Len(s) /\ DOMAIN t = 1 .. Len(t)
        /\ Len(s) \in Nat /\ Len(t) \in Nat
    OBVIOUS
  <1>2. Dispatches(s) = {n \in Dispatches(t) : n <= Len(s)}
    BY <1>1 DEF Dispatches
  <1>3. Granted(s) \subseteq Granted(t)
    BY <1>1 DEF Granted
  <1>4. ASSUME NEW n \in 1 .. Len(s)
        PROVE  Place(s, n) = Place(t, n)
    <2>1. {m \in Dispatches(s) : m <= n} = {m \in Dispatches(t) : m <= n}
      BY <1>1, <1>2 DEF Dispatches
    <2>2. QED
      BY <2>1 DEF Place
  <1>5. ASSUME NEW n \in 1 .. Len(s)
        PROVE  Pending(s, n) = Pending(t, n)
    <2> DEFINE since(e) == {m \in 1 .. (n - 1) :
                             /\ e[m].event = "resolve"
                             /\ \A k \in (m + 1) .. (n - 1) :
                                  e[k].event # "resolve" /\ ~Reached(e[k])}
    <2>1. \A m \in 1 .. (n - 1) : s[m] = t[m]
      BY <1>1
    <2>2. \A m \in 1 .. (n - 1) : \A k \in (m + 1) .. (n - 1) : s[k] = t[k]
      BY <1>1
    <2>3. since(s) = since(t)
      BY <2>1, <2>2
    <2>4. CASE since(s) = {}
      BY <2>3, <2>4 DEF Pending
    <2>5. CASE since(s) # {}
      <3>1. PICK m \in 1 .. (n - 1) : m = CHOOSE x \in since(s) : TRUE
        BY <2>5
      <3>2. Pending(s, n) = s[m].target /\ Pending(t, n) = t[m].target
        BY <2>3, <2>5, <3>1 DEF Pending
      <3>3. QED
        BY <2>1, <3>2
    <2>6. QED
      BY <2>4, <2>5
  <1>6. QED
    BY <1>2, <1>3, <1>4, <1>5

LEMMA PendingIsLastResolved ==
  ASSUME NEW s \in Seq(Events), NEW n \in Nat \ {0}, NEW control, LastResolved(s, n, control)
  PROVE  Pending(s, n) = control
  <1> DEFINE since == {m \in 1 .. (n - 1) :
                        /\ s[m].event = "resolve"
                        /\ \A k \in (m + 1) .. (n - 1) :
                             s[k].event # "resolve" /\ ~Reached(s[k])}
  <1>1. PICK m \in since : s[m].target = control
    BY DEF LastResolved
  <1>2. \A x \in since : x = m
    <2> SUFFICES ASSUME NEW x \in since, x # m PROVE FALSE
      OBVIOUS
    <2>1. m \in (x + 1) .. (n - 1) \/ x \in (m + 1) .. (n - 1)
      OBVIOUS
    <2>2. QED
      BY <2>1
  <1>3. (CHOOSE x \in since : TRUE) = m
    BY <1>2
  <1>4. since # {}
    OBVIOUS
  <1>5. QED
    BY <1>1, <1>3, <1>4 DEF Pending

-----------------------------------------------------------------------------
(* An event appended adds itself to what is read, and nothing else.        *)
Deciding(s) == {n \in DOMAIN s : s[n].event = "authorize"}

LEMMA AppendIs ==
  ASSUME NEW t \in Seq(Events), NEW e \in Events
  PROVE  /\ Append(t, e) \in Seq(Events)
         /\ Len(Append(t, e)) = Len(t) + 1 /\ Len(t) \in Nat
         /\ DOMAIN Append(t, e) = 1 .. (Len(t) + 1) /\ DOMAIN t = 1 .. Len(t)
         /\ Append(t, e)[Len(t) + 1] = e
         /\ \A n \in 1 .. Len(t) : Append(t, e)[n] = t[n]
  OBVIOUS

LEMMA AppendReads ==
  ASSUME NEW t \in Seq(Events), NEW e \in Events, NEW s \in Seq(Events), s = Append(t, e)
  PROVE  /\ Dispatches(s) = Dispatches(t) \cup (IF Reached(e) THEN {Len(t) + 1} ELSE {})
         /\ Granted(t) \subseteq Granted(s)
         /\ e.event = "authorize" /\ e.granted => e.id \in Granted(s)
         /\ \A n \in Dispatches(t) :
              s[n] = t[n] /\ Place(s, n) = Place(t, n) /\ Pending(s, n) = Pending(t, n)
         /\ Cardinality(Dispatches(s)) = Cardinality(Dispatches(t)) + (IF Reached(e) THEN 1 ELSE 0)
         /\ Reached(e) => Place(s, Len(t) + 1) = Cardinality(Dispatches(t)) + 1
         /\ Cardinality(Deciding(s)) =
              Cardinality(Deciding(t)) + (IF e.event = "authorize" THEN 1 ELSE 0)
  <1>1. /\ s \in Seq(Events) /\ Len(s) = Len(t) + 1 /\ Len(t) \in Nat
        /\ DOMAIN s = 1 .. (Len(t) + 1) /\ DOMAIN t = 1 .. Len(t)
        /\ s[Len(t) + 1] = e /\ \A n \in 1 .. Len(t) : s[n] = t[n]
    BY AppendIs
  <1>2. Dispatches(s) = Dispatches(t) \cup (IF Reached(e) THEN {Len(t) + 1} ELSE {})
    BY <1>1 DEF Dispatches
  <1>3. Granted(t) \subseteq Granted(s) /\ \A n \in 1 .. Len(t) : Place(t, n) = Place(s, n)
                                                         /\ Pending(t, n) = Pending(s, n)
    <2>1. Len(t) <= Len(s) /\ \A n \in 1 .. Len(t) : t[n] = s[n]
      BY <1>1
    <2>2. QED
      BY <1>1, <2>1, PrefixReads
  <1>4. e.event = "authorize" /\ e.granted => e.id \in Granted(s)
    BY <1>1 DEF Granted
  <1>5. Dispatches(t) \subseteq 1 .. Len(t) /\ IsFiniteSet(Dispatches(t))
        /\ Cardinality(Dispatches(t)) \in Nat
    BY DispatchesAreFinite
  <1>6. Cardinality(Dispatches(s)) = Cardinality(Dispatches(t)) + (IF Reached(e) THEN 1 ELSE 0)
    <2>1. Len(t) + 1 \notin Dispatches(t)
      BY <1>1, <1>5
    <2>2. CASE Reached(e)
      BY <1>2, <1>5, <2>1, <2>2, FS_AddElement
    <2>3. CASE ~Reached(e)
      BY <1>2, <1>5, <2>3
    <2>4. QED
      BY <2>2, <2>3
  <1>7. Reached(e) => Place(s, Len(t) + 1) = Cardinality(Dispatches(t)) + 1
    <2>1. {m \in Dispatches(s) : m <= Len(t) + 1} = Dispatches(s)
      BY <1>1, <1>2, <1>5
    <2>2. QED
      BY <1>6, <2>1 DEF Place
  <1>8. Cardinality(Deciding(s)) =
          Cardinality(Deciding(t)) + (IF e.event = "authorize" THEN 1 ELSE 0)
    <2>1. Deciding(s) = Deciding(t) \cup (IF e.event = "authorize" THEN {Len(t) + 1} ELSE {})
      BY <1>1 DEF Deciding
    <2>2. IsFiniteSet(Deciding(t)) /\ Len(t) + 1 \notin Deciding(t)
          /\ Cardinality(Deciding(t)) \in Nat
      <3>1. IsFiniteSet(1 .. Len(t)) /\ Deciding(t) \in SUBSET (1 .. Len(t))
        BY <1>1, FS_Interval DEF Deciding
      <3>2. IsFiniteSet(Deciding(t))
        BY <3>1, FS_Subset
      <3>3. Len(t) + 1 \notin Deciding(t)
        BY <1>1, <3>1
      <3>4. QED
        BY <3>2, <3>3, FS_CardinalityType
    <2>3. CASE e.event = "authorize"
      BY <2>1, <2>2, <2>3, FS_AddElement
    <2>4. CASE e.event # "authorize"
      BY <2>1, <2>2, <2>4
    <2>5. QED
      BY <2>3, <2>4
  <1>9. QED
    BY <1>1, <1>2, <1>3, <1>4, <1>5, <1>6, <1>7, <1>8

LEMMA DecisionsAreCounted ==
  ASSUME Typed
  PROVE  Decisions \in Nat
  <1>1. Len(trace) \in Nat /\ DOMAIN trace = 1 .. Len(trace)
    BY DEF Typed
  <1>2. IsFiniteSet(Deciding(trace))
    <2>1. IsFiniteSet(1 .. Len(trace))
      BY <1>1, FS_Interval
    <2>2. Deciding(trace) \in SUBSET (1 .. Len(trace))
      BY <1>1 DEF Deciding
    <2>3. QED
      BY <2>1, <2>2, FS_Subset
  <1>3. QED
    BY <1>2, FS_CardinalityType DEF Decisions, Deciding

(* The resolution of the call in flight stays the last there is until the  *)
(* call is recorded.                                                       *)
LEMMA AppendKeepsResolved ==
  ASSUME NEW t \in Seq(Events), NEW e \in Events, NEW s \in Seq(Events), s = Append(t, e), NEW control
  PROVE  /\ e.event # "resolve" /\ ~Reached(e) /\ LastResolved(t, Len(t) + 1, control) =>
              LastResolved(s, Len(s) + 1, control)
         /\ e.event = "resolve" /\ e.target = control => LastResolved(s, Len(s) + 1, control)
  <1>1. /\ Len(s) = Len(t) + 1 /\ Len(t) \in Nat
        /\ s[Len(t) + 1] = e /\ \A n \in 1 .. Len(t) : s[n] = t[n]
    BY AppendIs
  <1>2. ASSUME e.event # "resolve", ~Reached(e), LastResolved(t, Len(t) + 1, control)
        PROVE  LastResolved(s, Len(s) + 1, control)
    <2>1. PICK m \in 1 .. Len(t) :
            /\ t[m].event = "resolve" /\ t[m].target = control
            /\ \A k \in (m + 1) .. Len(t) : t[k].event # "resolve" /\ ~Reached(t[k])
      BY <1>1, <1>2 DEF LastResolved
    <2>2. s[m].event = "resolve" /\ s[m].target = control
      BY <1>1, <2>1
    <2>3. \A k \in (m + 1) .. (Len(t) + 1) : s[k].event # "resolve" /\ ~Reached(s[k])
      BY <1>1, <1>2, <2>1
    <2>4. QED
      BY <1>1, <2>2, <2>3 DEF LastResolved
  <1>3. ASSUME e.event = "resolve", e.target = control
        PROVE  LastResolved(s, Len(s) + 1, control)
    BY <1>1, <1>3 DEF LastResolved
  <1>4. QED
    BY <1>2, <1>3

-----------------------------------------------------------------------------
(* What the trace tells of the lease, when an event is appended.           *)
LEMMA AppendClaims ==
  ASSUME Typed, NEW e \in Events, Emit(e)
  PROVE  /\ e.event # "lease" => Claimed' = Claimed
         /\ e.event = "lease" =>
              Claimed' = Claimed \cup (IF e.transition = "claimed" THEN {e.epoch} ELSE {})
  <1>1. /\ DOMAIN trace' = 1 .. (Len(trace) + 1) /\ DOMAIN trace = 1 .. Len(trace)
        /\ trace'[Len(trace) + 1] = e /\ \A n \in 1 .. Len(trace) : trace'[n] = trace[n]
        /\ Len(trace) \in Nat
    BY AppendIs DEF Emit, Typed
  <1>2. QED
    BY <1>1 DEF Claimed

(* Steps that add no act and tell of none.                                 *)
Told ==
  \/ trace' = trace
  \/ \E e \in Events : Emit(e) /\ ~Reached(e)

LEMMA UntoldReads ==
  ASSUME NEW t \in Seq(Events), NEW e \in Events, NEW s \in Seq(Events), s = Append(t, e), ~Reached(e)
  PROVE  /\ Dispatches(s) = Dispatches(t)
         /\ Granted(t) \subseteq Granted(s)
         /\ \A n \in Dispatches(t) :
              s[n] = t[n] /\ Place(s, n) = Place(t, n) /\ Pending(s, n) = Pending(t, n)
  <1>1. /\ Dispatches(s) = Dispatches(t) \cup (IF Reached(e) THEN {Len(t) + 1} ELSE {})
        /\ Granted(t) \subseteq Granted(s)
    BY AppendReads
  <1>2. \A n \in Dispatches(t) :
          s[n] = t[n] /\ Place(s, n) = Place(t, n) /\ Pending(s, n) = Pending(t, n)
    BY AppendReads
  <1>3. QED
    BY <1>1, <1>2

LEMMA ToldKeeps ==
  ASSUME Typed, Granting, Listed, Kept, Told, UNCHANGED surface,
         call.at = "record" <=> call'.at = "record",
         run'.at = "idle" => \/ run.at = "idle" /\ filed' = filed
                            \/ filed' = Len(trace')
  PROVE  Granting' /\ Listed' /\ Kept'
  <1>1. PICK t \in Seq(Events) : t = trace
    BY DEF Typed
  <1>2. PICK s \in Seq(Events) : s = trace'
    BY <1>1, AppendIs DEF Told, Emit
  <1>3. /\ Dispatches(s) = Dispatches(t)
        /\ Granted(t) \subseteq Granted(s)
        /\ \A n \in Dispatches(t) :
             s[n] = t[n] /\ Place(s, n) = Place(t, n) /\ Pending(s, n) = Pending(t, n)
    <2>1. CASE s = t
      BY <2>1
    <2>2. ASSUME NEW e \in Events, s = Append(t, e), ~Reached(e)
          PROVE  /\ Dispatches(s) = Dispatches(t)
                 /\ Granted(t) \subseteq Granted(s)
                 /\ \A n \in Dispatches(t) :
                      s[n] = t[n] /\ Place(s, n) = Place(t, n) /\ Pending(s, n) = Pending(t, n)
      BY <2>2, UntoldReads
    <2>3. s = t \/ \E e \in Events : s = Append(t, e) /\ ~Reached(e)
      BY <1>1, <1>2 DEF Told, Emit
    <2>4. QED
      BY <2>1, <2>2, <2>3
  <1>4. Granting'
    <2>1. /\ \A n \in DOMAIN surface : surface[n].id \in Granted(t)
          /\ \A n \in Dispatches(t) : t[n].id \in Granted(t)
      BY <1>1 DEF Granting
    <2>2. /\ \A n \in DOMAIN surface' : surface'[n].id \in Granted(s)
          /\ \A n \in Dispatches(s) : s[n].id \in Granted(s)
      BY <1>3, <2>1
    <2>3. QED
      BY <1>2, <2>2 DEF Granting
  <1>5. Listed'
    <2>1. \A k \in 1 .. Cardinality(Dispatches(s)) :
            \E n \in Dispatches(s) : Place(s, n) = k /\ Of(s, n, surface'[k])
      BY <1>1, <1>3 DEF Listed, Of
    <2>2. Cardinality(Dispatches(s)) = Len(surface') - (IF call'.at = "record" THEN 1 ELSE 0)
      BY <1>1, <1>3 DEF Listed
    <2>3. QED
      BY <1>2, <2>1, <2>2 DEF Listed
  <1>6. Kept'
    <2> SUFFICES ASSUME run'.at = "idle", NEW n \in Dispatches(s), n > filed'
                 PROVE  s[n].actor = "human"
      BY <1>2 DEF Kept
    <2>1. n \in 1 .. Len(s) /\ Len(s) \in Nat
      BY DispatchesAreFinite
    <2>2. run.at = "idle" /\ filed' = filed
      BY <1>2, <2>1
    <2>3. QED
      BY <1>1, <1>3, <2>2 DEF Kept
  <1>7. QED
    BY <1>4, <1>5, <1>6

(* The act itself comes before the event that tells of it, ...             *)
LEMMA ActsKeeps ==
  ASSUME IInv, Acts
  PROVE  Granting' /\ Listed' /\ Kept'
  <1> USE DEF IInv
  <1>1. call \in CallRecord /\ call.at = "act" /\ call'.at = "record" /\ trace' = trace
    BY DEF Acts, Typed, NoCall, CallRecord
  <1>2. PICK act \in ActRecord :
          act = [actor |-> call.actor, epoch |-> call.epoch, control |-> call.control,
                 id |-> Decisions]
    BY <1>1, DecisionsAreCounted DEF CallRecord, ActRecord
  <1>3. surface' = Append(surface, act) /\ surface \in Seq(ActRecord)
    BY <1>2 DEF Acts, Typed
  <1>4. /\ Len(surface') = Len(surface) + 1 /\ Len(surface) \in Nat
        /\ DOMAIN surface' = 1 .. (Len(surface) + 1) /\ DOMAIN surface = 1 .. Len(surface)
        /\ surface'[Len(surface) + 1] = act
        /\ \A n \in 1 .. Len(surface) : surface'[n] = surface[n]
    BY <1>3
  <1>5. Granting'
    <2>1. act.id \in Granted(trace)
      BY <1>1, <1>2 DEF UnderWay
    <2>2. QED
      BY <1>1, <1>4, <2>1 DEF Granting
  <1>6. Listed'
    <2>1. Cardinality(Dispatches(trace)) = Len(surface)
      BY <1>1, <1>4 DEF Listed
    <2>2. Cardinality(Dispatches(trace)) = Len(surface') - 1
      BY <1>4, <2>1
    <2>3. \A k \in 1 .. Cardinality(Dispatches(trace)) : surface'[k] = surface[k]
      BY <1>4, <2>1
    <2>4. QED
      BY <1>1, <2>2, <2>3 DEF Listed
  <1>7. Kept'
    BY <1>1 DEF Acts, Kept
  <1>8. QED
    BY <1>5, <1>6, <1>7

(* ... which is the next dispatch, and tells of that act.                  *)
LEMMA RecordsKeeps ==
  ASSUME IInv, NEW well \in BOOLEAN, Records(well)
  PROVE  Granting' /\ Listed' /\ Kept' /\ trace' \in Seq(Events) /\ Len(trace') = Len(trace) + 1
  <1> USE DEF IInv
  <1>1. /\ call \in CallRecord /\ call.at = "record" /\ call'.at = "none"
        /\ surface' = surface /\ filed' = filed
    BY DEF Records, Typed, NoCall, CallRecord
  <1>2. PICK act \in ActRecord : act = surface[Len(surface)] /\ Len(surface) \in DOMAIN surface
    BY <1>1 DEF UnderWay, Typed
  <1>3. act.actor = call.actor /\ act.control = call.control
    BY <1>1, <1>2 DEF UnderWay
  <1>4. PICK e \in Events : e = Dispatch(act)
    BY DEF Dispatch, Events, ActRecord
  <1>5. /\ e.id = act.id /\ e.actor = act.actor /\ e.epoch = act.epoch /\ Reached(e)
        /\ e.event # "authorize" /\ e.event = "dispatch"
    BY <1>4 DEF Dispatch, Reached
  <1>6. PICK t \in Seq(Events) : t = trace
    BY DEF Typed
  <1>7. PICK s \in Seq(Events) : s = trace' /\ s = Append(t, e)
    BY <1>2, <1>4, <1>6, AppendIs DEF Records, Emit
  <1>8. /\ Dispatches(s) = Dispatches(t) \cup {Len(t) + 1}
        /\ Granted(t) \subseteq Granted(s)
        /\ \A n \in Dispatches(t) :
             s[n] = t[n] /\ Place(s, n) = Place(t, n) /\ Pending(s, n) = Pending(t, n)
        /\ Cardinality(Dispatches(s)) = Cardinality(Dispatches(t)) + 1
        /\ Place(s, Len(t) + 1) = Cardinality(Dispatches(t)) + 1
    BY <1>5, <1>7, AppendReads
  <1>9. s[Len(t) + 1] = e /\ Len(s) = Len(t) + 1 /\ Len(t) \in Nat
    BY <1>7, AppendIs
  <1>10. Granting'
    <2>1. act.id \in Granted(t)
      BY <1>2, <1>6 DEF Granting
    <2>2. \A n \in Dispatches(t) : t[n].id \in Granted(t)
      BY <1>6 DEF Granting
    <2>3. /\ \A n \in DOMAIN surface' : surface'[n].id \in Granted(s)
          /\ \A n \in Dispatches(s) : s[n].id \in Granted(s)
      BY <1>1, <1>5, <1>6, <1>8, <1>9, <2>1, <2>2 DEF Granting
    <2>4. QED
      BY <1>7, <2>3 DEF Granting
  <1>11. Listed'
    <2>1. Cardinality(Dispatches(t)) = Len(surface) - 1 /\ Cardinality(Dispatches(t)) \in Nat
      BY <1>1, <1>6, DispatchesAreFinite DEF Listed
    <2>2. Of(s, Len(t) + 1, act)
      <3>1. ASSUME act.control # NoControl
            PROVE  Pending(s, Len(t) + 1) = act.control
        <4>1. LastResolved(t, Len(t) + 1, act.control)
          BY <1>1, <1>3, <1>6, <3>1 DEF UnderWay
        <4>2. LastResolved(s, Len(t) + 1, act.control)
          BY <1>7, <1>9, <4>1, AppendIs DEF LastResolved
        <4>3. QED
          BY <1>9, <4>2, PendingIsLastResolved
      <3>2. QED
        BY <1>5, <1>9, <3>1 DEF Of
    <2>3. \A k \in 1 .. Cardinality(Dispatches(s)) :
            \E n \in Dispatches(s) : Place(s, n) = k /\ Of(s, n, surface'[k])
      <3> SUFFICES ASSUME NEW k \in 1 .. Cardinality(Dispatches(s))
                   PROVE  \E n \in Dispatches(s) : Place(s, n) = k /\ Of(s, n, surface'[k])
        OBVIOUS
      <3>1. CASE k = Cardinality(Dispatches(s))
        <4>1. k = Len(surface)
          BY <1>2, <1>8, <2>1, <3>1
        <4>2. surface'[k] = act
          BY <1>1, <1>2, <4>1
        <4>3. QED
          BY <1>8, <2>2, <3>1, <4>2
      <3>2. CASE k # Cardinality(Dispatches(s))
        <4>1. k \in 1 .. Cardinality(Dispatches(t))
          BY <1>8, <2>1, <3>2
        <4>2. PICK n \in Dispatches(t) : Place(t, n) = k /\ Of(t, n, surface[k])
          BY <1>6, <4>1 DEF Listed
        <4>3. QED
          BY <1>1, <1>8, <4>2 DEF Of
      <3>3. QED
        BY <3>1, <3>2
    <2>4. Cardinality(Dispatches(s)) = Len(surface')
      BY <1>1, <1>2, <1>8, <2>1
    <2>5. QED
      BY <1>1, <1>7, <2>3, <2>4 DEF Listed
  <1>12. Kept'
    <2> SUFFICES ASSUME run'.at = "idle", NEW n \in Dispatches(s), n > filed'
                 PROVE  s[n].actor = "human"
      BY <1>7 DEF Kept
    <2>1. act.actor = "human" /\ run.at = "idle"
      <3>1. call # NoCall
        BY <1>1 DEF NoCall
      <3>2. CASE call.actor = "automation"
        BY <1>1, <3>1, <3>2 DEF Records, Stays, Holds, Typed
      <3>3. CASE call.actor = "human"
        BY <1>1, <1>3, <3>3 DEF Records, Stays
      <3>4. QED
        BY <1>1, <3>2, <3>3 DEF CallRecord, Hands
    <2>2. QED
      BY <1>1, <1>5, <1>6, <1>8, <1>9, <2>1 DEF Kept
  <1>13. QED
    BY <1>6, <1>7, <1>9, <1>10, <1>11, <1>12

-----------------------------------------------------------------------------
(* Every change of control opens an epoch of the right kind.               *)
LEMMA LeaseMoves ==
  ASSUME lease \in LeaseRecord
  PROVE  /\ lease.epoch \in Epochs
         /\ (LeaseEscalate \/ LeaseReclaimExpired) =>
              /\ lease' \in LeaseRecord /\ lease'.epoch = lease.epoch + 1
              /\ lease'.state = "paused" /\ lease'.holder = "system"
         /\ \A op \in Operators : LeaseClaim(op, "ahead") =>
              /\ lease' \in LeaseRecord /\ lease'.epoch = lease.epoch + 1
              /\ lease'.state = "human_control" /\ lease'.holder = "human"
         /\ LeaseRelease =>
              /\ lease' \in LeaseRecord /\ lease'.epoch = lease.epoch + 1
              /\ lease'.state = "resuming" /\ lease'.holder = "system"
         /\ LeaseResume =>
              /\ lease' \in LeaseRecord /\ lease'.epoch = lease.epoch + 1
              /\ lease'.state = "running" /\ lease'.holder = "automation"
         /\ Lapse =>
              /\ lease' \in LeaseRecord /\ lease'.epoch = lease.epoch
              /\ lease'.state = lease.state /\ lease'.holder = lease.holder
  <1> USE DEF LeaseRecord, Actors, ControlStates, Deadlines, Transition, Vacated, Epochs
  <1>1. lease.epoch + 1 \in Nat \ {0} /\ lease.epoch \in Epochs
    OBVIOUS
  <1>2. (LeaseEscalate \/ LeaseReclaimExpired) =>
          /\ lease' \in LeaseRecord /\ lease'.epoch = lease.epoch + 1
          /\ lease'.state = "paused" /\ lease'.holder = "system"
    BY <1>1 DEF LeaseEscalate, LeaseReclaimExpired
  <1>3. ASSUME NEW op \in Operators, LeaseClaim(op, "ahead")
        PROVE  /\ lease' \in LeaseRecord /\ lease'.epoch = lease.epoch + 1
               /\ lease'.state = "human_control" /\ lease'.holder = "human"
    BY <1>1, <1>3 DEF LeaseClaim
  <1>4. LeaseRelease =>
          /\ lease' \in LeaseRecord /\ lease'.epoch = lease.epoch + 1
          /\ lease'.state = "resuming" /\ lease'.holder = "system"
    BY <1>1 DEF LeaseRelease
  <1>5. LeaseResume =>
          /\ lease' \in LeaseRecord /\ lease'.epoch = lease.epoch + 1
          /\ lease'.state = "running" /\ lease'.holder = "automation"
    BY <1>1 DEF LeaseResume
  <1>6. Lapse =>
          /\ lease' \in LeaseRecord /\ lease'.epoch = lease.epoch
          /\ lease'.state = lease.state /\ lease'.holder = lease.holder
    BY DEF Lapse
  <1>7. QED
    BY <1>1, <1>2, <1>3, <1>4, <1>5, <1>6

LEMMA EpochsAreTyped ==
  ASSUME Typed
  PROVE  /\ \A e \in ByPeople : e \in Nat
         /\ \A n \in DOMAIN surface : surface[n].epoch \in Epochs
         /\ call # NoCall => call.epoch \in Epochs
         /\ lease.epoch \in Epochs
  <1>1. \A n \in DOMAIN trace : trace[n] \in Events
    BY DEF Typed
  <1>2. \A e \in Claimed : e \in Nat
    BY <1>1 DEF Claimed, Events
  <1>3. \A n \in DOMAIN surface : surface[n] \in ActRecord
    BY DEF Typed
  <1>4. call # NoCall => call.epoch \in Epochs
    BY DEF Typed, CallRecord
  <1>5. QED
    BY <1>2, <1>3, <1>4 DEF Typed, ByPeople, ActRecord, LeaseRecord, Epochs

(* No control changes hands.                                               *)
LEMMA HoldsStays ==
  ASSUME Typed, Holds, UNCHANGED surface,
         lease'.epoch = lease.epoch, lease'.state = lease.state,
         ByPeople' \cup {0} = ByPeople \cup {0},
         run'.at = "running" => run.at = "running",
         \/ call' = NoCall
         \/ /\ call # NoCall /\ call'.epoch = call.epoch /\ call'.actor = call.actor
            /\ run.at = "running" => run'.at = "running"
  PROVE  Holds'
  <1>1. \A e \in Epochs : e \in ByPeople' <=> e \in ByPeople
    BY DEF Epochs
  <1>2. \A e \in ByPeople' : e <= lease'.epoch
    <2>1. lease.epoch \in Nat
      BY EpochsAreTyped DEF Epochs
    <2>2. \A e \in ByPeople' : e \in ByPeople \/ e = 0
      OBVIOUS
    <2>3. QED
      BY <2>1, <2>2 DEF Holds
  <1>3. lease'.state = "human_control" <=> lease'.epoch \in ByPeople'
    BY <1>1, EpochsAreTyped DEF Holds
  <1>4. ASSUME NEW n \in DOMAIN surface
        PROVE  /\ surface'[n].epoch <= lease'.epoch
               /\ surface'[n].actor = "human" <=> surface'[n].epoch \in ByPeople'
    BY <1>1, EpochsAreTyped DEF Holds
  <1>5. call' # NoCall =>
          /\ call'.epoch <= lease'.epoch
          /\ call'.actor = "human" <=> call'.epoch \in ByPeople'
          /\ call'.actor = "automation" => run'.at = "running"
    BY <1>1, EpochsAreTyped DEF Holds
  <1>6. QED
    BY <1>2, <1>3, <1>4, <1>5 DEF Holds

(* A new epoch is nobody's yet, unless a person takes it.                  *)
LEMMA HoldsMoves ==
  ASSUME Typed, Holds, lease'.epoch = lease.epoch + 1,
         UNCHANGED <<surface, call>>,
         \/ lease'.state # "human_control" /\ ByPeople' = ByPeople
         \/ lease'.state = "human_control" /\ ByPeople' \cup {0} = ByPeople \cup {lease'.epoch},
         run'.at = "running" => lease'.state = "running",
         run.at = "running" => run'.at = "running"
  PROVE  Holds'
  <1>1. \A e \in Epochs : e <= lease.epoch => (e \in ByPeople' <=> e \in ByPeople)
    BY EpochsAreTyped DEF Epochs
  <1>2. \A e \in ByPeople' : e <= lease'.epoch
    BY EpochsAreTyped DEF Holds, Epochs
  <1>3. lease'.state = "human_control" <=> lease'.epoch \in ByPeople'
    BY EpochsAreTyped DEF Holds, Epochs
  <1>4. ASSUME NEW n \in DOMAIN surface
        PROVE  /\ surface'[n].epoch <= lease'.epoch
               /\ surface'[n].actor = "human" <=> surface'[n].epoch \in ByPeople'
    <2>1. /\ surface[n].epoch <= lease.epoch
          /\ surface[n].epoch \in Epochs
          /\ surface[n].actor = "human" <=> surface[n].epoch \in ByPeople
      BY EpochsAreTyped DEF Holds
    <2>2. PICK e \in Epochs : e = surface[n].epoch /\ e <= lease.epoch
      BY <2>1
    <2>3. e <= lease'.epoch
      BY <2>2, EpochsAreTyped DEF Epochs
    <2>4. e \in ByPeople' <=> e \in ByPeople
      BY <1>1, <2>2
    <2>5. QED
      BY <2>1, <2>2, <2>3, <2>4
  <1>5. call # NoCall =>
          /\ call.epoch <= lease'.epoch
          /\ call.actor = "human" <=> call.epoch \in ByPeople'
          /\ call.actor = "automation" => run'.at = "running"
    BY <1>1, EpochsAreTyped DEF Holds, Epochs
  <1>6. QED
    BY <1>2, <1>3, <1>4, <1>5 DEF Holds

-----------------------------------------------------------------------------
(* The run's own steps write no event.                                     *)
LEMMA RunSteps ==
  ASSUME IInv,
         \/ \E new \in BOOLEAN : RunStarts(new)
         \/ \E anchored \in BOOLEAN : RunResumes(anchored)
         \/ RunEnds \/ Escalates \/ Files
         \/ UNCHANGED vars
  PROVE  IInv'
  <1> USE DEF IInv
  <1>1. UNCHANGED <<trace, surface, call, claiming>>
    BY DEF RunStarts, RunResumes, RunEnds, Escalates, Files, vars
  <1>2. Told
    BY <1>1 DEF Told
  <1>3. UnderWay'
    BY <1>1 DEF UnderWay, Decisions
  <1>4. /\ lease' \in LeaseRecord
        /\ lease'.holder = "automation" => lease'.state = "running"
    BY LeaseMoves DEF RunStarts, RunResumes, RunEnds, Escalates, Files, vars, Typed
  <1>5. /\ run' \in [at : {"idle", "running", "failing", "lost", "ended"}, epoch : Nat]
        /\ run'.at = "idle" => \/ run.at = "idle" /\ filed' = filed
                               \/ filed' = Len(trace')
    BY <1>1, EpochsAreTyped
    DEF RunStarts, RunResumes, RunEnds, Escalates, Files, Begins, Typed, vars, Epochs
  <1>6. filed' \in 0 .. Len(trace)
    BY DEF RunStarts, RunResumes, RunEnds, Escalates, Files, Typed, vars
  <1>7. Typed'
    BY <1>1, <1>4, <1>5, <1>6 DEF Typed
  <1>8. Granting' /\ Listed' /\ Kept'
    BY <1>1, <1>2, <1>5, ToldKeeps
  <1>9. Holds'
    <2>0. ByPeople' = ByPeople
      BY <1>1 DEF ByPeople, Claimed
    <2>1. CASE Escalates
      <3>1. run.at = "failing" /\ run'.at = "ended"
        BY <2>1 DEF Escalates, Typed
      <3>2. lease'.epoch = lease.epoch + 1 /\ lease'.state = "paused"
        BY <2>1, LeaseMoves DEF Escalates, Typed
      <3>3. QED
        BY <1>1, <2>0, <3>1, <3>2, HoldsMoves
    <2>2. CASE /\ lease' = lease
               /\ run'.at = "running" => run.at = "running" \/ lease.state = "running"
               /\ call # NoCall /\ run.at = "running" => run'.at = "running"
      BY <1>1, <2>0, <2>2 DEF Holds
    <2>3. ASSUME ~Escalates
          PROVE  /\ lease' = lease
                 /\ run'.at = "running" => run.at = "running" \/ lease.state = "running"
                 /\ call # NoCall /\ run.at = "running" => run'.at = "running"
      <3>1. ASSUME NEW new \in BOOLEAN, RunStarts(new)
            PROVE  /\ lease' = lease
                   /\ run'.at = "running" => run.at = "running" \/ lease.state = "running"
                   /\ call # NoCall /\ run.at = "running" => run'.at = "running"
        BY <3>1 DEF RunStarts, Free, Begins, Available, Typed
      <3>2. ASSUME NEW anchored \in BOOLEAN, RunResumes(anchored)
            PROVE  /\ lease' = lease
                   /\ run'.at = "running" => run.at = "running" \/ lease.state = "running"
                   /\ call # NoCall /\ run.at = "running" => run'.at = "running"
        BY <3>2 DEF RunResumes, Free, Begins, Available, Typed
      <3>3. ASSUME RunEnds \/ Files \/ UNCHANGED vars
            PROVE  /\ lease' = lease
                   /\ run'.at = "running" => run.at = "running" \/ lease.state = "running"
                   /\ call # NoCall /\ run.at = "running" => run'.at = "running"
        BY <3>3 DEF RunEnds, Files, Typed, vars
      <3>4. QED
        BY <2>3, <3>1, <3>2, <3>3
    <2>4. QED
      BY <2>1, <2>2, <2>3
  <1>10. QED
    BY <1>3, <1>7, <1>8, <1>9

-----------------------------------------------------------------------------
(* An action is submitted: by automation while it runs, by a person who    *)
(* holds the session.                                                      *)
LEMMA Submitting ==
  ASSUME IInv, NEW actor \in Hands, NEW epoch \in Nat, NEW control \in Controls \cup {NoControl},
         Executes(actor, epoch, control),
         epoch = lease.epoch => (actor = "human" <=> lease.state = "human_control"),
         actor = "automation" => run.at = "running"
  PROVE  IInv'
  <1> USE DEF IInv
  <1>1. UNCHANGED <<lease, surface, claiming, filed>> /\ call = NoCall
    BY DEF Executes
  <1>2. CASE epoch # lease.epoch
    <2>1. PICK e \in Events : e = Refusal(actor, epoch) /\ e.event = "dispatch" /\ e.refused
      <3>1. Refusal(actor, epoch) \in [event : {"dispatch"}, refused : {TRUE}, actor : Hands, epoch : Nat]
        BY DEF Refusal
      <3>2. Refusal(actor, epoch).event = "dispatch" /\ Refusal(actor, epoch).refused
        BY DEF Refusal
      <3>3. QED
        BY <3>1, <3>2 DEF Events
    <2>2. Emit(e) /\ call' = call /\ Stays(actor, "lost")
      BY <1>2, <2>1 DEF Executes
    <2>3. ~Reached(e) /\ e.event # "lease"
      BY <2>1 DEF Reached
    <2>4. Told
      BY <2>2, <2>3 DEF Told
    <2>5. /\ run' \in [at : {"idle", "running", "failing", "lost", "ended"}, epoch : Nat]
          /\ run'.at \in {"idle", "running"} => run' = run
      BY <2>2 DEF Stays, Typed
    <2>6. trace' \in Seq(Events) /\ filed' \in 0 .. Len(trace')
      BY <1>1, <2>2, AppendIs DEF Emit, Typed
    <2>7. Typed'
      BY <1>1, <2>2, <2>5, <2>6 DEF Typed
    <2>8. Granting' /\ Listed' /\ Kept'
      BY <1>1, <2>2, <2>4, <2>5, ToldKeeps
    <2>9. UnderWay'
      BY <1>1, <2>2 DEF UnderWay, NoCall
    <2>10. ByPeople' = ByPeople
      BY <1>1, <2>2, <2>3, AppendClaims DEF ByPeople
    <2>11. Holds'
      BY <1>1, <2>2, <2>5, <2>10, HoldsStays
    <2>12. QED
      BY <2>7, <2>8, <2>9, <2>11
  <1>3. CASE epoch = lease.epoch
    <2>1. /\ call' = [at |-> IF control = NoControl THEN "authorize" ELSE "resolve",
                      actor |-> actor, epoch |-> epoch, control |-> control]
          /\ UNCHANGED <<trace, run>>
      BY <1>3 DEF Executes
    <2>2. /\ call' \in CallRecord /\ call'.actor = actor /\ call'.epoch = epoch
          /\ call'.at = IF control = NoControl THEN "authorize" ELSE "resolve"
          /\ call'.control = control
      <3>1. epoch \in Epochs
        BY <1>3, EpochsAreTyped
      <3>2. QED
        BY <2>1, <3>1 DEF CallRecord
    <2>3. Typed'
      BY <1>1, <2>1, <2>2 DEF Typed
    <2>4. Granting' /\ Listed' /\ Kept'
      BY <1>1, <2>1, <2>2, ToldKeeps DEF Told, NoCall
    <2>5. UnderWay'
      BY <2>2 DEF UnderWay
    <2>6. ByPeople' = ByPeople
      BY <1>1, <2>1 DEF ByPeople, Claimed
    <2>7. Holds'
      <3>1. /\ call'.epoch <= lease'.epoch
            /\ call'.actor = "human" <=> call'.epoch \in ByPeople'
            /\ call'.actor = "automation" => run'.at = "running"
        BY <1>1, <1>3, <2>1, <2>2, <2>6, EpochsAreTyped DEF Holds, Epochs
      <3>2. QED
        BY <1>1, <2>1, <2>6, <3>1 DEF Holds
    <2>8. QED
      BY <2>3, <2>4, <2>5, <2>7
  <1>4. QED
    BY <1>2, <1>3

(* A call that goes on, or ends, having appended an event of its own.      *)
LEMMA CallGoesOn ==
  ASSUME IInv, NEW e \in Events, Emit(e), ~Reached(e), e.event # "lease",
         UNCHANGED <<lease, surface, claiming, filed>>,
         call # NoCall, call.at # "record",
         \/ /\ call' \in CallRecord /\ call'.at # "record"
            /\ call'.epoch = call.epoch /\ call'.actor = call.actor /\ run' = run
         \/ call' = NoCall /\ Stays(call.actor, "failing")
  PROVE  Typed' /\ Holds' /\ Granting' /\ Listed' /\ Kept'
  <1> USE DEF IInv
  <1>1. /\ run' \in [at : {"idle", "running", "failing", "lost", "ended"}, epoch : Nat]
        /\ run'.at \in {"idle", "running"} => run' = run
    BY DEF Stays, Typed
  <1>2. trace' \in Seq(Events) /\ filed' \in 0 .. Len(trace')
    BY AppendIs DEF Emit, Typed
  <1>3. Typed'
    BY <1>1, <1>2 DEF Typed
  <1>4. Granting' /\ Listed' /\ Kept'
    BY <1>1, ToldKeeps DEF Told, NoCall
  <1>5. ByPeople' = ByPeople
    BY AppendClaims DEF ByPeople
  <1>6. Holds'
    BY <1>1, <1>5, HoldsStays
  <1>7. QED
    BY <1>3, <1>4, <1>6

LEMMA Resolving ==
  ASSUME IInv, NEW found \in BOOLEAN, Resolves(found)
  PROVE  IInv'
  <1> USE DEF IInv
  <1>1. call.at = "resolve" /\ call \in CallRecord /\ call # NoCall /\ call.control \in Controls
    BY DEF Resolves, Typed, CallRecord, NoCall, UnderWay
  <1>2. PICK e \in Events : e = Resolve(call.control) /\ e.event = "resolve" /\ e.target = call.control
    <2>1. Resolve(call.control) \in [event : {"resolve"}, target : Controls]
      BY <1>1 DEF Resolve
    <2>2. Resolve(call.control).event = "resolve" /\ Resolve(call.control).target = call.control
      BY DEF Resolve
    <2>3. QED
      BY <2>1, <2>2 DEF Events
  <1>3. Emit(e) /\ ~Reached(e)
    BY <1>2 DEF Resolves, Reached
  <1>4. \/ /\ call' \in CallRecord /\ call'.at = "authorize" /\ call'.control = call.control
           /\ call'.epoch = call.epoch /\ call'.actor = call.actor /\ run' = run
        \/ call' = NoCall /\ Stays(call.actor, "failing")
    BY <1>1 DEF Resolves, CallRecord
  <1>5. Typed' /\ Holds' /\ Granting' /\ Listed' /\ Kept'
    BY <1>1, <1>2, <1>3, <1>4, CallGoesOn DEF Resolves
  <1>6. UnderWay'
    <2>1. LastResolved(trace', Len(trace') + 1, call.control)
      BY <1>2, <1>3, <1>5, AppendKeepsResolved DEF Emit, Typed
    <2>2. QED
      BY <1>4, <2>1 DEF UnderWay, NoCall
  <1>7. QED
    BY <1>5, <1>6

LEMMA Authorizing ==
  ASSUME IInv, NEW granted \in BOOLEAN, Authorizes(granted)
  PROVE  IInv'
  <1> USE DEF IInv
  <1>1. call.at = "authorize" /\ call \in CallRecord /\ call # NoCall
    BY DEF Authorizes, Typed, CallRecord, NoCall
  <1>2. Decisions \in Nat
    BY DecisionsAreCounted
  <1>3. PICK e \in Events : /\ e = Authorize(Decisions + 1, granted) /\ e.event = "authorize"
                            /\ e.id = Decisions + 1 /\ e.granted = granted
    <2>1. Authorize(Decisions + 1, granted) \in [event : {"authorize"}, id : Nat, granted : BOOLEAN]
      BY <1>2 DEF Authorize
    <2>2. /\ Authorize(Decisions + 1, granted).event = "authorize"
          /\ Authorize(Decisions + 1, granted).id = Decisions + 1
          /\ Authorize(Decisions + 1, granted).granted = granted
      BY DEF Authorize
    <2>3. QED
      BY <2>1, <2>2 DEF Events
  <1>4. Emit(e) /\ ~Reached(e)
    BY <1>3 DEF Authorizes, Reached
  <1>5. \/ /\ granted /\ call' \in CallRecord /\ call'.at = "act" /\ call'.control = call.control
           /\ call'.epoch = call.epoch /\ call'.actor = call.actor /\ run' = run
        \/ call' = NoCall /\ Stays(call.actor, "failing")
    BY <1>1 DEF Authorizes, CallRecord
  <1>6. Typed' /\ Holds' /\ Granting' /\ Listed' /\ Kept'
    BY <1>1, <1>3, <1>4, <1>5, CallGoesOn DEF Authorizes
  <1>7. UnderWay'
    <2>1. call.control # NoControl => LastResolved(trace', Len(trace') + 1, call.control)
      BY <1>1, <1>3, <1>4, <1>6, AppendKeepsResolved DEF Emit, Typed, UnderWay
    <2>2. /\ granted => e.id \in Granted(trace')
          /\ Cardinality(Deciding(trace')) = Cardinality(Deciding(trace)) + 1
      <3>1. PICK t \in Seq(Events) : t = trace
        BY DEF Typed
      <3>2. PICK s \in Seq(Events) : s = trace' /\ s = Append(t, e)
        BY <1>4, <1>6, <3>1 DEF Emit, Typed
      <3>3. /\ e.event = "authorize" /\ e.granted => e.id \in Granted(s)
            /\ Cardinality(Deciding(s)) =
                 Cardinality(Deciding(t)) + (IF e.event = "authorize" THEN 1 ELSE 0)
        BY <3>2, AppendReads
      <3>4. QED
        BY <1>3, <3>1, <3>2, <3>3
    <2>3. granted => Decisions' \in Granted(trace')
      BY <1>3, <2>2 DEF Decisions, Deciding
    <2>4. QED
      BY <1>5, <2>1, <2>3 DEF UnderWay, NoCall
  <1>8. QED
    BY <1>6, <1>7

LEMMA Acting ==
  ASSUME IInv, Acts
  PROVE  IInv'
  <1> USE DEF IInv
  <1>1. call.at = "act" /\ call \in CallRecord /\ call # NoCall
    BY DEF Acts, Typed, CallRecord, NoCall
  <1>2. /\ call' \in CallRecord /\ call'.at = "record" /\ call'.control = call.control
        /\ call'.epoch = call.epoch /\ call'.actor = call.actor /\ call' # NoCall
    BY <1>1 DEF Acts, CallRecord, NoCall
  <1>3. UNCHANGED <<lease, trace, run, claiming, filed>>
    BY DEF Acts
  <1>4. PICK act \in ActRecord :
          /\ surface' = Append(surface, act)
          /\ act.actor = call.actor /\ act.epoch = call.epoch /\ act.control = call.control
    <2>1. Decisions \in Nat
      BY DecisionsAreCounted
    <2> DEFINE act == [actor |-> call.actor, epoch |-> call.epoch, control |-> call.control,
                       id |-> Decisions]
    <2>2. act \in ActRecord
      BY <1>1, <2>1 DEF CallRecord, ActRecord
    <2>3. surface' = Append(surface, act)
      BY DEF Acts
    <2>4. act.actor = call.actor /\ act.epoch = call.epoch /\ act.control = call.control
      OBVIOUS
    <2>5. QED
      BY <2>2, <2>3, <2>4
  <1>5. /\ surface' \in Seq(ActRecord)
        /\ Len(surface') = Len(surface) + 1 /\ Len(surface) \in Nat
        /\ DOMAIN surface' = 1 .. (Len(surface) + 1) /\ DOMAIN surface = 1 .. Len(surface)
        /\ surface'[Len(surface) + 1] = act
        /\ \A n \in 1 .. Len(surface) : surface'[n] = surface[n]
    BY <1>4 DEF Typed
  <1>6. Typed'
    BY <1>2, <1>3, <1>5 DEF Typed
  <1>7. Granting' /\ Listed' /\ Kept'
    BY ActsKeeps
  <1>8. UnderWay'
    BY <1>1, <1>2, <1>3, <1>4, <1>5 DEF UnderWay
  <1>9. Holds'
    <2>1. ByPeople' = ByPeople
      BY <1>3 DEF ByPeople, Claimed
    <2>2. ASSUME NEW n \in DOMAIN surface'
          PROVE  /\ surface'[n].epoch <= lease'.epoch
                 /\ surface'[n].actor = "human" <=> surface'[n].epoch \in ByPeople'
      <3>1. CASE n = Len(surface) + 1
        BY <1>1, <1>3, <1>4, <1>5, <2>1, <3>1 DEF Holds
      <3>2. CASE n \in 1 .. Len(surface)
        BY <1>3, <1>5, <2>1, <3>2 DEF Holds
      <3>3. QED
        BY <1>5, <3>1, <3>2
    <2>3. QED
      BY <1>1, <1>2, <1>3, <2>1, <2>2 DEF Holds
  <1>10. QED
    BY <1>6, <1>7, <1>8, <1>9

LEMMA Recording ==
  ASSUME IInv, NEW well \in BOOLEAN, Records(well)
  PROVE  IInv'
  <1> USE DEF IInv
  <1>1. call.at = "record" /\ call \in CallRecord /\ call' = NoCall
    BY DEF Records, Typed, CallRecord, NoCall
  <1>2. UNCHANGED <<lease, surface, claiming, filed>>
    BY DEF Records
  <1>3. Granting' /\ Listed' /\ Kept' /\ trace' \in Seq(Events) /\ Len(trace') = Len(trace) + 1
    BY RecordsKeeps
  <1>4. /\ run' \in [at : {"idle", "running", "failing", "lost", "ended"}, epoch : Nat]
        /\ run'.at = "running" => run.at = "running"
    BY DEF Records, Stays, Typed
  <1>5. Typed'
    <2>1. filed' \in 0 .. Len(trace')
      BY <1>2, <1>3 DEF Typed
    <2>2. QED
      BY <1>1, <1>2, <1>3, <1>4, <2>1 DEF Typed
  <1>6. UnderWay'
    BY <1>1 DEF UnderWay, NoCall
  <1>7. ByPeople' = ByPeople
    <2>1. PICK act \in ActRecord : act = surface[Len(surface)]
      BY <1>1 DEF UnderWay, Typed
    <2>2. PICK e \in Events : e = Dispatch(act) /\ e.event = "dispatch"
      <3>1. Dispatch(act) \in Events /\ Dispatch(act).event = "dispatch"
        BY DEF Dispatch, Events, ActRecord
      <3>2. QED
        BY <3>1
    <2>3. Emit(e)
      BY <2>1, <2>2 DEF Records
    <2>4. QED
      BY <1>2, <2>2, <2>3, AppendClaims DEF ByPeople
  <1>8. Holds'
    BY <1>1, <1>2, <1>4, <1>7, HoldsStays
  <1>9. QED
    BY <1>3, <1>5, <1>6, <1>8

-----------------------------------------------------------------------------
(* The broker's steps append at most an event of the lease, and leave the  *)
(* application and the call in flight alone.                               *)
LEMMA LeaseEventsAreTyped ==
  ASSUME NEW transition \in Transitions, NEW epoch \in Nat
  PROVE  /\ LeaseEvent(transition, epoch) \in Events
         /\ ~Reached(LeaseEvent(transition, epoch))
         /\ LeaseEvent(transition, epoch).event = "lease"
         /\ LeaseEvent(transition, epoch).transition = transition
         /\ LeaseEvent(transition, epoch).epoch = epoch
  BY DEF LeaseEvent, Events, Reached

LEMMA BrokerKeeps ==
  ASSUME IInv, UNCHANGED <<surface, call, run, filed>>,
         \/ trace' = trace
         \/ \E e \in Events : Emit(e) /\ e.event = "lease",
         lease' \in LeaseRecord, claiming' \in Nat,
         lease'.holder = "automation" => lease'.state = "running"
  PROVE  Typed' /\ UnderWay' /\ Granting' /\ Listed' /\ Kept'
  <1> USE DEF IInv
  <1>1. Told
    BY DEF Told, Reached
  <1>2. Typed'
    <2>1. trace' \in Seq(Events) /\ filed' \in 0 .. Len(trace')
      BY AppendIs DEF Emit, Typed
    <2>2. QED
      BY <2>1 DEF Typed
  <1>3. Granting' /\ Listed' /\ Kept'
    BY <1>1, ToldKeeps
  <1>4. UnderWay'
    <2>1. CASE trace' = trace
      BY <2>1 DEF UnderWay, Decisions
    <2>2. ASSUME NEW e \in Events, Emit(e), e.event = "lease"
          PROVE  UnderWay'
      <3>1. PICK t \in Seq(Events) : t = trace
        BY DEF Typed
      <3>2. PICK s \in Seq(Events) : s = trace' /\ s = Append(t, e)
        BY <1>2, <2>2, <3>1 DEF Emit, Typed
      <3>3. ~Reached(e) /\ e.event # "resolve"
        BY <2>2 DEF Reached
      <3>4. \A control \in Controls :
              LastResolved(t, Len(t) + 1, control) => LastResolved(s, Len(s) + 1, control)
        BY <3>2, <3>3, AppendKeepsResolved
      <3>5. Granted(t) \subseteq Granted(s) /\ Cardinality(Deciding(s)) = Cardinality(Deciding(t)) + 0
        BY <2>2, <3>2, AppendReads
      <3>6. Decisions' = Decisions
        <4>1. Decisions = Cardinality(Deciding(t)) /\ Decisions' = Cardinality(Deciding(s))
          BY <3>1, <3>2 DEF Decisions, Deciding
        <4>2. Cardinality(Deciding(t)) \in Nat
          BY <3>1, <4>1, DecisionsAreCounted
        <4>3. QED
          BY <3>5, <4>1, <4>2
      <3>7. call.at \in {"authorize", "act", "record"} /\ call.control # NoControl =>
              LastResolved(s, Len(s) + 1, call.control)
        <4>1. call.at \in {"authorize", "act", "record"} /\ call.control # NoControl =>
                call.control \in Controls
          BY DEF Typed, CallRecord, NoCall
        <4>2. QED
          BY <3>1, <3>4, <4>1 DEF UnderWay
      <3>8. QED
        BY <3>1, <3>2, <3>5, <3>6, <3>7 DEF UnderWay
    <2>3. QED
      BY <2>1, <2>2
  <1>5. QED
    BY <1>2, <1>3, <1>4

(* A claim is a person's from the moment the lease says so, whether or not *)
(* its event is written yet.                                               *)
LEMMA Taking ==
  ASSUME IInv, NEW operator \in Operators, Takes(operator)
  PROVE  IInv'
  <1> USE DEF IInv
  <1>1. /\ LeaseClaim(operator, "ahead") /\ claiming = 0 /\ claiming' = lease.epoch + 1
        /\ run.at = "idle" /\ UNCHANGED <<trace, surface, call, run, filed>>
    BY DEF Takes
  <1>2. /\ lease' \in LeaseRecord /\ lease'.epoch = lease.epoch + 1 /\ lease.epoch \in Epochs
        /\ lease'.state = "human_control" /\ lease'.holder = "human"
    BY <1>1, LeaseMoves DEF Typed
  <1>3. Typed' /\ UnderWay' /\ Granting' /\ Listed' /\ Kept'
    BY <1>1, <1>2, BrokerKeeps DEF Epochs
  <1>4. ByPeople' \cup {0} = ByPeople \cup {lease'.epoch}
    BY <1>1, <1>2 DEF ByPeople, Claimed
  <1>5. Holds'
    BY <1>1, <1>2, <1>4, HoldsMoves
  <1>6. QED
    BY <1>3, <1>5

LEMMA Claiming ==
  ASSUME IInv, ClaimIsRecorded
  PROVE  IInv'
  <1> USE DEF IInv
  <1>1. UNCHANGED <<lease, surface, call, run, filed>> /\ claiming' = 0 /\ claiming \in Nat
    BY DEF ClaimIsRecorded, Typed
  <1>2. PICK e \in Events : /\ Emit(e) /\ e.event = "lease"
                            /\ e.transition = "claimed" /\ e.epoch = claiming
    <2>1. Emit(LeaseEvent("claimed", claiming))
      BY DEF ClaimIsRecorded
    <2>2. /\ LeaseEvent("claimed", claiming) \in Events
          /\ LeaseEvent("claimed", claiming).event = "lease"
          /\ LeaseEvent("claimed", claiming).transition = "claimed"
          /\ LeaseEvent("claimed", claiming).epoch = claiming
      <3>1. "claimed" \in Transitions
        BY DEF Transitions
      <3>2. QED
        BY <1>1, <3>1, LeaseEventsAreTyped
    <2>3. QED
      BY <2>1, <2>2
  <1>3. Typed' /\ UnderWay' /\ Granting' /\ Listed' /\ Kept'
    <2>1. lease' \in LeaseRecord /\ (lease'.holder = "automation" => lease'.state = "running")
      BY <1>1 DEF Typed
    <2>2. QED
      BY <1>1, <1>2, <2>1, BrokerKeeps
  <1>4. ByPeople' \cup {0} = ByPeople \cup {0}
    <2>1. Claimed' = Claimed \cup {claiming}
      BY <1>2, AppendClaims
    <2>2. QED
      BY <1>1, <2>1 DEF ByPeople
  <1>5. Holds'
    BY <1>1, <1>4, HoldsStays
  <1>6. QED
    BY <1>3, <1>5

(* Control leaves a person's hands, or time passes.                        *)
LEMMA Leaving ==
  ASSUME IInv, HandsBack \/ Sweeps \/ Resumes
  PROVE  IInv'
  <1> USE DEF IInv
  <1>1. UNCHANGED <<surface, call, run, claiming, filed>>
    BY DEF HandsBack, Sweeps, Resumes
  <1>2. /\ lease' \in LeaseRecord /\ lease'.epoch = lease.epoch + 1 /\ lease.epoch + 1 \in Nat
        /\ lease'.state # "human_control"
        /\ lease'.holder = "automation" => lease'.state = "running"
        /\ run.at = "running" => lease'.state = "running"
    <2>1. lease \in LeaseRecord /\ lease.epoch + 1 \in Nat
      BY EpochsAreTyped DEF Typed, Epochs
    <2>2. CASE HandsBack
      BY <2>1, <2>2, LeaseMoves DEF HandsBack
    <2>3. CASE Sweeps
      BY <2>1, <2>3, LeaseMoves DEF Sweeps
    <2>4. CASE Resumes
      BY <2>1, <2>4, LeaseMoves DEF Resumes
    <2>5. QED
      BY <2>2, <2>3, <2>4
  <1>3. PICK e \in Events : Emit(e) /\ e.event = "lease" /\ e.transition # "claimed"
    <2>1. /\ \A transition \in {"released", "hold expired", "resumed"} :
               transition \in Transitions /\ transition # "claimed"
          /\ \E transition \in {"released", "hold expired", "resumed"} :
               Emit(LeaseEvent(transition, lease.epoch + 1))
      BY DEF HandsBack, Sweeps, Resumes, Transitions
    <2>2. PICK transition \in Transitions :
            transition # "claimed" /\ Emit(LeaseEvent(transition, lease.epoch + 1))
      BY <2>1, Zenon
    <2>3. QED
      BY <1>2, <2>2, LeaseEventsAreTyped
  <1>4. Typed' /\ UnderWay' /\ Granting' /\ Listed' /\ Kept'
    <2>1. claiming' \in Nat
      BY <1>1 DEF Typed
    <2>2. QED
      BY <1>1, <1>2, <1>3, <2>1, BrokerKeeps
  <1>5. ByPeople' = ByPeople
    BY <1>1, <1>3, AppendClaims DEF ByPeople
  <1>6. Holds'
    BY <1>1, <1>2, <1>5, HoldsMoves
  <1>7. QED
    BY <1>4, <1>6

LEMMA Lapsing ==
  ASSUME IInv, TimePasses
  PROVE  IInv'
  <1> USE DEF IInv
  <1>1. UNCHANGED <<trace, surface, call, run, claiming, filed>> /\ Lapse
    BY DEF TimePasses
  <1>2. /\ lease' \in LeaseRecord /\ lease'.epoch = lease.epoch
        /\ lease'.state = lease.state /\ lease'.holder = lease.holder
    BY <1>1, LeaseMoves DEF Typed
  <1>3. Typed' /\ UnderWay' /\ Granting' /\ Listed' /\ Kept'
    <2>1. claiming' \in Nat /\ (lease'.holder = "automation" => lease'.state = "running")
      BY <1>1, <1>2 DEF Typed
    <2>2. QED
      BY <1>1, <1>2, <2>1, BrokerKeeps
  <1>4. ByPeople' = ByPeople
    BY <1>1 DEF ByPeople, Claimed
  <1>5. Holds'
    BY <1>1, <1>2, <1>4, HoldsStays
  <1>6. QED
    BY <1>3, <1>5

-----------------------------------------------------------------------------
LEMMA InitIInv == Init => IInv
  <1> SUFFICES ASSUME Init PROVE IInv
    OBVIOUS
  <1>1. /\ lease = NewLease /\ trace = <<>> /\ surface = <<>> /\ call = NoCall
        /\ run = [at |-> "idle", epoch |-> 0] /\ claiming = 0 /\ filed = 0
    BY DEF Init, LeaseInit
  <1>2. DOMAIN trace = {} /\ Len(trace) = 0 /\ trace \in Seq(Events)
        /\ DOMAIN surface = {} /\ Len(surface) = 0 /\ surface \in Seq(ActRecord)
    BY <1>1
  <1>3. Dispatches(trace) = {} /\ Cardinality(Dispatches(trace)) = 0
    BY <1>2, FS_EmptySet DEF Dispatches
  <1>4. Typed
    BY <1>1, <1>2 DEF Typed, NewLease, LeaseRecord, Actors, ControlStates, Deadlines
  <1>5. Holds
    <2>1. ByPeople = {0}
      BY <1>1, <1>2 DEF ByPeople, Claimed
    <2>2. QED
      BY <1>1, <1>2, <2>1 DEF Holds, NewLease
  <1>6. UnderWay
    BY <1>1 DEF UnderWay, NoCall
  <1>7. Granting /\ Kept
    BY <1>2, <1>3 DEF Granting, Kept
  <1>8. Listed
    BY <1>1, <1>2, <1>3 DEF Listed, NoCall
  <1>9. QED
    BY <1>4, <1>5, <1>6, <1>7, <1>8 DEF IInv

LEMMA StepIInv == IInv /\ [Next]_vars => IInv'
  <1> SUFFICES ASSUME IInv, [Next]_vars PROVE IInv'
    OBVIOUS
  <1>1. ASSUME NEW control \in Controls \cup {NoControl}, AutomationCalls(control)
        PROVE  IInv'
    <2>1. /\ run.at = "running" /\ run.epoch \in Nat /\ Executes("automation", run.epoch, control)
          /\ lease.state # "human_control"
      BY <1>1 DEF AutomationCalls, IInv, Typed, Holds
    <2>2. QED
      BY <2>1, Submitting DEF Hands
  <1>2. ASSUME NEW control \in Controls \cup {NoControl}, HumanCalls(control)
        PROVE  IInv'
    <2>1. /\ lease.state = "human_control" /\ lease.epoch \in Nat
          /\ Executes("human", lease.epoch, control)
      BY <1>2 DEF HumanCalls, IInv, Typed, LeaseRecord
    <2>2. QED
      BY <2>1, Submitting DEF Hands
  <1>3. ASSUME NEW yes \in BOOLEAN, Resolves(yes) \/ Authorizes(yes) \/ Records(yes)
        PROVE  IInv'
    BY <1>3, Resolving, Authorizing, Recording
  <1>4. ASSUME NEW operator \in Operators, Takes(operator)
        PROVE  IInv'
    BY <1>4, Taking
  <1>5. CASE Acts
    BY <1>5, Acting
  <1>6. CASE ClaimIsRecorded
    BY <1>6, Claiming
  <1>7. CASE HandsBack \/ Sweeps \/ Resumes
    BY <1>7, Leaving
  <1>8. CASE TimePasses
    BY <1>8, Lapsing
  <1>9. CASE \/ \E new \in BOOLEAN : RunStarts(new)
             \/ \E anchored \in BOOLEAN : RunResumes(anchored)
             \/ RunEnds \/ Escalates \/ Files
             \/ UNCHANGED vars
    BY <1>9, RunSteps
  <1>10. QED
    BY <1>1, <1>2, <1>3, <1>4, <1>5, <1>6, <1>7, <1>8, <1>9 DEF Next

-----------------------------------------------------------------------------
(* Each step of the record is read at some dispatch.                       *)
LEMMA RecordIsRead ==
  ASSUME IInv, NEW k \in DOMAIN Record
  PROVE  /\ k \in 1 .. Cardinality(Dispatches(trace)) /\ k \in DOMAIN surface
         /\ \E n \in Dispatches(trace) :
              /\ Place(trace, n) = k /\ Of(trace, n, surface[k])
              /\ Record[k] = StepOf(trace, n)
  <1> USE DEF IInv
  <1>1. PICK t \in Seq(Events) : t = trace
    BY DEF Typed
  <1>2. k \in 1 .. Cardinality(Dispatches(t))
    BY <1>1 DEF Record, Steps
  <1>3. k \in DOMAIN surface
    <2>1. Cardinality(Dispatches(t)) <= Len(surface) /\ Cardinality(Dispatches(t)) \in Nat
      BY <1>1, DispatchesAreFinite DEF Listed, Typed
    <2>2. DOMAIN surface = 1 .. Len(surface) /\ Len(surface) \in Nat
      BY DEF Typed
    <2>3. QED
      BY <1>2, <2>1, <2>2
  <1>4. PICK n \in Dispatches(t) : Place(t, n) = k /\ Of(t, n, surface[k])
    BY <1>1, <1>2 DEF Listed
  <1>5. Steps(t)[Place(t, n)] = StepOf(t, n)
    BY StepsAreRead
  <1>6. QED
    BY <1>1, <1>2, <1>3, <1>4, <1>5 DEF Record

(* Whatever the lengths of the trace and of the run: what was done to the  *)
(* application was authorized by a decision in the trace, and neither      *)
(* reconciliation lists a dispatch that was not.                           *)
THEOREM NothingGotPastPolicy == Spec => []NothingPastPolicy
  <1>1. IInv => NothingPastPolicy
    <2> SUFFICES ASSUME IInv PROVE NothingPastPolicy
      OBVIOUS
    <2>1. /\ \A n \in DOMAIN surface : surface[n].id \in Granted(trace)
          /\ \A n \in Dispatches(trace) : trace[n].id \in Granted(trace)
      BY DEF IInv, Granting
    <2>2. UnauthorizedDispatches(trace) = {}
      BY <2>1 DEF UnauthorizedDispatches, Dispatches
    <2>3. ASSUME NEW k \in DOMAIN Record
          PROVE  Record[k].authorized
      <3>1. PICK n \in Dispatches(trace) : Record[k] = StepOf(trace, n)
        BY RecordIsRead
      <3>2. StepOf(trace, n).authorized = (trace[n].id \in Granted(trace))
        BY DEF StepOf
      <3>3. QED
        BY <2>1, <3>1, <3>2
    <2>4. QED
      BY <2>1, <2>2, <2>3 DEF NothingPastPolicy, UnauthorizedSteps
  <1>2. QED
    BY <1>1, InitIInv, StepIInv, PTL DEF Spec

(* Whatever the lengths of the trace and of the run: the record lists what *)
(* was done, in its order, with the control it was done to and under whose *)
(* claim, and what was filed when a run ended tells all that automation    *)
(* did.                                                                    *)
THEOREM TakeoversAreAuditable == Spec => []TakeoverIsAuditable
  <1>1. IInv => TakeoverIsAuditable
    <2> SUFFICES ASSUME IInv PROVE TakeoverIsAuditable
      OBVIOUS
    <2> USE DEF IInv
    <2>1. PICK t \in Seq(Events) : t = trace
      BY DEF Typed
    <2>2. Len(Record) = Len(surface) - (IF call.at = "record" THEN 1 ELSE 0)
      <3>1. PICK d \in Nat : d = Cardinality(Dispatches(trace))
        BY <2>1, DispatchesAreFinite
      <3>2. Record = [k \in 1 .. d |->
                       StepOf(trace, CHOOSE n \in Dispatches(trace) : Place(trace, n) = k)]
        BY <3>1 DEF Record, Steps
      <3>3. Len(Record) = d
        BY <3>2
      <3>4. QED
        BY <3>1, <3>3 DEF Listed
    <2>3. ASSUME NEW k \in DOMAIN Record
          PROVE  /\ Tells(Record[k], surface[k])
                 /\ Record[k].actor = IF Record[k].epoch \in ByPeople THEN "human" ELSE "automation"
      <3>1. PICK n \in Dispatches(trace) :
              /\ Of(trace, n, surface[k]) /\ Record[k] = StepOf(trace, n) /\ k \in DOMAIN surface
        BY RecordIsRead
      <3>2. /\ Record[k].actor = trace[n].actor /\ Record[k].epoch = trace[n].epoch
            /\ Record[k].target = Pending(trace, n)
        BY <3>1 DEF StepOf
      <3>3. Tells(Record[k], surface[k])
        BY <3>1, <3>2 DEF Of, Tells
      <3>4. /\ surface[k].actor = "human" <=> surface[k].epoch \in ByPeople
            /\ surface[k].actor \in Hands
        <4>1. surface[k].actor = "human" <=> surface[k].epoch \in ByPeople
          BY <3>1 DEF Holds
        <4>2. surface[k] \in ActRecord
          BY <3>1 DEF Typed
        <4>3. QED
          BY <4>1, <4>2 DEF ActRecord
      <3>5. QED
        BY <3>3, <3>4 DEF Tells, Hands
    <2>4. ASSUME run.at = "idle", NEW k \in DOMAIN Record, Record[k].actor = "automation"
          PROVE  /\ k \in DOMAIN Steps(SubSeq(trace, 1, filed))
                 /\ Tells(Steps(SubSeq(trace, 1, filed))[k], surface[k])
      <3>1. PICK n \in Dispatches(t) :
              Place(t, n) = k /\ Of(t, n, surface[k]) /\ Record[k] = StepOf(t, n)
        BY <2>1, RecordIsRead
      <3>2. n <= filed
        <4>1. t[n].actor = "automation"
          BY <2>4, <3>1 DEF StepOf
        <4>2. n \in Nat /\ filed \in Nat
          BY <2>1, DispatchesAreFinite DEF Typed
        <4>3. QED
          BY <2>1, <2>4, <4>1, <4>2 DEF Kept
      <3>3. PICK s \in Seq(Events) :
              /\ s = SubSeq(trace, 1, filed) /\ Len(s) = filed /\ Len(s) <= Len(t)
              /\ \A m \in 1 .. Len(s) : s[m] = t[m]
        <4>1. filed \in 0 .. Len(t) /\ Len(t) \in Nat
          BY <2>1 DEF Typed
        <4>2. /\ SubSeq(t, 1, filed) \in Seq(Events) /\ Len(SubSeq(t, 1, filed)) = filed
              /\ \A m \in 1 .. filed : SubSeq(t, 1, filed)[m] = t[m]
          BY <4>1
        <4>3. PICK s \in Seq(Events) : s = SubSeq(t, 1, filed)
          BY <4>2
        <4>4. s = SubSeq(trace, 1, filed) /\ Len(s) = filed /\ Len(s) <= Len(t)
          BY <2>1, <4>1, <4>2, <4>3
        <4>5. \A m \in 1 .. Len(s) : s[m] = t[m]
          BY <4>2, <4>3
        <4>6. QED
          BY <4>4, <4>5
      <3>4. n \in Dispatches(s) /\ Place(s, n) = k /\ Pending(s, n) = Pending(t, n) /\ s[n] = t[n]
        <4>1. /\ Dispatches(s) = {m \in Dispatches(t) : m <= Len(s)}
              /\ \A m \in 1 .. Len(s) : Place(s, m) = Place(t, m) /\ Pending(s, m) = Pending(t, m)
          BY <3>3, PrefixReads
        <4>2. n \in 1 .. Len(s)
          BY <3>2, <3>3, DispatchesAreFinite
        <4>3. QED
          BY <3>1, <3>2, <3>3, <4>1, <4>2
      <3>5. k \in DOMAIN Steps(s) /\ Steps(s)[k] = StepOf(s, n)
        BY <3>4, StepsAreRead
      <3>6. Tells(StepOf(s, n), surface[k])
        BY <3>1, <3>4 DEF Of, Tells, StepOf
      <3>7. QED
        BY <3>3, <3>5, <3>6
    <2>5. QED
      BY <2>2, <2>3, <2>4 DEF TakeoverIsAuditable
  <1>2. QED
    BY <1>1, InitIInv, StepIInv, PTL DEF Spec
=============================================================================
