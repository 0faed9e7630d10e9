-------------------------- MODULE NX_VidFrames_proofs --------------------------
(***************************************************************************)
(* Proofs about NX_VidFrames, for any streams, codecs and table sizes.     *)
(***************************************************************************)
EXTENDS NX_VidFrames, FiniteSetTheorems, SequenceTheorems, WellFoundedInduction, TLAPS

-----------------------------------------------------------------------------
(* What is known of every state                                            *)

Pic == [pts : Nat, key : BOOLEAN]
FrameStamp == [timestamp : Nat, flag : {"frame", "eos"}]
Table == [Slots -> {Free} \cup FrameStamp]
ShownType == [pts : Nat, stamp : Int, flag : {"frame", "eos"}, sure : BOOLEAN]
SeenType == [shown : Seq(ShownType), taken : SUBSET Nat, givenUp : SUBSET Nat,
             keySince : BOOLEAN, eosSent : BOOLEAN]
SessionType == [number : 1..MaxSession, config : Seq(Buffer), initData : Seq(Buffer),
                flushes : 0..MaxFlush]

\* The types, with those of the history and of the VPU.
Types ==
  /\ TypeOK
  /\ pictures \subseteq Pic /\ outTimeStamp \in Table
  /\ seen \in SeenType /\ session \in SessionType

Pts(S) == {p.pts : p \in S}

\* The pictures the VPU has been given and has not handed out.
Within == pictures \cup Range(bits)

\* Every frame taken is in the VPU, was shown, or was given up.
Accounted == seen.taken = Pts(Within) \cup Pts(Range(seen.shown)) \cup seen.givenUp

\* Nothing is in the VPU before it is initialised, after a flush and when the
\* end of the stream was signalled.
Empties ==
  /\ ~ bInitialized => Within = {} /\ seen.shown = <<>> /\ ~ isOutIdr
  /\ bFlush => Within = {} /\ ~ bStartEoS
  /\ seen.eosSent => Within = {} /\ bStartEoS

\* isOutIdr stands for an I picture decoded since the last flush.
KeyNoted ==
  codec \in {"DIV3", "VC1"} =>
    /\ isOutIdr /\ ~ bFlush => seen.keySince
    /\ seen.shown # <<>> /\ ~ bStartEoS => seen.keySince

\* No two frames of a stream have the same time stamp.
IsFrame(b) == b.data /\ ~ b.config
OwnStamps(s) == \A i, j \in DOMAIN s : IsFrame(s[i]) /\ IsFrame(s[j]) /\ s[i].pts = s[j].pts => i = j

\* What is still to come has other stamps than what the VPU has.
Apart ==
  /\ OwnStamps(input)
  /\ \A i \in DOMAIN input : IsFrame(input[i]) => input[i].pts \notin Pts(Within)

StampSet(tab) == {tab[i].timestamp : i \in Used(tab)}
NoneTwice(tab) == \A i, j \in Used(tab) : tab[i].timestamp = tab[j].timestamp => i = j

\* As long as nothing was lost, the table has the stamps of the pictures in the
\* VPU, each once.
Paired == ~ lost /\ ~ bFlush => StampSet(outTimeStamp) = Pts(Within) /\ NoneTwice(outTimeStamp)

-----------------------------------------------------------------------------
(* Sequences and the table                                                 *)

LEMMA AppendRange ==
  ASSUME NEW S, NEW s \in Seq(S), NEW e \in S
  PROVE  /\ Append(s, e) \in Seq(S) /\ Range(Append(s, e)) = Range(s) \cup {e}
         /\ Append(s, e) # <<>>
<1> DEFINE t == Append(s, e)
<1>1. /\ t \in Seq(S) /\ Len(t) = Len(s) + 1 /\ t[Len(s) + 1] = e
      /\ \A i \in 1 .. Len(s) : t[i] = s[i]
      /\ DOMAIN s = 1 .. Len(s) /\ DOMAIN t = 1 .. Len(t) /\ Len(s) \in Nat
  BY AppendProperties
<1> HIDE DEF t
<1>2. DOMAIN t = DOMAIN s \cup {Len(s) + 1}
  BY <1>1
<1>3. \A x : x \in Range(t) <=> \E i \in DOMAIN t : x = t[i]
  BY DEF Range
<1>4. \A x : x \in Range(s) <=> \E i \in DOMAIN s : x = s[i]
  BY DEF Range
<1>5. Range(t) = Range(s) \cup {e}
  BY <1>1, <1>2, <1>3, <1>4
<1>6. t # <<>>
  BY <1>1, EmptySeq
<1> QED
  BY <1>1, <1>5, <1>6 DEF t

\* What is behind the first buffer, and how a stream goes on after a flush.
LEMMA TailShift ==
  ASSUME NEW S, NEW s \in Seq(S), s # <<>>
  PROVE  /\ Tail(s) \in Seq(S) /\ 1 \in DOMAIN s
         /\ \A i \in DOMAIN Tail(s) : /\ i \in Nat /\ i + 1 \in DOMAIN s /\ i + 1 # 1
                                     /\ Tail(s)[i] = s[i + 1]
         /\ \A i, j \in DOMAIN Tail(s) : i + 1 = j + 1 => i = j
<1> DEFINE t == Tail(s)
           n == Len(s)
<1>1. /\ t \in Seq(S) /\ Len(t) = n - 1 /\ \A i \in 1 .. Len(t) : t[i] = s[i + 1]
      /\ n \in Nat /\ n # 0 /\ DOMAIN s = 1 .. n /\ DOMAIN t = 1 .. Len(t)
  BY HeadTailProperties, EmptySeq
<1> HIDE DEF t, n
<1>2. \A i \in DOMAIN t : i \in Nat /\ i + 1 \in DOMAIN s /\ i + 1 # 1 /\ t[i] = s[i + 1]
  BY <1>1
<1>3. \A i, j \in DOMAIN t : i + 1 = j + 1 => i = j
  BY <1>2
<1>4. 1 \in DOMAIN s
  BY <1>1
<1> QED
  BY <1>1, <1>2, <1>3, <1>4 DEF t

LEMMA RestShift ==
  ASSUME NEW rest \in Rests
  PROVE  \E s \in Streams, l \in Nat :
           /\ \A i \in DOMAIN rest : /\ i \in Nat /\ l + i - 1 \in DOMAIN s /\ rest[i] = s[l + i - 1]
                                     /\ l + i - 1 = 1 => i = 1
           /\ \A i, j \in DOMAIN rest : l + i - 1 = l + j - 1 => i = j
<1>1. PICK s \in Streams : rest \in Suffixes(s)
  BY DEF Rests
<1>2. s \in Seq(Buffer)
  BY VidFramesAssumption
<1>3. CASE rest = <<>>
  BY <1>1, <1>3
<1>4. CASE \E l \in 1 .. Len(s) : rest = SubSeq(s, l, Len(s))
  <2>1. PICK l \in 1 .. Len(s) : rest = SubSeq(s, l, Len(s))
    BY <1>4
  <2> DEFINE n == Len(s)
  <2>2. n \in Nat /\ DOMAIN s = 1 .. n /\ \A i \in 1 .. n : s[i] \in Buffer
    BY <1>2, ElementOfSeq
  <2>3. l \in Int /\ \A i \in l .. Len(s) : s[i] \in Buffer
    BY <2>1, <2>2
  <2>4. /\ rest \in Seq(Buffer) /\ Len(rest) = n - l + 1
        /\ \A i \in 1 .. n - l + 1 : rest[i] = s[l + i - 1]
    BY <1>2, <2>1, <2>2, <2>3, SubSeqProperties
  <2>5. DOMAIN rest = 1 .. n - l + 1
    BY <2>4
  <2> HIDE DEF n
  <2>l. l \in 1 .. n /\ l \in Nat
    BY <2>1, <2>2 DEF n
  <2>6. \A i \in DOMAIN rest : /\ i \in Nat /\ l + i - 1 \in DOMAIN s /\ rest[i] = s[l + i - 1]
                               /\ l + i - 1 = 1 => i = 1
    BY <2>l, <2>2, <2>4, <2>5
  <2>7. \A i, j \in DOMAIN rest : l + i - 1 = l + j - 1 => i = j
    BY <2>l, <2>6
  <2> QED
    BY <2>l, <2>6, <2>7
<1> QED
  BY <1>1, <1>3, <1>4 DEF Suffixes

LEMMA RangeType == ASSUME NEW S, NEW s \in Seq(S) PROVE Range(s) \subseteq S
BY ElementOfSeq DEF Range

\* The front of a sequence and what is behind it.
LEMMA FrontRange ==
  ASSUME NEW S, NEW s \in Seq(S)
  PROVE  /\ SubSeq(s, 2, Len(s)) \in Seq(S)
         /\ Range(s) = FirstOf(s) \cup Range(SubSeq(s, 2, Len(s)))
         /\ FirstOf(s) \subseteq S /\ IsFiniteSet(FirstOf(s))
<1> DEFINE t == SubSeq(s, 2, Len(s))
<1>1. DOMAIN s = 1 .. Len(s) /\ Len(s) \in Nat /\ \A i \in DOMAIN s : s[i] \in S
  BY ElementOfSeq
<1>2. /\ t \in Seq(S) /\ Len(t) = IF 2 <= Len(s) THEN Len(s) - 1 ELSE 0
      /\ \A i \in 1 .. Len(s) - 1 : t[i] = s[i + 1]
  <2>1. \A i \in 2 .. Len(s) : s[i] \in S
    BY <1>1
  <2> QED
    BY <1>1, <2>1, SubSeqProperties
<1>3. DOMAIN t = IF 2 <= Len(s) THEN 1 .. Len(s) - 1 ELSE {}
  BY <1>1, <1>2
<1> HIDE DEF t
<1> DEFINE n == Len(s)
<1>n. n \in Nat /\ DOMAIN s = 1 .. n /\ DOMAIN t = IF 2 <= n THEN 1 .. n - 1 ELSE {}
  BY <1>1, <1>3
<1>t. \A i \in 1 .. n - 1 : t[i] = s[i + 1]
  BY <1>2
<1> HIDE DEF n
<1>4. \A i \in DOMAIN t : i + 1 \in DOMAIN s /\ t[i] = s[i + 1]
  BY <1>n, <1>t
<1>5. ASSUME NEW i \in DOMAIN s, i # 1 PROVE i - 1 \in DOMAIN t /\ t[i - 1] = s[i]
  <2>1. i - 1 \in DOMAIN t /\ (i - 1) + 1 = i
    BY <1>n, <1>5
  <2> QED
    BY <1>4, <2>1
<1>6. Range(t) \subseteq Range(s)
  BY <1>4 DEF Range
<1>7. FirstOf(s) \subseteq Range(s)
  BY DEF FirstOf, Range
<1>8. ASSUME NEW x \in Range(s) PROVE x \in FirstOf(s) \cup Range(t)
  <2>1. PICK i \in DOMAIN s : x = s[i]
    BY <1>8 DEF Range
  <2> QED
    BY <1>5, <2>1 DEF Range, FirstOf
<1>9. IsFiniteSet(FirstOf(s))
  <2>1. FirstOf(s) \subseteq {s[1]}
    BY DEF FirstOf
  <2> QED
    BY <2>1, FS_Singleton, FS_Subset
<1> QED
  BY <1>1, <1>2, <1>6, <1>7, <1>8, <1>9 DEF FirstOf, t

LEMMA ConcatRange ==
  ASSUME NEW S, NEW s \in Seq(S), NEW t \in Seq(S)
  PROVE  s \o t \in Seq(S) /\ Range(s \o t) = Range(s) \cup Range(t)
<1> DEFINE u == s \o t
<1>1. /\ u \in Seq(S) /\ Len(u) = Len(s) + Len(t) /\ Len(s) \in Nat /\ Len(t) \in Nat
      /\ DOMAIN s = 1 .. Len(s) /\ DOMAIN t = 1 .. Len(t) /\ DOMAIN u = 1 .. Len(u)
      /\ \A i \in 1 .. Len(s) : u[i] = s[i]
      /\ \A i \in 1 .. Len(t) : u[Len(s) + i] = t[i]
  BY ConcatProperties
<1> HIDE DEF u
<1>2. ASSUME NEW i \in DOMAIN u, i \notin DOMAIN s
      PROVE  i - Len(s) \in DOMAIN t /\ u[i] = t[i - Len(s)]
  <2>1. i - Len(s) \in DOMAIN t /\ Len(s) + (i - Len(s)) = i
    BY <1>1, <1>2
  <2> QED
    BY <1>1, <2>1
<1>3. Range(u) \subseteq Range(s) \cup Range(t)
  BY <1>1, <1>2 DEF Range
<1>4. Range(s) \subseteq Range(u)
  BY <1>1 DEF Range
<1>5. ASSUME NEW x \in Range(t) PROVE x \in Range(u)
  <2>1. PICK i \in DOMAIN t : x = t[i]
    BY <1>5 DEF Range
  <2>2. Len(s) + i \in DOMAIN u
    BY <1>1, <2>1
  <2> QED
    BY <1>1, <2>1, <2>2 DEF Range
<1> QED
  BY <1>1, <1>3, <1>4, <1>5 DEF u

LEMMA SmallestOf ==
  ASSUME NEW T \in SUBSET Nat, T # {}
  PROVE  \E m \in T : \A k \in T : m <= k
<1> DEFINE R == OpToRel(<, Nat)
<1>1. IsWellFoundedOn(R, Nat)
  BY NatLessThanWellFounded
<1>2. \A x, y \in Nat : <<y, x>> \in R <=> y < x
  BY DEF OpToRel
<1> HIDE DEF R
<1>3. PICK m \in T : \A y \in T : ~ (<<y, m>> \in R)
  BY <1>1, WFMin
<1>4. ASSUME NEW k \in T PROVE m <= k
  <2>1. m \in Nat /\ k \in Nat /\ ~ (k < m)
    BY <1>2, <1>3
  <2> QED
    BY <2>1
<1> QED
  BY <1>4

\* The slot PopIndex chooses has the smallest stamp.
LEMMA SmallestStamp ==
  ASSUME NEW tab \in Table, Used(tab) # {}
  PROVE  /\ PopIndex(tab) \in Used(tab)
         /\ \A j \in Used(tab) : tab[PopIndex(tab)].timestamp <= tab[j].timestamp
<1>1. Used(tab) \subseteq Nat /\ \A j \in Used(tab) : tab[j] \in FrameStamp
  BY VidFramesAssumption DEF Used, Slots, Table
<1>2. \A j \in Used(tab) : tab[j].timestamp \in Nat
  BY <1>1 DEF FrameStamp
<1> DEFINE T == StampSet(tab)
<1>3. T \in SUBSET Nat /\ T # {}
  BY <1>2 DEF StampSet
<1> HIDE DEF T
<1>4. PICK m \in T : \A k \in T : m <= k
  BY <1>3, SmallestOf
<1> DEFINE S == {i \in Used(tab) : tab[i].timestamp = m}
<1>5. S \in SUBSET Nat /\ S # {}
  BY <1>1, <1>4 DEF StampSet, T
<1>6. PICK i \in S : \A k \in S : i <= k
  <2> HIDE DEF S
  <2> QED
    BY <1>5, SmallestOf
<1>7. ASSUME NEW j \in Used(tab)
      PROVE  \/ tab[i].timestamp < tab[j].timestamp
             \/ tab[i].timestamp = tab[j].timestamp /\ i <= j
  <2>1. tab[i].timestamp = m /\ m <= tab[j].timestamp
    BY <1>4, <1>6 DEF StampSet, T
  <2>2. CASE tab[j].timestamp = m
    BY <1>6, <2>1, <2>2
  <2>3. CASE tab[j].timestamp # m
    BY <1>2, <1>3, <2>1, <2>3
  <2> QED
    BY <2>2, <2>3
<1>8. i \in Used(tab)
  BY <1>6
<1>9. /\ PopIndex(tab) \in Used(tab)
      /\ \A j \in Used(tab) : \/ tab[PopIndex(tab)].timestamp < tab[j].timestamp
                              \/ tab[PopIndex(tab)].timestamp = tab[j].timestamp /\ PopIndex(tab) <= j
  BY <1>7, <1>8 DEF PopIndex
<1> QED
  BY <1>2, <1>9

\* A pop frees the slot of the smallest stamp; a push fills a free slot.
LEMMA Popped ==
  ASSUME NEW tab \in Table
  PROVE  /\ PopVideoTimeStamp(tab) \in Table
         /\ Used(tab) # {} => /\ Used(PopVideoTimeStamp(tab)) = Used(tab) \ {PopIndex(tab)}
                              /\ \A j \in Used(tab) \ {PopIndex(tab)} :
                                   PopVideoTimeStamp(tab)[j] = tab[j]
BY SmallestStamp DEF PopVideoTimeStamp, Table, Used

LEMMA PushedStamp ==
  ASSUME NEW tab \in Table, NEW b \in Buffer
  PROVE  /\ PushVideoTimeStamp(tab, b) \in Table
         /\ Used(tab) # Slots =>
              \E i \in Slots \ Used(tab) :
                /\ Used(PushVideoTimeStamp(tab, b)) = Used(tab) \cup {i}
                /\ PushVideoTimeStamp(tab, b)[i].timestamp = b.pts
                /\ \A j \in Used(tab) : PushVideoTimeStamp(tab, b)[j] = tab[j]
<1>1. StampOf(b) \in FrameStamp /\ StampOf(b).timestamp = b.pts /\ StampOf(b) # Free
  BY DEF StampOf, Buffer, FrameStamp, Free
<1>2. CASE Used(tab) = Slots
  BY <1>2 DEF PushVideoTimeStamp
<1>3. CASE Used(tab) # Slots
  <2> DEFINE F == Slots \ Used(tab)
  <2>1. F \in SUBSET Nat /\ F # {}
    BY <1>3, VidFramesAssumption DEF Used, Slots
  <2>2. PICK n \in F : \A k \in F : n <= k
    <3> HIDE DEF F
    <3> QED
      BY <2>1, SmallestOf
  <2> DEFINE i == CHOOSE j \in F : \A k \in F : j <= k
  <2>3. i \in F
    BY <2>2
  <2>4. PushVideoTimeStamp(tab, b) = [tab EXCEPT ![i] = StampOf(b)]
    BY <1>3 DEF PushVideoTimeStamp
  <2> HIDE DEF i
  <2>5. PushVideoTimeStamp(tab, b) \in Table
    BY <1>1, <2>3, <2>4 DEF Table
  <2>6. Used(PushVideoTimeStamp(tab, b)) = Used(tab) \cup {i}
    BY <1>1, <2>3, <2>4 DEF Table, Used
  <2>7. /\ PushVideoTimeStamp(tab, b)[i].timestamp = b.pts
        /\ \A j \in Used(tab) : PushVideoTimeStamp(tab, b)[j] = tab[j]
    BY <1>1, <2>3, <2>4 DEF Table, Used
  <2> QED
    BY <2>3, <2>5, <2>6, <2>7
<1> QED
  BY <1>2, <1>3

-----------------------------------------------------------------------------
(* What a call of DecodeFrame starts from                                  *)

LEMMA BufferFacts ==
  ASSUME NEW b \in Buffer
  PROVE  /\ Picture(b) \in Pic /\ Picture(b).pts = b.pts
         /\ FramesIn(b) \in Seq(Pic) /\ Range(FramesIn(b)) = PicturesOf(b)
         /\ PicturesOf(b) \subseteq Pic /\ IsFiniteSet(PicturesOf(b))
         /\ Pts(PicturesOf(b)) = IF b.config THEN {} ELSE {b.pts}
<1>1. Picture(b) \in Pic /\ Picture(b).pts = b.pts
  BY DEF Picture, Buffer, Pic
<1>2. <<>> \in Seq(Pic) /\ Range(<<>>) = {}
  BY DEF Range
<1>3. <<Picture(b)>> \in Seq(Pic) /\ Range(<<Picture(b)>>) = {Picture(b)}
  BY <1>1 DEF Range
<1>4. IsFiniteSet({}) /\ IsFiniteSet({Picture(b)})
  BY FS_EmptySet, FS_Singleton
<1> QED
  BY <1>1, <1>2, <1>3, <1>4 DEF FramesIn, PicturesOf, Pts

LEMMA TakeFacts ==
  ASSUME Types, NEW b, Take(b)
  PROVE  /\ b \in Buffer /\ input \in Seq(Buffer) /\ input # <<>> /\ b = input[1]
         /\ input' = Tail(input) /\ input' \in Seq(Buffer)
         /\ bFlush' = FALSE /\ bStartEoS' = b.eos /\ ~ bStartEoS /\ ~ ended
         /\ Stamps \in Table /\ Pushed(b) \in Table /\ Idr \in BOOLEAN /\ Lost \in BOOLEAN
         /\ Parted(b) \in BOOLEAN /\ InitVideoTimeStamp \in Table
<1>1. input \in Seq(Buffer) /\ input # <<>> /\ b = Head(input) /\ input' = Tail(input)
  BY DEF Types, TypeOK, Take, Running
<1>2. b \in Buffer /\ b = input[1] /\ Tail(input) \in Seq(Buffer)
  BY <1>1, HeadTailProperties
<1>3. InitVideoTimeStamp \in Table /\ Stamps \in Table
  BY DEF InitVideoTimeStamp, Table, Stamps, Types
<1>4. Pushed(b) \in Table
  BY <1>2, <1>3, PushedStamp DEF Pushed
<1>5. Idr \in BOOLEAN /\ Lost \in BOOLEAN /\ Parted(b) \in BOOLEAN
  BY <1>2 DEF Idr, Lost, Parted, Stamped, Types, TypeOK, Buffer
<1> QED
  BY <1>1, <1>2, <1>3, <1>4, <1>5 DEF Take, Running

\* The history, field by field.
LEMMA TakenFacts ==
  ASSUME NEW b \in Buffer, seen \in SeenType
  PROVE  /\ Taken(b) \in SeenType
         /\ Taken(b).taken = seen.taken \cup Pts(PicturesOf(b))
         /\ Taken(b).shown = seen.shown /\ Taken(b).givenUp = seen.givenUp
         /\ Taken(b).keySince = seen.keySince /\ Taken(b).eosSent = seen.eosSent
BY BufferFacts DEF Taken, SeenType, Buffer

LEMMA GivenUpFacts ==
  ASSUME NEW s \in SeenType, NEW ps \in SUBSET Pic
  PROVE  /\ GivenUp(s, ps) \in SeenType /\ GivenUp(s, ps).taken = s.taken
         /\ GivenUp(s, ps).givenUp = s.givenUp \cup Pts(ps)
         /\ GivenUp(s, ps).shown = s.shown /\ GivenUp(s, ps).keySince = s.keySince
         /\ GivenUp(s, ps).eosSent = s.eosSent
BY DEF GivenUp, SeenType, Pts, Pic

LEMMA ShownFacts ==
  ASSUME NEW p \in Pic, NEW tab \in Table, NEW sure \in BOOLEAN,
         NEW other \in [timestamp : Int, flag : {"frame", "eos"}]
  PROVE  /\ Shown(p, tab, other, sure) \in ShownType
         /\ Shown(p, tab, other, sure).pts = p.pts /\ Shown(p, tab, other, sure).sure = sure
         /\ Used(tab) # {} =>
              Shown(p, tab, other, sure).stamp = tab[PopIndex(tab)].timestamp
<1>1. CASE Used(tab) = {}
  BY <1>1 DEF Shown, ShownType, Pic
<1>2. CASE Used(tab) # {}
  <2>1. tab[PopIndex(tab)] \in FrameStamp
    BY <1>2, SmallestStamp DEF Used, Table
  <2> QED
    BY <1>2, <2>1 DEF Shown, ShownType, Pic, FrameStamp
<1> QED
  BY <1>1, <1>2

\* A picture more is shown.
LEMMA ShownAppended ==
  ASSUME NEW s \in SeenType, NEW x \in ShownType
  PROVE  LET n == [s EXCEPT !.shown = Append(@, x)]
         IN  /\ n \in SeenType /\ n.shown = Append(s.shown, x) /\ n.taken = s.taken
             /\ n.givenUp = s.givenUp /\ n.keySince = s.keySince /\ n.eosSent = s.eosSent
<1>1. Append(s.shown, x) \in Seq(ShownType)
  BY AppendRange DEF SeenType
<1> QED
  BY <1>1 DEF SeenType

\* The same for the flag of the I pictures.
LEMMA KeySet ==
  ASSUME NEW s \in SeenType, NEW key \in BOOLEAN
  PROVE  LET n == [s EXCEPT !.keySince = key]
         IN  /\ n \in SeenType /\ n.shown = s.shown /\ n.taken = s.taken
             /\ n.givenUp = s.givenUp /\ n.keySince = key /\ n.eosSent = s.eosSent
BY DEF SeenType

-----------------------------------------------------------------------------
(* The VPU decodes                                                         *)

\* Picture p, the first of all, goes out with a stamp of the table, or it is
\* given up and its stamp with it.
Leaves(p, all, tab, s, other) ==
  /\ p \in all /\ \A q \in all \ {p} : p.pts < q.pts
  /\ Within' = all \ {p} /\ outTimeStamp' = PopVideoTimeStamp(tab)
  /\ \/ /\ seen'.shown = Append(s.shown, Shown(p, tab, other, ~ lost'))
        /\ seen'.givenUp = s.givenUp
     \/ seen'.shown = s.shown /\ seen'.givenUp = s.givenUp \cup {p.pts}

\* It precedes every frame after the one with which the VPU is called.
Precedes(p) ==
  \A i \in DOMAIN Tail(input) : IsFrame(Tail(input)[i]) => p.pts < Tail(input)[i].pts

Stays(all, tab, s) ==
  Within' = all /\ outTimeStamp' = tab /\ seen'.shown = s.shown /\ seen'.givenUp = s.givenUp

LEMMA DecodeFacts ==
  ASSUME Types, NEW b \in Buffer, NEW fs \in Seq(Pic), NEW tab \in Table, NEW s \in SeenType,
         lost' \in BOOLEAN, Decode(b, fs, tab, s)
  PROVE  /\ bits' \in Seq(Pic) /\ pictures' \subseteq Pic /\ IsFiniteSet(pictures')
         /\ isOutIdr' \in BOOLEAN /\ outTimeStamp' \in Table /\ seen' \in SeenType
         /\ seen'.taken = s.taken /\ seen'.eosSent = s.eosSent
         /\ \/ Stays(pictures \cup Range(fs), tab, s)
            \/ \E p \in Pic : Leaves(p, pictures \cup Range(fs), tab, s, StampOf(b)) /\ Precedes(p)
         /\ s.keySince => seen'.keySince
         /\ codec \in {"DIV3", "VC1"} =>
              /\ isOutIdr' => Idr \/ seen'.keySince
              /\ seen'.shown # s.shown => Idr \/ seen'.keySince
<1> DEFINE now == FirstOf(fs)
           rest == SubSeq(fs, 2, Len(fs))
           dpb == pictures \cup now
           type == IF \E p \in now : p.key THEN "I" ELSE "P"
           noted == [s EXCEPT !.keySince = @ \/ type = "I"]
           coming == {Picture(c) : c \in FramesOf(Tail(input))} \cup Range(rest)
<1>1. /\ rest \in Seq(Pic) /\ Range(fs) = now \cup Range(rest) /\ now \subseteq Pic
      /\ IsFiniteSet(now)
  BY FrontRange
<1>2. pictures \subseteq Pic /\ IsFiniteSet(pictures)
  BY DEF Types, TypeOK
<1>3. dpb \subseteq Pic /\ IsFiniteSet(dpb)
  BY <1>1, <1>2, FS_Union
<1>4. /\ noted \in SeenType /\ noted.shown = s.shown /\ noted.taken = s.taken
      /\ noted.givenUp = s.givenUp /\ noted.eosSent = s.eosSent
      /\ noted.keySince = (s.keySince \/ type = "I")
  BY DEF SeenType
<1>5. StampOf(b) \in [timestamp : Int, flag : {"frame", "eos"}]
  BY DEF StampOf, Buffer
<1>6. Idr \in BOOLEAN
  BY DEF Idr, Types, TypeOK
<1>7. bits' = rest
  BY DEF Decode
<1>8. CASE /\ pictures' = dpb /\ isOutIdr' = Idr
           /\ outTimeStamp' = tab /\ seen' = noted
  <2>1. Within' = pictures \cup Range(fs)
    BY <1>1, <1>7, <1>8 DEF Within
  <2> HIDE DEF rest, now, dpb, type, noted, coming
  <2> QED
    BY <1>1, <1>3, <1>4, <1>6, <1>7, <1>8, <2>1 DEF Stays
<1>9. ASSUME NEW p \in Due(dpb, coming), NEW room \in BOOLEAN,
             pictures' = dpb \ {p}, isOutIdr' = Shows(Idr, type).idr,
             IF Shows(Idr, type).may /\ room
             THEN /\ outTimeStamp' = PopVideoTimeStamp(tab)
                  /\ seen' = [noted EXCEPT !.shown = Append(@, Shown(p, tab, StampOf(b), ~ lost'))]
             ELSE outTimeStamp' = HoldBack(tab) /\ seen' = GivenUp(noted, {p})
      PROVE  /\ bits' \in Seq(Pic) /\ pictures' \subseteq Pic /\ IsFiniteSet(pictures')
             /\ isOutIdr' \in BOOLEAN /\ outTimeStamp' \in Table /\ seen' \in SeenType
             /\ seen'.taken = s.taken /\ seen'.eosSent = s.eosSent
             /\ Leaves(p, pictures \cup Range(fs), tab, s, StampOf(b)) /\ p \in Pic /\ Precedes(p)
             /\ s.keySince => seen'.keySince
             /\ codec \in {"DIV3", "VC1"} =>
                  /\ isOutIdr' => Idr \/ seen'.keySince
                  /\ seen'.shown # s.shown => Idr \/ seen'.keySince
  <2>1. p \in dpb /\ \A q \in (dpb \ {p}) \cup coming : p.pts < q.pts
    BY DEF Due
  <2>2. p \in Pic /\ p.pts \in Nat
    BY <1>3, <2>1 DEF Pic
  <2>3. Range(rest) \subseteq coming
    OBVIOUS
  <2>p. Precedes(p)
    <3>1. ASSUME NEW i \in DOMAIN Tail(input), IsFrame(Tail(input)[i])
          PROVE  p.pts < Tail(input)[i].pts
      <4>1. Tail(input)[i] \in FramesOf(Tail(input))
        BY <3>1 DEF FramesOf, Range, IsFrame
      <4>2. Picture(Tail(input)[i]) \in coming /\ Picture(Tail(input)[i]).pts = Tail(input)[i].pts
        BY <4>1 DEF Picture
      <4> QED
        BY <2>1, <4>2
    <3> QED
      BY <3>1 DEF Precedes
  <2> HIDE DEF rest, coming
  <2>4. p \notin Range(rest)
    BY <2>1, <2>2, <2>3
  <2>5. IsFiniteSet(pictures') /\ pictures' \subseteq Pic
    BY <1>3, <1>9, FS_RemoveElement
  <2>6. Within' = (pictures \cup Range(fs)) \ {p}
    BY <1>1, <1>7, <1>9, <2>4 DEF Within
  <2>7. p \in pictures \cup Range(fs) /\ \A q \in (pictures \cup Range(fs)) \ {p} : p.pts < q.pts
    BY <1>1, <2>1, <2>3
  <2>8. /\ Shows(Idr, type).idr \in BOOLEAN
        /\ codec \in {"DIV3", "VC1"} =>
             /\ Shows(Idr, type).idr => Idr \/ type = "I"
             /\ Shows(Idr, type).may => Idr \/ type = "I"
    <3> HIDE DEF type
    <3>1. codec \in {"AVC", "MP2", "MP4", "DIV3", "VC1", "RV", "VP8"}
      BY VidFramesAssumption DEF Types, TypeOK
    <3> QED
      BY <1>6, <3>1 DEF Shows, AvcShows, Mpeg2Shows, Mpeg4Shows, Div3Shows, VC1Shows, RVShows,
                        VP8Shows
  <2>9. outTimeStamp' = PopVideoTimeStamp(tab) /\ PopVideoTimeStamp(tab) \in Table
    BY <1>9, Popped DEF HoldBack
  <2> HIDE DEF type, noted, now, dpb
  <2>10. CASE seen' = [noted EXCEPT !.shown = Append(@, Shown(p, tab, StampOf(b), ~ lost'))]
              /\ Shows(Idr, type).may
    <3> DEFINE x == Shown(p, tab, StampOf(b), ~ lost')
    <3>1. x \in ShownType
      BY <1>5, <2>2, ShownFacts
    <3> HIDE DEF x
    <3>2. seen' = [noted EXCEPT !.shown = Append(@, x)]
      BY <2>10 DEF x
    <3>3. /\ seen' \in SeenType /\ seen'.shown = Append(s.shown, x) /\ seen'.taken = s.taken
          /\ seen'.givenUp = s.givenUp /\ seen'.eosSent = s.eosSent
          /\ seen'.keySince = (s.keySince \/ type = "I")
      BY <1>4, <3>1, <3>2, ShownAppended
    <3>4. Leaves(p, pictures \cup Range(fs), tab, s, StampOf(b))
      BY <2>6, <2>7, <2>9, <3>3 DEF Leaves, x
    <3> QED
      BY <1>1, <1>7, <1>9, <2>p, <2>2, <2>5, <2>8, <2>9, <2>10, <3>3, <3>4
  <2>11. CASE seen' = GivenUp(noted, {p})
    <3>1. {p} \in SUBSET Pic /\ Pts({p}) = {p.pts}
      BY <2>2 DEF Pts
    <3>2. /\ seen' \in SeenType /\ seen'.shown = s.shown /\ seen'.taken = s.taken
          /\ seen'.givenUp = s.givenUp \cup {p.pts} /\ seen'.eosSent = s.eosSent
          /\ seen'.keySince = (s.keySince \/ type = "I")
      BY <1>4, <2>11, <3>1, GivenUpFacts
    <3>3. Leaves(p, pictures \cup Range(fs), tab, s, StampOf(b))
      BY <2>6, <2>7, <2>9, <3>2 DEF Leaves
    <3> QED
      BY <1>1, <1>7, <1>9, <2>p, <2>2, <2>5, <2>8, <2>9, <3>2, <3>3
  <2> QED
    BY <1>9, <2>10, <2>11
<1> QED
  BY <1>8, <1>9 DEF Decode

-----------------------------------------------------------------------------
(* Every step, seen from the VPU, the table and the history                *)

LEMMA HeaderType == ASSUME Types PROVE Header \in Seq(Buffer)
<1>1. codec \in {"AVC", "MP2", "MP4", "DIV3", "VC1", "RV", "VP8"}
  BY VidFramesAssumption DEF Types, TypeOK
<1>2. codecSpecificData \in Seq(Buffer) /\ pExtraData \in Seq(Buffer) /\ <<>> \in Seq(Buffer)
  BY DEF Types, TypeOK
<1> QED
  BY <1>1, <1>2 DEF Header

\* A table of the stamps is a table of TypeOK.
LEMMA TableType == ASSUME outTimeStamp' \in Table PROVE outTimeStamp' \in [Slots -> {Free} \cup Stamp]
BY DEF Table, FrameStamp, Stamp

\* A call that decodes nothing and pushes nothing.
Quiet(b) ==
  /\ Within' = Within /\ outTimeStamp' = Stamps /\ lost' = Lost
  /\ isOutIdr' = Idr /\ seen' = seen
  /\ UNCHANGED <<codec, bInitialized>>

LEMMA QuietStep ==
  ASSUME Types, NEW b, TakeEos(b) \/ KeepConfig(b)
  PROVE  Types' /\ Quiet(b) /\ Take(b) /\ (b.config \/ ~ b.data)
<1>t. Take(b) /\ (b.config \/ ~ b.data)
  BY DEF TakeEos, KeepConfig, KeepsConfig
<1>1. /\ b \in Buffer /\ input' \in Seq(Buffer) /\ bFlush' = FALSE /\ bStartEoS' = b.eos
      /\ Stamps \in Table /\ Idr \in BOOLEAN /\ Lost \in BOOLEAN
  BY <1>t, TakeFacts
<1>2. <<b>> \in Seq(Buffer)
  BY <1>1
<1>3. session' \in SessionType
  <2>1. CASE TakeEos(b)
    BY <2>1 DEF TakeEos, Types
  <2>2. CASE KeepConfig(b)
    <3>1. session \in SessionType /\ session.config \in Seq(Buffer)
      BY DEF Types, SessionType
    <3>2. Append(session.config, b) \in Seq(Buffer)
      BY <1>1, <3>1, AppendRange
    <3>3. session' = [session EXCEPT !.config = Append(@, b)]
      BY <2>2 DEF KeepConfig
    <3> QED
      BY <3>1, <3>2, <3>3 DEF SessionType
  <2> QED
    BY <2>1, <2>2
<1>4. /\ Within' = Within /\ outTimeStamp' = Stamps /\ lost' = Lost
      /\ isOutIdr' = Idr /\ UNCHANGED <<seen, codec, bInitialized, ended, driverKeeps, bits, pictures>>
  BY DEF TakeEos, KeepConfig, control, vpu, Within
<1>5. /\ codecSpecificData' \in Seq(Buffer) /\ pExtraData' \in Seq(Buffer)
      /\ bNeedSequenceData' \in BOOLEAN
  <2>1. CASE TakeEos(b)
    BY <2>1 DEF TakeEos, Types, TypeOK, control
  <2>2. CASE KeepConfig(b)
    BY <1>2, <2>2 DEF KeepConfig, Types, TypeOK
  <2> QED
    BY <2>1, <2>2
<1>6. outTimeStamp' \in Table
  BY <1>1, <1>4
<1>7. b.eos \in BOOLEAN
  BY <1>1 DEF Buffer
<1>8. session'.number \in 1..MaxSession /\ session'.flushes \in 0..MaxFlush
  BY <1>3 DEF SessionType
<1> QED
  BY <1>t, <1>1, <1>3, <1>4, <1>5, <1>6, <1>7, <1>8, TableType DEF Types, TypeOK, Quiet

\* A call that gives up the frame it was called with.
Drops(b) ==
  /\ Within' = Within /\ outTimeStamp' = Pushed(b) /\ lost'
  /\ isOutIdr' = Idr /\ seen' = GivenUp(Taken(b), PicturesOf(b))
  /\ UNCHANGED <<codec, bInitialized>>

LEMMA DropStep ==
  ASSUME Types, NEW b, DropBeforeSequence(b) \/ InitializeFails(b) \/ DropChanged(b)
  PROVE  Types' /\ Drops(b) /\ Take(b) /\ b.data
<1>t. Take(b) /\ b.data
  BY DEF DropBeforeSequence, InitializeFails, DropChanged, First
<1>1. /\ b \in Buffer /\ input' \in Seq(Buffer) /\ bFlush' = FALSE /\ bStartEoS' = b.eos
      /\ Pushed(b) \in Table /\ Idr \in BOOLEAN /\ b.eos \in BOOLEAN
  BY <1>t, TakeFacts DEF Buffer
<1>2. Append(Header, b) \in Seq(Buffer)
  BY <1>1, HeaderType, AppendRange
<1>3. /\ Within' = Within /\ outTimeStamp' = Pushed(b) /\ lost' = TRUE
      /\ isOutIdr' = Idr /\ seen' = GivenUp(Taken(b), PicturesOf(b))
      /\ UNCHANGED <<codec, bInitialized, driverKeeps, bits, pictures, session, pExtraData>>
  BY DEF DropBeforeSequence, InitializeFails, DropChanged, control, vpu, Within
<1>4. seen' \in SeenType
  <2>1. Taken(b) \in SeenType /\ PicturesOf(b) \in SUBSET Pic
    BY <1>1, TakenFacts, BufferFacts DEF Types
  <2> QED
    BY <1>3, <2>1, GivenUpFacts
<1>5. codecSpecificData' \in Seq(Buffer) /\ bNeedSequenceData' \in BOOLEAN
  <2>1. CASE DropBeforeSequence(b)
    BY <1>2, <2>1 DEF DropBeforeSequence, Types, TypeOK
  <2>2. CASE InitializeFails(b)
    BY <2>2 DEF InitializeFails, Types, TypeOK
  <2>3. CASE DropChanged(b)
    BY <2>3 DEF DropChanged, Types, TypeOK, control
  <2> QED
    BY <2>1, <2>2, <2>3
<1>6. ended' \in BOOLEAN
  <2>1. codec \in {"AVC", "MP2", "MP4", "DIV3", "VC1", "RV", "VP8"}
    BY VidFramesAssumption DEF Types, TypeOK
  <2>2. DecodeFrame.endsThread \in BOOLEAN
    BY <2>1 DEF DecodeFrame, NX_DecodeAvcFrame, NX_DecodeMpeg2Frame, NX_DecodeMpeg4Frame,
                NX_DecodeDiv3Frame, NX_DecodeVC1Frame, NX_DecodeRVFrame, NX_DecodeVP8Frame
  <2> QED
    BY <2>2 DEF DropBeforeSequence, InitializeFails, DropChanged, Types, TypeOK
<1>7. outTimeStamp' \in Table
  BY <1>1, <1>3
<1> QED
  BY <1>t, <1>1, <1>3, <1>4, <1>5, <1>6, <1>7, TableType DEF Types, TypeOK, Drops

\* The call that initialises the VPU, with a frame it is not asked to decode,
\* or with none.
Starts(b) ==
  /\ ~ bInitialized /\ bInitialized' = TRUE /\ lost' = (Lost \/ Parted(b) \/ LosesFirst(b))
  /\ isOutIdr' = Idr /\ outTimeStamp' = Pushed(b)
  /\ \/ /\ LosesFirst(b) /\ Within' = {} /\ seen' = GivenUp(Taken(b), PicturesOf(b))
     \/ /\ ~ LosesFirst(b) /\ Within' = PicturesOf(b)
        /\ seen' = [Taken(b) EXCEPT !.keySince = b.key]
  /\ codec' = codec

\* A call that decodes the frame it was called with, or one before it.
Decodes(b) ==
  /\ bInitialized' = TRUE /\ lost' = (Lost \/ Parted(b)) /\ codec' = codec
  /\ \/ Stays(Within \cup PicturesOf(b), Pushed(b), Taken(b))
     \/ \E p \in Pic : /\ Leaves(p, Within \cup PicturesOf(b), Pushed(b), Taken(b), StampOf(b))
                      /\ Precedes(p)
  /\ seen'.taken = Taken(b).taken /\ seen'.eosSent = seen.eosSent
  /\ seen.keySince => seen'.keySince
  /\ codec \in {"DIV3", "VC1"} =>
       /\ isOutIdr' => Idr \/ seen'.keySince
       /\ seen'.shown # seen.shown => Idr \/ seen'.keySince

LEMMA InitializeStep ==
  ASSUME Types, Empties, NEW b, InitializeCodaVpu(b)
  PROVE  Types' /\ (Starts(b) \/ Decodes(b)) /\ Take(b) /\ b.data /\ ~ WaitsForSequence
<1>t. Take(b) /\ b.data /\ ~ bInitialized /\ ~ WaitsForSequence
  BY DEF InitializeCodaVpu, First
<1>1. /\ b \in Buffer /\ input' \in Seq(Buffer) /\ bFlush' = FALSE /\ bStartEoS' = b.eos
      /\ Pushed(b) \in Table /\ Idr \in BOOLEAN /\ b.eos \in BOOLEAN /\ b.config \in BOOLEAN
      /\ b.key \in BOOLEAN /\ Lost \in BOOLEAN /\ Parted(b) \in BOOLEAN
  BY <1>t, TakeFacts DEF Buffer
<1>2. Append(Header, b) \in Seq(Buffer)
  BY <1>1, HeaderType, AppendRange
<1>3. Within = {} /\ pictures = {}
  BY <1>t DEF Empties, Within
<1>4. bInitialized' = TRUE /\ UNCHANGED <<codec, bNeedSequenceData, pExtraData, ended, driverKeeps>>
  BY DEF InitializeCodaVpu
<1>5. codecSpecificData' \in Seq(Buffer)
  BY DEF InitializeCodaVpu, Types, TypeOK
<1>6. session' \in SessionType
  <2>1. session \in SessionType /\ session.config \in Seq(Buffer)
    BY DEF Types, SessionType
  <2>2. Append(session.config, b) \in Seq(Buffer)
    BY <1>1, <2>1, AppendRange
  <2>3. session' = [session EXCEPT !.initData = Append(Header, b),
                                   !.config = IF b.config THEN Append(@, b) ELSE @]
    BY DEF InitializeCodaVpu
  <2> QED
    BY <1>2, <2>1, <2>2, <2>3 DEF SessionType
<1>7. lost' = (Lost \/ Parted(b) \/ LosesFirst(b)) /\ lost' \in BOOLEAN
  <2>1. LosesFirst(b) \in BOOLEAN
    BY DEF LosesFirst
  <2>2. lost' = (Lost \/ Parted(b) \/ LosesFirst(b))
    BY DEF InitializeCodaVpu
  <2> QED
    BY <1>1, <2>1, <2>2
<1>8. /\ FramesIn(b) \in Seq(Pic) /\ Range(FramesIn(b)) = PicturesOf(b)
      /\ PicturesOf(b) \in SUBSET Pic /\ IsFiniteSet(PicturesOf(b))
      /\ <<>> \in Seq(Pic) /\ Range(<<>>) = {} /\ IsFiniteSet({})
  BY <1>1, BufferFacts, FS_EmptySet DEF Range
<1>9. /\ Taken(b) \in SeenType /\ Taken(b).shown = seen.shown
      /\ Taken(b).keySince = seen.keySince /\ Taken(b).eosSent = seen.eosSent
  BY <1>1, TakenFacts DEF Types
<1>10. session'.number \in 1..MaxSession /\ session'.flushes \in 0..MaxFlush
  BY <1>6 DEF SessionType
<1>11. CASE DecodeFrame.decodesFirst /\ ~ b.config
  <2>1. Decode(b, FramesIn(b), Pushed(b), Taken(b))
    BY <1>11 DEF InitializeCodaVpu
  <2>2. lost' = (Lost \/ Parted(b))
    BY <1>1, <1>7, <1>11 DEF LosesFirst
  <2>3. /\ bits' \in Seq(Pic) /\ pictures' \subseteq Pic /\ IsFiniteSet(pictures')
        /\ isOutIdr' \in BOOLEAN /\ outTimeStamp' \in Table /\ seen' \in SeenType
        /\ seen'.taken = Taken(b).taken /\ seen'.eosSent = Taken(b).eosSent
        /\ \/ Stays(pictures \cup Range(FramesIn(b)), Pushed(b), Taken(b))
           \/ \E p \in Pic : /\ Leaves(p, pictures \cup Range(FramesIn(b)), Pushed(b), Taken(b), StampOf(b))
                            /\ Precedes(p)
        /\ Taken(b).keySince => seen'.keySince
        /\ codec \in {"DIV3", "VC1"} =>
             /\ isOutIdr' => Idr \/ seen'.keySince
             /\ seen'.shown # Taken(b).shown => Idr \/ seen'.keySince
    BY <1>1, <1>7, <1>8, <1>9, <2>1, DecodeFacts
  <2>4. pictures \cup Range(FramesIn(b)) = Within \cup PicturesOf(b)
    BY <1>3, <1>8
  <2>5. Decodes(b)
    BY <1>4, <1>9, <2>2, <2>3, <2>4 DEF Decodes
  <2>6. Types'
    BY <1>1, <1>4, <1>5, <1>6, <1>7, <1>10, <2>3, TableType DEF Types, TypeOK, Pic
  <2> QED
    BY <1>t, <2>5, <2>6
<1>12. CASE ~ (DecodeFrame.decodesFirst /\ ~ b.config)
  <2>1. /\ isOutIdr' = Idr /\ outTimeStamp' = Pushed(b)
        /\ pictures' = IF driverKeeps = "decoded" THEN PicturesOf(b) ELSE {}
        /\ bits' = IF driverKeeps = "waiting" THEN FramesIn(b) ELSE <<>>
        /\ seen' = IF LosesFirst(b) THEN GivenUp(Taken(b), PicturesOf(b))
                   ELSE [Taken(b) EXCEPT !.keySince = b.key]
    BY <1>12 DEF InitializeCodaVpu
  <2>2. driverKeeps \in {"nothing", "decoded", "waiting"}
    BY DEF Types, TypeOK
  <2>3. /\ bits' \in Seq(Pic) /\ pictures' \subseteq Pic /\ IsFiniteSet(pictures')
        /\ Within' = IF driverKeeps = "nothing" THEN {} ELSE PicturesOf(b)
    BY <1>8, <2>1, <2>2 DEF Within
  <2>4. b.config => PicturesOf(b) = {}
    BY DEF PicturesOf
  <2>5. ~ LosesFirst(b) => Within' = PicturesOf(b)
    BY <1>1, <1>12, <2>3, <2>4 DEF LosesFirst
  <2>6. LosesFirst(b) => Within' = {}
    BY <2>3 DEF LosesFirst
  <2>7. seen' \in SeenType
    BY <1>1, <1>8, <1>9, <2>1, GivenUpFacts, KeySet
  <2>8. Starts(b)
    BY <1>t, <1>4, <1>7, <2>1, <2>5, <2>6 DEF Starts
  <2>9. outTimeStamp' \in Table
    BY <1>1, <2>1
  <2>10. isOutIdr' \in BOOLEAN
    BY <1>1, <2>1
  <2>11. Types'
    BY <1>1, <1>4, <1>5, <1>6, <1>7, <1>10, <2>3, <2>7, <2>9, <2>10, TableType DEF Types, TypeOK, Pic
  <2> QED
    BY <1>t, <2>8, <2>11
<1> QED
  BY <1>11, <1>12

LEMMA DecodeStep ==
  ASSUME Types, NEW b, DecodeNext(b)
  PROVE  Types' /\ Decodes(b) /\ Take(b) /\ b.data /\ bInitialized
<1>t. Take(b) /\ b.data /\ bInitialized
  BY DEF DecodeNext
<1>1. /\ b \in Buffer /\ input' \in Seq(Buffer) /\ bFlush' = FALSE /\ bStartEoS' = b.eos
      /\ Pushed(b) \in Table /\ Idr \in BOOLEAN /\ b.eos \in BOOLEAN
      /\ Lost \in BOOLEAN /\ Parted(b) \in BOOLEAN
  BY <1>t, TakeFacts DEF Buffer
<1>2. /\ UNCHANGED <<codec, bInitialized, bNeedSequenceData, codecSpecificData, pExtraData>>
      /\ UNCHANGED <<ended, driverKeeps, session>>
  BY DEF DecodeNext, control
<1>3. lost' = (Lost \/ Parted(b)) /\ lost' \in BOOLEAN
  BY <1>1 DEF DecodeNext
<1>4. /\ FramesIn(b) \in Seq(Pic) /\ Range(FramesIn(b)) = PicturesOf(b) /\ bits \in Seq(Pic)
  BY <1>1, BufferFacts DEF Types, TypeOK, Pic
<1>5. bits \o FramesIn(b) \in Seq(Pic) /\ Range(bits \o FramesIn(b)) = Range(bits) \cup PicturesOf(b)
  BY <1>4, ConcatRange
<1>6. /\ Taken(b) \in SeenType /\ Taken(b).shown = seen.shown
      /\ Taken(b).keySince = seen.keySince /\ Taken(b).eosSent = seen.eosSent
  BY <1>1, TakenFacts DEF Types
<1> DEFINE fs == bits \o FramesIn(b)
<1>7. fs \in Seq(Pic) /\ pictures \cup Range(fs) = Within \cup PicturesOf(b)
  BY <1>5 DEF Within
<1>8. Decode(b, fs, Pushed(b), Taken(b))
  BY DEF DecodeNext
<1> HIDE DEF fs
<1>9. /\ bits' \in Seq(Pic) /\ pictures' \subseteq Pic /\ IsFiniteSet(pictures')
      /\ isOutIdr' \in BOOLEAN /\ outTimeStamp' \in Table /\ seen' \in SeenType
      /\ seen'.taken = Taken(b).taken /\ seen'.eosSent = Taken(b).eosSent
      /\ \/ Stays(pictures \cup Range(fs), Pushed(b), Taken(b))
         \/ \E p \in Pic : /\ Leaves(p, pictures \cup Range(fs), Pushed(b), Taken(b), StampOf(b))
                          /\ Precedes(p)
      /\ Taken(b).keySince => seen'.keySince
      /\ codec \in {"DIV3", "VC1"} =>
           /\ isOutIdr' => Idr \/ seen'.keySince
           /\ seen'.shown # Taken(b).shown => Idr \/ seen'.keySince
  BY <1>1, <1>3, <1>6, <1>7, <1>8, DecodeFacts
<1>10. Decodes(b)
  BY <1>t, <1>2, <1>3, <1>6, <1>7, <1>9 DEF Decodes
<1>11. Types'
  BY <1>1, <1>2, <1>3, <1>9, TableType DEF Types, TypeOK, Pic
<1> QED
  BY <1>t, <1>10, <1>11

\* processEOS hands out a picture, or clears one and leaves its stamp.
Drains ==
  /\ bStartEoS /\ bInitialized
  /\ UNCHANGED <<codec, bInitialized, bFlush, bStartEoS, isOutIdr, input>>
  /\ \/ lost' = lost /\ \E p \in Pic : Leaves(p, Within, outTimeStamp, seen, NoStamp)
     \/ /\ lost' /\ UNCHANGED outTimeStamp
        /\ \E p \in Within : /\ Within' = Within \ {p} /\ seen'.shown = seen.shown
                             /\ seen'.givenUp = seen.givenUp \cup {p.pts}
  /\ seen'.taken = seen.taken /\ seen'.eosSent = seen.eosSent /\ seen'.keySince = seen.keySince

LEMMA DrainStep ==
  ASSUME Types, DrainPicture
  PROVE  Types' /\ Drains
<1> DEFINE dpb == pictures \cup Range(bits)
<1>1. PICK p \in Due(dpb, {}), room \in BOOLEAN :
        /\ pictures' = dpb \ {p} /\ bits' = <<>>
        /\ IF room
           THEN /\ outTimeStamp' = PopVideoTimeStamp(outTimeStamp)
                /\ seen' = [seen EXCEPT !.shown =
                              Append(@, Shown(p, outTimeStamp, NoStamp, ~ lost))]
           ELSE seen' = GivenUp(seen, {p}) /\ UNCHANGED outTimeStamp
        /\ lost' = (lost \/ ~ room)
  BY DEF DrainPicture
<1>2. /\ bits \in Seq(Pic) /\ pictures \subseteq Pic /\ seen \in SeenType /\ outTimeStamp \in Table
      /\ lost \in BOOLEAN /\ IsFiniteSet(pictures)
  BY DEF Types, TypeOK, Pic
<1>3. dpb \subseteq Pic /\ Range(bits) \subseteq Pic
  BY <1>2, RangeType
<1>4. p \in dpb /\ p \in Pic /\ \A q \in dpb \ {p} : p.pts < q.pts
  BY <1>1, <1>3 DEF Due
<1>5. Range(<<>>) = {} /\ <<>> \in Seq(Pic)
  BY DEF Range
<1>6. Within = dpb /\ Within' = dpb \ {p}
  BY <1>1, <1>5 DEF Within
<1>7. /\ bStartEoS /\ bInitialized
      /\ UNCHANGED <<codec, bInitialized, bNeedSequenceData, codecSpecificData, pExtraData>>
      /\ UNCHANGED <<isOutIdr, bFlush, bStartEoS, input, ended, driverKeeps, session>>
  BY DEF DrainPicture, control
<1>8. IsFiniteSet(pictures')
  <2>1. IsFiniteSet(Range(bits))
    <3>1. Len(bits) \in Nat /\ DOMAIN bits = 1 .. Len(bits)
      BY <1>2
    <3>2. IsFiniteSet(1 .. Len(bits))
      BY <3>1, FS_Interval
    <3>3. bits \in [1 .. Len(bits) -> Range(bits)]
      BY <1>2, <3>1 DEF Range
    <3>4. bits \in Surjection(1 .. Len(bits), Range(bits))
      BY <3>1, <3>3 DEF Surjection, Range
    <3> QED
      BY <3>2, <3>4, FS_Surjection
  <2>2. IsFiniteSet(dpb)
    BY <1>2, <2>1, FS_Union
  <2> HIDE DEF dpb
  <2> QED
    BY <1>1, <2>2, FS_RemoveElement
<1> HIDE DEF dpb
<1>9. /\ seen' \in SeenType /\ outTimeStamp' \in Table /\ Drains
  <2>1. CASE room
    <3> DEFINE x == Shown(p, outTimeStamp, NoStamp, ~ lost)
    <3>0. NoStamp \in [timestamp : Int, flag : {"frame", "eos"}] /\ (~ lost) \in BOOLEAN
      BY DEF NoStamp
    <3>1. x \in ShownType
      BY <1>2, <1>4, <3>0, ShownFacts
    <3>2. x = Shown(p, outTimeStamp, NoStamp, ~ lost') /\ lost' = lost
      BY <1>1, <1>2, <2>1
    <3> HIDE DEF x
    <3>3. seen' = [seen EXCEPT !.shown = Append(@, x)] /\ outTimeStamp' = PopVideoTimeStamp(outTimeStamp)
      BY <1>1, <2>1 DEF x
    <3>4. /\ seen' \in SeenType /\ seen'.shown = Append(seen.shown, x) /\ seen'.taken = seen.taken
          /\ seen'.givenUp = seen.givenUp /\ seen'.keySince = seen.keySince
          /\ seen'.eosSent = seen.eosSent
      BY <1>2, <3>1, <3>3, ShownAppended
    <3>5. outTimeStamp' \in Table
      BY <1>2, <3>3, Popped
    <3>6. Leaves(p, Within, outTimeStamp, seen, NoStamp)
      BY <1>4, <1>6, <3>2, <3>3, <3>4 DEF Leaves
    <3> QED
      BY <1>4, <1>7, <3>2, <3>4, <3>5, <3>6 DEF Drains
  <2>2. CASE ~ room
    <3>1. {p} \in SUBSET Pic /\ Pts({p}) = {p.pts}
      BY <1>4 DEF Pts
    <3>2. seen' = GivenUp(seen, {p}) /\ UNCHANGED outTimeStamp /\ lost'
      BY <1>1, <2>2
    <3>3. /\ seen' \in SeenType /\ seen'.shown = seen.shown /\ seen'.taken = seen.taken
          /\ seen'.givenUp = seen.givenUp \cup {p.pts} /\ seen'.eosSent = seen.eosSent
          /\ seen'.keySince = seen.keySince
      BY <1>2, <3>1, <3>2, GivenUpFacts
    <3> QED
      BY <1>2, <1>4, <1>6, <1>7, <3>2, <3>3 DEF Drains
  <2> QED
    BY <2>1, <2>2
<1>10. bits' \in Seq(Pic) /\ pictures' \subseteq Pic /\ lost' \in BOOLEAN
  BY <1>1, <1>2, <1>3, <1>5
<1> QED
  BY <1>7, <1>8, <1>9, <1>10, TableType DEF Types, TypeOK, Pic

\* What the client sends after a flush is the rest of one of its streams.
LEMMA RestType ==
  ASSUME NEW rest \in Rests
  PROVE  rest \in Seq(Buffer)
<1>1. PICK s \in Streams : rest \in Suffixes(s)
  BY DEF Rests
<1>2. s \in Seq(Buffer) /\ <<>> \in Seq(Buffer)
  BY VidFramesAssumption
<1>3. CASE rest = <<>>
  BY <1>2, <1>3
<1>4. CASE \E l \in 1 .. Len(s) : rest = SubSeq(s, l, Len(s))
  <2>1. PICK l \in 1 .. Len(s) : rest = SubSeq(s, l, Len(s))
    BY <1>4
  <2>2. Len(s) \in Nat /\ \A i \in 1 .. Len(s) : s[i] \in Buffer
    BY <1>2, ElementOfSeq
  <2>3. l \in Int /\ \A i \in l .. Len(s) : s[i] \in Buffer
    BY <2>1, <2>2
  <2> QED
    BY <1>2, <2>1, <2>2, <2>3, SubSeqProperties
<1> QED
  BY <1>1, <1>3, <1>4 DEF Suffixes

LEMMA BlankType == Blank \in SeenType
BY DEF Blank, SeenType

LEMMA InitTypes ==
  ASSUME Init
  PROVE  /\ Types /\ Within = {} /\ seen = Blank /\ ~ bInitialized /\ ~ isOutIdr /\ ~ bStartEoS
         /\ ~ bFlush /\ outTimeStamp = InitVideoTimeStamp /\ input \in Streams
<1> USE DEF Init
<1>1. bits \in Seq(Pic) /\ Range(bits) = {} /\ pictures = {} /\ IsFiniteSet(pictures)
  BY FS_EmptySet DEF Range
<1>2. outTimeStamp \in Table /\ outTimeStamp \in [Slots -> {Free} \cup Stamp]
  BY DEF InitVideoTimeStamp, Table
<1>3. session \in SessionType /\ session.number \in 1..MaxSession /\ session.flushes \in 0..MaxFlush
  BY VidFramesAssumption DEF NewSession, SessionType
<1>4. input \in Seq(Buffer) /\ codecSpecificData \in Seq(Buffer) /\ pExtraData \in Seq(Buffer)
  BY VidFramesAssumption
<1> QED
  BY <1>1, <1>2, <1>3, <1>4, BlankType DEF Types, TypeOK, Pic, Within

\* The codec is opened again.
Restarts ==
  /\ Within' = {} /\ seen' = Blank /\ outTimeStamp' = InitVideoTimeStamp /\ input' \in Streams
  /\ ~ bInitialized' /\ ~ isOutIdr' /\ ~ bStartEoS' /\ bFlush' = bFlush

LEMMA ReopenStep ==
  ASSUME Types, NEW c \in Codecs, NEW s \in Streams, Reopen(c, s)
  PROVE  Types' /\ Restarts
<1> USE DEF Reopen, OpenCodec, closeVideoCodec, Restarts
<1>1. bits' \in Seq(Pic) /\ Range(bits') = {} /\ pictures' = {} /\ IsFiniteSet(pictures')
  BY FS_EmptySet DEF Range
<1>2. outTimeStamp' = InitVideoTimeStamp /\ InitVideoTimeStamp \in Table
  BY DEF InitVideoTimeStamp, Table
<1>3. /\ session' \in SessionType /\ session'.number \in 1..MaxSession
      /\ session'.flushes \in 0..MaxFlush
  <2>1. session.number \in 1..MaxSession /\ session.number < MaxSession /\ MaxSession \in Nat
    BY VidFramesAssumption DEF Types, TypeOK
  <2>2. session.number + 1 \in 1..MaxSession
    BY <2>1
  <2>3. session' = NewSession(session.number + 1)
    OBVIOUS
  <2> QED
    BY <2>2, <2>3, VidFramesAssumption DEF NewSession, SessionType
<1>4. input' \in Seq(Buffer) /\ codecSpecificData' \in Seq(Buffer)
  BY VidFramesAssumption
<1>5. Within' = {}
  BY <1>1 DEF Within
<1> QED
  BY <1>1, <1>2, <1>3, <1>4, <1>5, BlankType, TableType DEF Types, TypeOK, Pic

\* A flush.
Flushes ==
  /\ Within' = {} /\ seen' = Blank /\ bInitialized /\ bFlush' /\ ~ bStartEoS'
  /\ input' \in Rests \cup {input}
  /\ UNCHANGED <<codec, bInitialized, isOutIdr, outTimeStamp, lost>>

LEMMA FlushStep ==
  ASSUME Types, NEW port, NEW rest \in Rests \cup {input}, Flush(port, rest)
  PROVE  Types' /\ Flushes
<1> USE DEF Flush, Flushes
<1>1. bits' \in Seq(Pic) /\ Range(bits') = {} /\ pictures' = {} /\ IsFiniteSet(pictures')
  BY FS_EmptySet DEF Range
<1>2. rest \in Seq(Buffer)
  BY RestType DEF Types, TypeOK
<1>3. /\ session' \in SessionType /\ session'.number \in 1..MaxSession
      /\ session'.flushes \in 0..MaxFlush
  <2>1. session \in SessionType /\ session.flushes \in 0..MaxFlush /\ session.flushes < MaxFlush
    BY DEF Types, TypeOK
  <2>2. session.flushes + 1 \in 0..MaxFlush
    BY <2>1, VidFramesAssumption
  <2>3. session' = [session EXCEPT !.flushes = @ + 1]
    OBVIOUS
  <2> QED
    BY <2>1, <2>2, <2>3 DEF SessionType
<1>4. Within' = {}
  BY <1>1 DEF Within
<1>5. UNCHANGED <<codec, bInitialized, bNeedSequenceData, codecSpecificData, pExtraData>>
  BY DEF control
<1> QED
  BY <1>1, <1>2, <1>3, <1>4, <1>5, BlankType DEF Types, TypeOK, Pic

\* The end of the stream.
Sends ==
  /\ Within = {} /\ Within' = {} /\ bInitialized /\ bStartEoS
  /\ seen' = [seen EXCEPT !.eosSent = TRUE]
  /\ UNCHANGED <<codec, bInitialized, isOutIdr, bFlush, bStartEoS, outTimeStamp, input, lost>>

LEMMA SendStep ==
  ASSUME Types, SendEos
  PROVE  Types' /\ Sends
<1> USE DEF SendEos, Sends
<1>1. Range(bits) = {} /\ Within = {} /\ Within' = Within
  BY DEF Range, Within, vpu
<1>2. seen' \in SeenType
  BY DEF Types, SeenType
<1>3. UNCHANGED <<codec, bInitialized, bNeedSequenceData, codecSpecificData, pExtraData>>
  BY DEF control
<1>4. UNCHANGED <<driverKeeps, bits, pictures>>
  BY DEF vpu
<1> QED
  BY <1>1, <1>2, <1>3, <1>4 DEF Types, TypeOK

\* What a round of the buffer thread does with its buffer.
Calls(b) ==
  /\ Take(b)
  /\ \/ Quiet(b) /\ (b.config \/ ~ b.data)
     \/ Drops(b) /\ b.data
     \/ (Starts(b) \/ Decodes(b)) /\ b.data /\ (bInitialized \/ ~ WaitsForSequence)

Steps == (\E b : Calls(b)) \/ Drains \/ Sends \/ Restarts \/ Flushes

LEMMA NextStep ==
  ASSUME Types, Empties, Next
  PROVE  Types' /\ Steps
<1>1. ASSUME NEW c \in Codecs, NEW s \in Streams, Reopen(c, s) PROVE Types' /\ Steps
  BY <1>1, ReopenStep DEF Steps
<1>2. ASSUME NEW b, TakeEos(b) \/ KeepConfig(b) PROVE Types' /\ Steps
  BY <1>2, QuietStep DEF Steps, Calls
<1>3. ASSUME NEW b, DropBeforeSequence(b) \/ InitializeFails(b) \/ DropChanged(b)
      PROVE  Types' /\ Steps
  BY <1>3, DropStep DEF Steps, Calls
<1>4. ASSUME NEW b, InitializeCodaVpu(b) PROVE Types' /\ Steps
  BY <1>4, InitializeStep DEF Steps, Calls
<1>5. ASSUME NEW b, DecodeNext(b) PROVE Types' /\ Steps
  BY <1>5, DecodeStep DEF Steps, Calls
<1>6. CASE DrainPicture
  BY <1>6, DrainStep DEF Steps
<1>7. CASE SendEos
  BY <1>7, SendStep DEF Steps
<1>8. CASE Flush("out", input)
  BY <1>8, FlushStep DEF Steps
<1>9. ASSUME NEW rest \in Rests, Flush("all", rest) PROVE Types' /\ Steps
  BY <1>9, FlushStep DEF Steps
<1> QED
  BY <1>1, <1>2, <1>3, <1>4, <1>5, <1>6, <1>7, <1>8, <1>9 DEF Next

LEMMA Stutter ==
  ASSUME UNCHANGED vars
  PROVE  /\ Types <=> Types'
         /\ Within' = Within
         /\ UNCHANGED <<codec, bInitialized, isOutIdr, bFlush, bStartEoS, outTimeStamp, input,
                        seen, lost>>
BY DEF vars, control, vpu, Types, TypeOK, Within

-----------------------------------------------------------------------------
(* The invariants                                                          *)

LEMMA EmptiesStep ==
  ASSUME Types, Empties, Steps, Types'
  PROVE  Empties'
<1>0. /\ seen \in SeenType /\ bInitialized \in BOOLEAN /\ Blank.shown = <<>> /\ Blank.eosSent = FALSE
      /\ seen.eosSent \in BOOLEAN
  BY DEF Types, TypeOK, SeenType, Blank
<1>1. ASSUME NEW b, Calls(b) PROVE Empties'
  <2>1. /\ b \in Buffer /\ bFlush' = FALSE /\ ~ bStartEoS /\ PicturesOf(b) \in SUBSET Pic
        /\ Taken(b) \in SeenType /\ Taken(b).shown = seen.shown /\ Taken(b).eosSent = seen.eosSent
    BY <1>1, TakeFacts, TakenFacts, BufferFacts DEF Calls, Types
  <2>2. ~ seen.eosSent
    BY <2>1 DEF Empties
  <2>3. CASE Quiet(b)
    BY <2>1, <2>2, <2>3 DEF Quiet, Empties, Idr
  <2>4. CASE Drops(b)
    <3>1. seen'.shown = seen.shown /\ seen'.eosSent = seen.eosSent
      BY <2>1, <2>4, GivenUpFacts DEF Drops
    <3> QED
      BY <2>1, <2>2, <2>4, <3>1 DEF Drops, Empties, Idr
  <2>5. CASE Starts(b)
    <3>1. seen'.eosSent = seen.eosSent
      <4>1. CASE LosesFirst(b)
        BY <2>1, <2>5, <4>1, GivenUpFacts DEF Starts
      <4>2. CASE ~ LosesFirst(b)
        <5>1. b.key \in BOOLEAN
          BY <2>1 DEF Buffer
        <5>2. seen' = [Taken(b) EXCEPT !.keySince = b.key]
          BY <2>5, <4>2 DEF Starts
        <5> QED
          BY <2>1, <5>1, <5>2, KeySet
      <4> QED
        BY <4>1, <4>2
    <3> QED
      BY <2>1, <2>2, <2>5, <3>1 DEF Starts, Empties
  <2>6. CASE Decodes(b)
    BY <2>1, <2>2, <2>6 DEF Decodes, Empties
  <2> QED
    BY <1>1, <2>3, <2>4, <2>5, <2>6 DEF Calls
<1>2. CASE Drains
  <2>1. Within # {}
    BY <1>2 DEF Drains, Leaves
  <2> QED
    BY <1>0, <1>2, <2>1 DEF Drains, Empties
<1>3. CASE Sends
  BY <1>0, <1>3 DEF Sends, Empties
<1>4. CASE Restarts
  BY <1>0, <1>4 DEF Restarts, Empties
<1>5. CASE Flushes
  BY <1>0, <1>5 DEF Flushes, Empties
<1> QED
  BY <1>1, <1>2, <1>3, <1>4, <1>5 DEF Steps

LEMMA InitEmpties == ASSUME Init PROVE Empties
BY InitTypes DEF Empties, Blank

\* TypeOK, for any codecs, streams, table and depth of the VPU.
THEOREM TypeCorrect == Spec => []TypeOK
<1>1. Init => Types /\ Empties
  BY InitTypes, InitEmpties
<1>2. Types /\ Empties /\ [Next]_vars => (Types /\ Empties)'
  <2>1. CASE Next
    BY <2>1, NextStep, EmptiesStep
  <2>2. CASE UNCHANGED vars
    BY <2>2, Stutter DEF Empties
  <2> QED
    BY <2>1, <2>2
<1>3. Types => TypeOK
  BY DEF Types
<1> QED
  BY <1>1, <1>2, <1>3, PTL DEF Spec

\* A picture that leaves was in the VPU, and is shown or given up afterwards.
LEMMA LeavesFacts ==
  ASSUME NEW p \in Pic, NEW all \in SUBSET Pic, NEW tab \in Table, NEW s \in SeenType,
         NEW other \in [timestamp : Int, flag : {"frame", "eos"}], lost' \in BOOLEAN,
         Leaves(p, all, tab, s, other)
  PROVE  Pts(Within') \cup Pts(Range(seen'.shown)) \cup seen'.givenUp
           = Pts(all) \cup Pts(Range(s.shown)) \cup s.givenUp
<1>1. p \in all /\ Within' = all \ {p}
  BY DEF Leaves
<1>2. Pts(all) = Pts(Within') \cup {p.pts}
  BY <1>1 DEF Pts
<1>3. CASE seen'.shown = s.shown /\ seen'.givenUp = s.givenUp \cup {p.pts}
  BY <1>2, <1>3
<1>4. CASE /\ seen'.shown = Append(s.shown, Shown(p, tab, other, ~ lost'))
           /\ seen'.givenUp = s.givenUp
  <2> DEFINE x == Shown(p, tab, other, ~ lost')
  <2>1. x \in ShownType /\ x.pts = p.pts
    BY ShownFacts
  <2>2. s.shown \in Seq(ShownType)
    BY DEF SeenType
  <2> HIDE DEF x
  <2>3. Range(seen'.shown) = Range(s.shown) \cup {x}
    BY <1>4, <2>1, <2>2, AppendRange DEF x
  <2>4. Pts(Range(seen'.shown)) = Pts(Range(s.shown)) \cup {p.pts}
    BY <2>1, <2>3 DEF Pts
  <2> QED
    BY <1>2, <1>4, <2>4
<1> QED
  BY <1>3, <1>4 DEF Leaves

LEMMA StampTypes ==
  /\ NoStamp \in [timestamp : Int, flag : {"frame", "eos"}]
  /\ \A b \in Buffer : StampOf(b) \in [timestamp : Int, flag : {"frame", "eos"}]
BY DEF NoStamp, StampOf, Buffer

LEMMA WithinType == ASSUME Types PROVE Within \subseteq Pic
<1>1. bits \in Seq(Pic) /\ pictures \subseteq Pic
  BY DEF Types, TypeOK, Pic
<1> QED
  BY <1>1, RangeType DEF Within

LEMMA AccountedStep ==
  ASSUME Types, Empties, Accounted, Steps, Types'
  PROVE  Accounted'
<1>0. /\ seen \in SeenType /\ Within \subseteq Pic /\ lost' \in BOOLEAN /\ outTimeStamp \in Table
      /\ Pts({}) = {}
  BY WithinType DEF Types, TypeOK, Pts
<1>u. \A S, T : Pts(S \cup T) = Pts(S) \cup Pts(T)
  BY DEF Pts
<1>1. ASSUME NEW b, Calls(b) PROVE Accounted'
  <2>1. /\ b \in Buffer /\ PicturesOf(b) \in SUBSET Pic
        /\ Taken(b) \in SeenType /\ Taken(b).shown = seen.shown /\ Taken(b).givenUp = seen.givenUp
        /\ Taken(b).taken = seen.taken \cup Pts(PicturesOf(b))
        /\ Pushed(b) \in Table
    BY <1>1, TakeFacts, TakenFacts, BufferFacts DEF Calls, Types
  <2>k. b.key \in BOOLEAN
    BY <2>1 DEF Buffer
  <2>2. /\ GivenUp(Taken(b), PicturesOf(b)).taken = seen.taken \cup Pts(PicturesOf(b))
        /\ GivenUp(Taken(b), PicturesOf(b)).givenUp = seen.givenUp \cup Pts(PicturesOf(b))
        /\ GivenUp(Taken(b), PicturesOf(b)).shown = seen.shown
    BY <2>1, GivenUpFacts
  <2>3. CASE Quiet(b)
    BY <2>3 DEF Quiet, Accounted
  <2>4. CASE Drops(b)
    <3>1. seen' = GivenUp(Taken(b), PicturesOf(b)) /\ Within' = Within
      BY <2>4 DEF Drops
    <3> QED
      BY <2>2, <3>1 DEF Accounted
  <2>5. CASE Starts(b)
    <3>1. Within = {}
      BY <2>5 DEF Starts, Empties
    <3>2. CASE LosesFirst(b)
      <4>1. seen' = GivenUp(Taken(b), PicturesOf(b)) /\ Within' = {}
        BY <2>5, <3>2 DEF Starts
      <4> QED
        BY <2>2, <3>1, <4>1 DEF Accounted
    <3>3. CASE ~ LosesFirst(b)
      <4>1. seen' = [Taken(b) EXCEPT !.keySince = b.key] /\ Within' = PicturesOf(b)
        BY <2>5, <3>3 DEF Starts
      <4>2. /\ seen'.taken = Taken(b).taken /\ seen'.shown = Taken(b).shown
            /\ seen'.givenUp = Taken(b).givenUp
        BY <2>1, <2>k, <4>1, KeySet
      <4> QED
        BY <1>0, <2>1, <3>1, <4>1, <4>2 DEF Accounted
    <3> QED
      BY <3>2, <3>3
  <2>6. CASE Decodes(b)
    <3> DEFINE all == Within \cup PicturesOf(b)
    <3>1. all \in SUBSET Pic /\ Pts(all) = Pts(Within) \cup Pts(PicturesOf(b))
      BY <1>0, <1>u, <2>1
    <3>2. seen'.taken = seen.taken \cup Pts(PicturesOf(b))
      BY <2>1, <2>6 DEF Decodes
    <3> HIDE DEF all
    <3>3. CASE Stays(all, Pushed(b), Taken(b))
      BY <2>1, <3>1, <3>2, <3>3 DEF Stays, Accounted
    <3>4. CASE \E p \in Pic : Leaves(p, all, Pushed(b), Taken(b), StampOf(b))
      <4>1. PICK p \in Pic : Leaves(p, all, Pushed(b), Taken(b), StampOf(b))
        BY <3>4
      <4>2. Pts(Within') \cup Pts(Range(seen'.shown)) \cup seen'.givenUp
              = Pts(all) \cup Pts(Range(Taken(b).shown)) \cup Taken(b).givenUp
        BY <1>0, <2>1, <3>1, <4>1, LeavesFacts, StampTypes
      <4> QED
        BY <2>1, <3>1, <3>2, <4>2 DEF Accounted
    <3> QED
      BY <2>6, <3>3, <3>4 DEF Decodes, all
  <2> QED
    BY <1>1, <2>3, <2>4, <2>5, <2>6 DEF Calls
<1>2. CASE Drains
  <2>1. seen'.taken = seen.taken
    BY <1>2 DEF Drains
  <2>2. ASSUME NEW p \in Pic, Leaves(p, Within, outTimeStamp, seen, NoStamp) PROVE Accounted'
    <3>1. Pts(Within') \cup Pts(Range(seen'.shown)) \cup seen'.givenUp
            = Pts(Within) \cup Pts(Range(seen.shown)) \cup seen.givenUp
      BY <1>0, <2>2, LeavesFacts, StampTypes
    <3> QED
      BY <2>1, <3>1 DEF Accounted
  <2>3. ASSUME NEW p \in Within, Within' = Within \ {p}, seen'.shown = seen.shown,
               seen'.givenUp = seen.givenUp \cup {p.pts}
        PROVE  Accounted'
    <3>1. Pts(Within) = Pts(Within') \cup {p.pts}
      BY <2>3 DEF Pts
    <3> QED
      BY <2>1, <2>3, <3>1 DEF Accounted
  <2> QED
    BY <1>2, <2>2, <2>3 DEF Drains
<1>3. CASE Sends
  <2>1. /\ seen'.taken = seen.taken /\ seen'.shown = seen.shown /\ seen'.givenUp = seen.givenUp
        /\ Within' = Within
    BY <1>0, <1>3 DEF Sends, SeenType
  <2> QED
    BY <2>1 DEF Accounted
<1>4. CASE Restarts \/ Flushes
  <2>1. seen' = Blank /\ Within' = {}
    BY <1>4 DEF Restarts, Flushes
  <2>2. Range(<<>>) = {}
    BY DEF Range
  <2> QED
    BY <1>0, <2>1, <2>2 DEF Accounted, Blank
<1> QED
  BY <1>1, <1>2, <1>3, <1>4 DEF Steps

\* The empty end of stream buffer goes out when every frame taken was shown or
\* given up: no frame is left in the VPU, whatever came before.
THEOREM EosComesLastAlways == Spec => []EosComesLast
<1>1. Init => Types /\ Empties /\ Accounted
  <2>1. Range(<<>>) = {} /\ Pts({}) = {}
    BY DEF Range, Pts
  <2> SUFFICES ASSUME Init PROVE Types /\ Empties /\ Accounted
    OBVIOUS
  <2>2. Types /\ Empties /\ Within = {} /\ seen = Blank
    BY InitTypes, InitEmpties
  <2>3. seen.taken = {} /\ seen.shown = <<>> /\ seen.givenUp = {}
    BY <2>2 DEF Blank
  <2> QED
    BY <2>1, <2>2, <2>3 DEF Accounted
<1>2. Types /\ Empties /\ Accounted /\ [Next]_vars => (Types /\ Empties /\ Accounted)'
  <2>1. CASE Next
    BY <2>1, NextStep, EmptiesStep, AccountedStep
  <2>2. CASE UNCHANGED vars
    BY <2>2, Stutter DEF Empties, Accounted
  <2> QED
    BY <2>1, <2>2
<1>3. Types /\ Empties /\ Accounted => EosComesLast
  <2> SUFFICES ASSUME Types, Empties, Accounted, seen.eosSent
               PROVE  seen.taken = {seen.shown[i].pts : i \in DOMAIN seen.shown} \cup seen.givenUp
    BY DEF EosComesLast
  <2>1. Within = {} /\ Pts({}) = {}
    BY DEF Empties, Pts
  <2>2. Pts(Range(seen.shown)) = {seen.shown[i].pts : i \in DOMAIN seen.shown}
    BY DEF Pts, Range
  <2> QED
    BY <2>1, <2>2 DEF Accounted
<1> QED
  BY <1>1, <1>2, <1>3, PTL DEF Spec

LEMMA KeyNotedStep ==
  ASSUME Types, Empties, KeyNoted, Steps, Types'
  PROVE  KeyNoted'
<1>0. /\ seen \in SeenType /\ Blank.shown = <<>> /\ isOutIdr \in BOOLEAN /\ bFlush \in BOOLEAN
      /\ isOutIdr' \in BOOLEAN /\ seen' \in SeenType
  BY DEF Types, TypeOK, Blank
<1>1. ASSUME NEW b, Calls(b) PROVE KeyNoted'
  <2>1. /\ b \in Buffer /\ bFlush' = FALSE /\ ~ bStartEoS /\ PicturesOf(b) \in SUBSET Pic
        /\ Taken(b) \in SeenType /\ Taken(b).shown = seen.shown /\ Taken(b).keySince = seen.keySince
    BY <1>1, TakeFacts, TakenFacts, BufferFacts DEF Calls, Types
  <2>k. b.key \in BOOLEAN
    BY <2>1 DEF Buffer
  <2>2. CASE Quiet(b)
    BY <2>1, <2>2 DEF Quiet, KeyNoted, Idr
  <2>3. CASE Drops(b)
    <3>1. seen'.shown = seen.shown /\ seen'.keySince = seen.keySince
      BY <2>1, <2>3, GivenUpFacts DEF Drops
    <3> QED
      BY <2>1, <2>3, <3>1 DEF Drops, KeyNoted, Idr
  <2>4. CASE Starts(b)
    <3>1. seen.shown = <<>> /\ ~ isOutIdr' /\ bFlush' = FALSE
      BY <2>1, <2>4 DEF Starts, Empties, Idr
    <3>2. seen'.shown = seen.shown
      <4>1. CASE LosesFirst(b)
        BY <2>1, <2>4, <4>1, GivenUpFacts DEF Starts
      <4>2. CASE ~ LosesFirst(b)
        <5>1. seen' = [Taken(b) EXCEPT !.keySince = b.key]
          BY <2>4, <4>2 DEF Starts
        <5> QED
          BY <2>1, <2>k, <5>1, KeySet
      <4> QED
        BY <4>1, <4>2
    <3> QED
      BY <3>1, <3>2 DEF KeyNoted
  <2>5. CASE Decodes(b)
    BY <1>0, <2>1, <2>5 DEF Decodes, KeyNoted, Idr
  <2> QED
    BY <1>1, <2>2, <2>3, <2>4, <2>5 DEF Calls
<1>2. CASE Drains
  BY <1>0, <1>2 DEF Drains, KeyNoted
<1>3. CASE Sends
  <2>1. seen'.keySince = seen.keySince /\ seen'.shown = seen.shown
    BY <1>0, <1>3 DEF Sends, SeenType
  <2> QED
    BY <1>3, <2>1 DEF Sends, KeyNoted
<1>4. CASE Restarts
  BY <1>0, <1>4 DEF Restarts, KeyNoted
<1>5. CASE Flushes
  BY <1>0, <1>5 DEF Flushes, KeyNoted
<1> QED
  BY <1>1, <1>2, <1>3, <1>4, <1>5 DEF Steps

\* The decoders of DivX 3 and VC-1 show nothing before an I picture was decoded
\* since the flush or the start: isOutIdr is only set then, and a flush resets it.
THEOREM NoPictureBeforeKeyAlways == Spec => []NoPictureBeforeKey
<1>1. Init => Types /\ Empties /\ KeyNoted
  BY InitTypes, InitEmpties DEF KeyNoted, Blank
<1>2. Types /\ Empties /\ KeyNoted /\ [Next]_vars => (Types /\ Empties /\ KeyNoted)'
  <2>1. CASE Next
    BY <2>1, NextStep, EmptiesStep, KeyNotedStep
  <2>2. CASE UNCHANGED vars
    BY <2>2, Stutter DEF Empties, KeyNoted
  <2> QED
    BY <2>1, <2>2
<1>3. KeyNoted => NoPictureBeforeKey
  BY DEF KeyNoted, NoPictureBeforeKey
<1> QED
  BY <1>1, <1>2, <1>3, PTL DEF Spec

-----------------------------------------------------------------------------
(* Stamps and pictures                                                     *)

\* What the streams have to satisfy, for a picture to be told by its stamp.
DistinctStamps == \A s \in Streams : OwnStamps(s)

LEMMA TailOwn ==
  ASSUME NEW s \in Seq(Buffer), s # <<>>, OwnStamps(s)
  PROVE  /\ OwnStamps(Tail(s)) /\ 1 \in DOMAIN s
         /\ \A i \in DOMAIN Tail(s) :
              /\ \E j \in DOMAIN s : Tail(s)[i] = s[j]
              /\ IsFrame(Tail(s)[i]) /\ IsFrame(s[1]) => Tail(s)[i].pts # s[1].pts
<1> DEFINE t == Tail(s)
<1>3. /\ 1 \in DOMAIN s
      /\ \A i \in DOMAIN t : i + 1 \in DOMAIN s /\ t[i] = s[i + 1] /\ i + 1 # 1
      /\ \A i, j \in DOMAIN t : i + 1 = j + 1 => i = j
  BY TailShift
<1> HIDE DEF t
<1>5. OwnStamps(t)
  BY <1>3 DEF OwnStamps
<1>6. ASSUME NEW i \in DOMAIN t, IsFrame(t[i]), IsFrame(s[1]) PROVE t[i].pts # s[1].pts
  BY <1>3, <1>6 DEF OwnStamps
<1> QED
  BY <1>3, <1>5, <1>6 DEF t

LEMMA RestOwn ==
  ASSUME DistinctStamps, NEW rest \in Rests
  PROVE  OwnStamps(rest)
<1>1. PICK s \in Streams, l \in Nat :
        /\ \A i \in DOMAIN rest : /\ i \in Nat /\ l + i - 1 \in DOMAIN s /\ rest[i] = s[l + i - 1]
                                  /\ l + i - 1 = 1 => i = 1
        /\ \A i, j \in DOMAIN rest : l + i - 1 = l + j - 1 => i = j
  BY RestShift
<1>2. OwnStamps(s)
  BY DEF DistinctStamps
<1>3. ASSUME NEW i \in DOMAIN rest, NEW j \in DOMAIN rest, IsFrame(rest[i]), IsFrame(rest[j]),
             rest[i].pts = rest[j].pts
      PROVE  i = j
  <2>1. l + i - 1 = l + j - 1
    BY <1>1, <1>2, <1>3 DEF OwnStamps
  <2> QED
    BY <1>1, <2>1
<1> QED
  BY <1>3 DEF OwnStamps

\* A frame more, and a picture less.
LEMMA ApartStep ==
  ASSUME DistinctStamps, Types, Empties, Apart, Steps, Types'
  PROVE  Apart'
<1>0. Pts({}) = {}
  BY DEF Pts
<1>1. ASSUME NEW b, Calls(b) PROVE Apart'
  <2>1. /\ b \in Buffer /\ input \in Seq(Buffer) /\ input # <<>> /\ b = input[1] /\ input' = Tail(input)
        /\ Taken(b) \in SeenType
    BY <1>1, TakeFacts, TakenFacts DEF Calls, Types
  <2>2. /\ OwnStamps(input') /\ 1 \in DOMAIN input
        /\ \A i \in DOMAIN input' :
             /\ \E j \in DOMAIN input : input'[i] = input[j]
             /\ IsFrame(input'[i]) /\ IsFrame(b) => input'[i].pts # b.pts
    BY <2>1, TailOwn DEF Apart
  <2>3. Pts(Within') \subseteq Pts(Within) \cup (IF IsFrame(b) THEN {b.pts} ELSE {})
    <3>1. Pts(PicturesOf(b)) = IF b.config THEN {} ELSE {b.pts}
      BY <2>1, BufferFacts
    <3>2. CASE Quiet(b) \/ Drops(b)
      BY <3>2 DEF Quiet, Drops
    <3>3. CASE Starts(b) /\ b.data
      <4>1. Within' = {} \/ Within' = PicturesOf(b)
        BY <3>3 DEF Starts
      <4> QED
        BY <1>0, <3>1, <3>3, <4>1 DEF IsFrame
    <3>4. CASE Decodes(b) /\ b.data
      <4>1. Within' \subseteq Within \cup PicturesOf(b)
        BY <3>4 DEF Decodes, Stays, Leaves
      <4>2. Pts(Within') \subseteq Pts(Within) \cup Pts(PicturesOf(b))
        BY <4>1 DEF Pts
      <4> QED
        BY <3>1, <3>4, <4>2 DEF IsFrame
    <3> QED
      BY <1>1, <3>2, <3>3, <3>4 DEF Calls
  <2>4. ASSUME NEW i \in DOMAIN input', IsFrame(input'[i]) PROVE input'[i].pts \notin Pts(Within')
    <3>1. PICK j \in DOMAIN input : input'[i] = input[j]
      BY <2>2
    <3>2. input'[i].pts \notin Pts(Within)
      BY <2>4, <3>1 DEF Apart
    <3> QED
      BY <2>2, <2>3, <2>4, <3>2
  <2> QED
    BY <2>2, <2>4 DEF Apart
<1>2. CASE Drains
  <2>1. input' = input /\ Within' \subseteq Within
    BY <1>2 DEF Drains, Leaves
  <2> QED
    BY <2>1 DEF Apart, Pts
<1>3. CASE Sends
  BY <1>3 DEF Sends, Apart
<1>4. CASE Restarts
  BY <1>0, <1>4 DEF Restarts, Apart, DistinctStamps
<1>5. CASE Flushes
  BY <1>0, <1>5, RestOwn DEF Flushes, Apart
<1> QED
  BY <1>1, <1>2, <1>3, <1>4, <1>5 DEF Steps

\* What was shown so far has the stamps of its pictures.
StampsRight(shown) == \A i \in DOMAIN shown : shown[i].sure => shown[i].stamp = shown[i].pts

LEMMA AppendRight ==
  ASSUME NEW s \in Seq(ShownType), NEW x \in ShownType, StampsRight(s), x.sure => x.stamp = x.pts
  PROVE  StampsRight(Append(s, x))
<1>1. /\ Append(s, x) \in Seq(ShownType) /\ Len(Append(s, x)) = Len(s) + 1
      /\ \A i \in 1 .. Len(s) : Append(s, x)[i] = s[i] /\ Append(s, x)[Len(s) + 1] = x
      /\ Len(s) \in Nat /\ DOMAIN s = 1 .. Len(s)
  BY AppendProperties
<1> DEFINE t == Append(s, x)
           n == Len(s)
<1>2. DOMAIN t = 1 .. n + 1 /\ t[n + 1] = x /\ \A i \in 1 .. n : t[i] = s[i]
  BY <1>1, AppendProperties
<1>3. n \in Nat /\ DOMAIN s = 1 .. n
  BY <1>1
<1> HIDE DEF t, n
<1>4. StampsRight(t)
  BY <1>2, <1>3 DEF StampsRight
<1> QED
  BY <1>4 DEF t

Matched(tab, S) == StampSet(tab) = Pts(S) /\ NoneTwice(tab)

\* The stamp of a frame goes in together with its picture.
LEMMA PushMatched ==
  ASSUME NEW tab \in Table, NEW b \in Buffer, NEW S, Matched(tab, S),
         Used(tab) # Slots, b.pts \notin Pts(S), NEW T, Pts(T) = Pts(S) \cup {b.pts}
  PROVE  Matched(PushVideoTimeStamp(tab, b), T)
<1> DEFINE new == PushVideoTimeStamp(tab, b)
<1>1. PICK i \in Slots \ Used(tab) :
        /\ Used(new) = Used(tab) \cup {i} /\ new[i].timestamp = b.pts
        /\ \A j \in Used(tab) : new[j] = tab[j]
  BY PushedStamp
<1> HIDE DEF new
<1>2. \A j \in Used(tab) : tab[j].timestamp # b.pts
  BY DEF Matched, StampSet
<1>3. StampSet(new) = StampSet(tab) \cup {b.pts}
  BY <1>1 DEF StampSet
<1>4. NoneTwice(new)
  BY <1>1, <1>2 DEF NoneTwice, Matched
<1> QED
  BY <1>3, <1>4 DEF Matched, new

\* The first of all leaves with its own stamp.
LEMMA PopMatched ==
  ASSUME NEW tab \in Table, NEW all \in SUBSET Pic, Matched(tab, all), NEW p \in all,
         \A q \in all \ {p} : p.pts < q.pts
  PROVE  /\ Used(tab) # {} /\ tab[PopIndex(tab)].timestamp = p.pts
         /\ Matched(PopVideoTimeStamp(tab), all \ {p})
<1>1. p.pts \in StampSet(tab)
  BY DEF Matched, Pts
<1>2. PICK k \in Used(tab) : tab[k].timestamp = p.pts
  BY <1>1 DEF StampSet
<1> DEFINE i == PopIndex(tab)
<1>3. Used(tab) # {} /\ i \in Used(tab) /\ tab[i].timestamp <= tab[k].timestamp
  BY <1>2, SmallestStamp
<1> HIDE DEF i
<1>4. tab[i].timestamp \in Pts(all)
  BY <1>3 DEF Matched, StampSet
<1>5. PICK q \in all : q.pts = tab[i].timestamp
  BY <1>4 DEF Pts
<1>6. tab[i].timestamp = p.pts
  <2>1. p.pts \in Nat /\ q.pts \in Nat
    BY DEF Pic
  <2>2. CASE q = p
    BY <1>5, <2>2
  <2>3. CASE q # p
    <3>1. p.pts < q.pts /\ q.pts <= p.pts
      BY <1>2, <1>3, <1>5, <2>3
    <3> QED
      BY <2>1, <3>1
  <2> QED
    BY <2>2, <2>3
<1> DEFINE new == PopVideoTimeStamp(tab)
<1>7. /\ Used(new) = Used(tab) \ {i} /\ \A j \in Used(tab) \ {i} : new[j] = tab[j]
  BY <1>3, Popped DEF i
<1> HIDE DEF new
<1>8. \A j \in Used(tab) \ {i} : tab[j].timestamp # p.pts
  BY <1>3, <1>6 DEF Matched, NoneTwice
<1>9. StampSet(new) = StampSet(tab) \ {p.pts}
  BY <1>3, <1>6, <1>7, <1>8 DEF StampSet
<1>10. Pts(all \ {p}) = Pts(all) \ {p.pts}
  <2>1. ASSUME NEW r \in all \ {p} PROVE r.pts # p.pts
    <3>1. p.pts \in Nat /\ r.pts \in Nat /\ p.pts < r.pts
      BY DEF Pic
    <3> QED
      BY <3>1
  <2> QED
    BY <2>1 DEF Pts
<1>11. NoneTwice(new)
  BY <1>7 DEF Matched, NoneTwice
<1> QED
  BY <1>3, <1>6, <1>9, <1>10, <1>11 DEF Matched, i, new

\* A picture of matched ones leaves: what stays is matched, and what is shown
\* has its stamp.
LEMMA LeavesRight ==
  ASSUME NEW p \in Pic, NEW all \in SUBSET Pic, NEW tab \in Table, NEW s \in SeenType,
         NEW other \in [timestamp : Int, flag : {"frame", "eos"}], lost' \in BOOLEAN,
         Leaves(p, all, tab, s, other), ~ lost' => Matched(tab, all), StampsRight(s.shown)
  PROVE  /\ ~ lost' => Matched(outTimeStamp', Within')
         /\ StampsRight(seen'.shown)
<1>1. /\ p \in all /\ \A q \in all \ {p} : p.pts < q.pts
      /\ Within' = all \ {p} /\ outTimeStamp' = PopVideoTimeStamp(tab)
  BY DEF Leaves
<1>2. ~ lost' => /\ Used(tab) # {} /\ tab[PopIndex(tab)].timestamp = p.pts
                 /\ Matched(outTimeStamp', Within')
  BY <1>1, PopMatched
<1>3. CASE seen'.shown = s.shown
  BY <1>2, <1>3
<1>4. CASE seen'.shown = Append(s.shown, Shown(p, tab, other, ~ lost'))
  <2> DEFINE sure == ~ lost'
             x == Shown(p, tab, other, sure)
  <2>0. sure \in BOOLEAN
    OBVIOUS
  <2>s. sure => ~ lost'
    OBVIOUS
  <2>x. seen'.shown = Append(s.shown, x)
    BY <1>4
  <2> HIDE DEF sure
  <2>1. /\ x \in ShownType /\ x.pts = p.pts /\ x.sure = sure
        /\ Used(tab) # {} => x.stamp = tab[PopIndex(tab)].timestamp
    BY <2>0, ShownFacts
  <2>2. s.shown \in Seq(ShownType)
    BY DEF SeenType
  <2> HIDE DEF x
  <2>3. x.sure => x.stamp = x.pts
    BY <1>2, <2>1, <2>s
  <2>4. StampsRight(Append(s.shown, x))
    BY <2>1, <2>2, <2>3, AppendRight
  <2> QED
    BY <1>2, <2>x, <2>4
<1> QED
  BY <1>3, <1>4 DEF Leaves

LEMMA FreshMatched == Matched(InitVideoTimeStamp, {}) /\ Used(InitVideoTimeStamp) = {}
BY DEF Matched, InitVideoTimeStamp, Used, StampSet, Pts, NoneTwice

LEMMA PairedStep ==
  ASSUME Types, Empties, Apart, Paired, StampsRight(seen.shown), Steps, Types'
  PROVE  Paired' /\ StampsRight(seen'.shown)
<1>0. /\ seen \in SeenType /\ Within \subseteq Pic /\ lost' \in BOOLEAN /\ outTimeStamp \in Table
      /\ Pts({}) = {} /\ bFlush \in BOOLEAN /\ bFlush' \in BOOLEAN /\ lost \in BOOLEAN
  BY WithinType DEF Types, TypeOK, Pts
<1>u. \A S, T : Pts(S \cup T) = Pts(S) \cup Pts(T)
  BY DEF Pts
<1>p. ~ lost /\ ~ bFlush => Matched(outTimeStamp, Within)
  BY DEF Paired, Matched
<1>q. (~ lost' /\ ~ bFlush' => Matched(outTimeStamp', Within')) => Paired'
  BY DEF Paired, Matched
<1>1. ASSUME NEW b, Calls(b) PROVE Paired' /\ StampsRight(seen'.shown)
  <2>1. /\ b \in Buffer /\ PicturesOf(b) \in SUBSET Pic /\ Lost \in BOOLEAN /\ Parted(b) \in BOOLEAN
        /\ Stamps \in Table /\ Pushed(b) \in Table
        /\ Taken(b) \in SeenType /\ Taken(b).shown = seen.shown
    BY <1>1, TakeFacts, TakenFacts, BufferFacts DEF Calls, Types
  <2>2. ~ Lost => Matched(Stamps, Within)
    <3>1. CASE bFlush
      <4>1. Within = {} /\ Stamps = InitVideoTimeStamp
        BY <3>1 DEF Empties, Stamps
      <4> QED
        BY <4>1, FreshMatched
    <3>2. CASE ~ bFlush
      BY <1>p, <3>2 DEF Lost, Stamps
    <3> QED
      BY <3>1, <3>2
  <2>3. ~ (Lost \/ Parted(b)) /\ b.data => Matched(Pushed(b), Within \cup PicturesOf(b))
    <3> SUFFICES ASSUME ~ Lost, ~ Parted(b), b.data
                 PROVE  Matched(Pushed(b), Within \cup PicturesOf(b))
      OBVIOUS
    <3>1. b.config \in BOOLEAN /\ Pts(PicturesOf(b)) = IF b.config THEN {} ELSE {b.pts}
      BY <2>1, BufferFacts DEF Buffer
    <3>2. CASE b.config
      <4>1. Pushed(b) = Stamps
        BY <3>2 DEF Pushed, Parted
      <4>2. PicturesOf(b) = {}
        BY <3>2 DEF PicturesOf
      <4> QED
        BY <2>2, <4>1, <4>2
    <3>3. CASE ~ b.config
      <4>1. Pushed(b) = PushVideoTimeStamp(Stamps, b) /\ Used(Stamps) # Slots
        BY <3>3 DEF Pushed, Parted, Stamped
      <4>2. b.pts \notin Pts(Within)
        <5>1. input \in Seq(Buffer) /\ input # <<>> /\ b = input[1]
          BY <1>1, TakeFacts DEF Calls
        <5>2. 1 \in DOMAIN input
          BY <5>1, TailOwn DEF Apart
        <5> QED
          BY <3>3, <5>1, <5>2 DEF Apart, IsFrame
      <4>3. Pts(Within \cup PicturesOf(b)) = Pts(Within) \cup {b.pts}
        BY <1>u, <3>1, <3>3
      <4> QED
        BY <2>1, <2>2, <4>1, <4>2, <4>3, PushMatched
    <3> QED
      BY <3>1, <3>2, <3>3
  <2>4. CASE Quiet(b)
    BY <1>q, <2>2, <2>4 DEF Quiet
  <2>5. CASE Drops(b)
    <3>1. seen'.shown = seen.shown /\ lost'
      BY <2>1, <2>5, GivenUpFacts DEF Drops
    <3> QED
      BY <1>q, <3>1
  <2>6. CASE Starts(b) /\ b.data
    <3>1. Within = {} /\ lost' = (Lost \/ Parted(b) \/ LosesFirst(b)) /\ outTimeStamp' = Pushed(b)
      BY <2>6 DEF Starts, Empties
    <3>2. CASE LosesFirst(b)
      <4>1. seen' = GivenUp(Taken(b), PicturesOf(b))
        BY <2>6, <3>2 DEF Starts
      <4>2. seen'.shown = seen.shown
        BY <2>1, <4>1, GivenUpFacts
      <4> QED
        BY <1>q, <3>1, <3>2, <4>2
    <3>3. CASE ~ LosesFirst(b)
      <4>1. seen' = [Taken(b) EXCEPT !.keySince = b.key] /\ Within' = PicturesOf(b)
        BY <2>6, <3>3 DEF Starts
      <4>2. b.key \in BOOLEAN
        BY <2>1 DEF Buffer
      <4>3. seen'.shown = seen.shown
        BY <2>1, <4>1, <4>2, KeySet
      <4>4. ~ lost' => Matched(outTimeStamp', Within')
        BY <2>1, <2>3, <2>6, <3>1, <3>3, <4>1
      <4> QED
        BY <1>q, <4>3, <4>4
    <3> QED
      BY <3>2, <3>3
  <2>7. CASE Decodes(b) /\ b.data
    <3> DEFINE all == Within \cup PicturesOf(b)
    <3>1. all \in SUBSET Pic /\ lost' = (Lost \/ Parted(b))
      BY <1>0, <2>1, <2>7 DEF Decodes
    <3>2. ~ lost' => Matched(Pushed(b), all)
      BY <2>1, <2>3, <2>7, <3>1
    <3> HIDE DEF all
    <3>3. CASE Stays(all, Pushed(b), Taken(b))
      BY <1>q, <2>1, <3>2, <3>3 DEF Stays
    <3>4. ASSUME NEW p \in Pic, Leaves(p, all, Pushed(b), Taken(b), StampOf(b))
          PROVE  Paired' /\ StampsRight(seen'.shown)
      <4>1. /\ ~ lost' => Matched(outTimeStamp', Within')
            /\ StampsRight(seen'.shown)
        BY <1>0, <2>1, <3>1, <3>2, <3>4, LeavesRight, StampTypes
      <4> QED
        BY <1>q, <4>1
    <3> QED
      BY <2>7, <3>3, <3>4 DEF Decodes, all
  <2> QED
    BY <1>1, <2>4, <2>5, <2>6, <2>7 DEF Calls
<1>2. CASE Drains
  <2>1. ~ bFlush
    BY <1>2 DEF Drains, Empties
  <2>2. ASSUME NEW p \in Pic, lost' = lost, Leaves(p, Within, outTimeStamp, seen, NoStamp)
        PROVE  Paired' /\ StampsRight(seen'.shown)
    <3>1. /\ ~ lost' => Matched(outTimeStamp', Within')
          /\ StampsRight(seen'.shown)
      BY <1>0, <1>p, <2>1, <2>2, LeavesRight, StampTypes
    <3> QED
      BY <1>q, <3>1
  <2>3. CASE lost' /\ \E p \in Within : seen'.shown = seen.shown
    BY <1>q, <2>3
  <2> QED
    BY <1>2, <2>2, <2>3 DEF Drains
<1>3. CASE Sends
  <2>1. /\ seen'.shown = seen.shown /\ Within' = Within
        /\ UNCHANGED <<lost, bFlush, outTimeStamp>>
    BY <1>0, <1>3 DEF Sends, SeenType
  <2> QED
    BY <1>p, <1>q, <2>1
<1>4. CASE Restarts \/ Flushes
  <2>1. seen' = Blank /\ Within' = {} /\ (bFlush' \/ outTimeStamp' = InitVideoTimeStamp)
    BY <1>4 DEF Restarts, Flushes
  <2>2. StampsRight(<<>>)
    BY DEF StampsRight
  <2> QED
    BY <1>q, <2>1, <2>2, FreshMatched DEF Blank
<1> QED
  BY <1>1, <1>2, <1>3, <1>4 DEF Steps

\* A picture leaves with the stamp of its own frame as long as no stamp and
\* picture were parted, if no two frames of a stream have the same: the table
\* holds the stamps of just the pictures in the VPU, and the next picture is
\* the one with the smallest.
THEOREM StampOfPictureAlways ==
  ASSUME DistinctStamps
  PROVE  Spec => []StampOfPicture
<1> DEFINE IInv == Types /\ Empties /\ Apart /\ Paired /\ StampsRight(seen.shown)
<1>1. Init => IInv
  <2> SUFFICES ASSUME Init PROVE IInv
    OBVIOUS
  <2>1. /\ Types /\ Empties /\ Within = {} /\ seen = Blank /\ input \in Streams
        /\ outTimeStamp = InitVideoTimeStamp
    BY InitTypes, InitEmpties
  <2>2. StampsRight(seen.shown)
    BY <2>1 DEF Blank, StampsRight
  <2>3. Apart
    BY <2>1 DEF Apart, Pts, DistinctStamps
  <2>4. Paired
    BY <2>1, FreshMatched DEF Paired, Matched
  <2> QED
    BY <2>1, <2>2, <2>3, <2>4
<1>2. IInv /\ [Next]_vars => IInv'
  <2> SUFFICES ASSUME IInv, [Next]_vars PROVE IInv'
    OBVIOUS
  <2>1. CASE Next
    <3>1. Types' /\ Steps /\ Empties' /\ Apart'
      BY <2>1, NextStep, EmptiesStep, ApartStep
    <3> QED
      BY <3>1, PairedStep
  <2>2. CASE UNCHANGED vars
    BY <2>2, Stutter DEF Empties, Apart, Paired
  <2> QED
    BY <2>1, <2>2
<1>3. IInv => StampOfPicture
  BY DEF StampsRight, StampOfPicture
<1> HIDE DEF IInv
<1> QED
  BY <1>1, <1>2, <1>3, PTL DEF Spec

-----------------------------------------------------------------------------
(* The configuration                                                       *)

\* How the n-th buffer of a sequence continues the configuration before it.
Continued(s, g, n) ==
  IF n = 0 THEN <<>>
  ELSE IF s[n].config THEN Append(g[n - 1], s[n]) ELSE g[n - 1]
Counts(s, g, k) == \A n \in 0..k : g[n] = Continued(s, g, n)

\* There is one such function for each sequence: of those numbers up to which
\* there is none, there would be a smallest.
LEMMA CountsExists ==
  ASSUME NEW s \in Seq(Buffer)
  PROVE  \E g \in [0..Len(s) -> Seq(Buffer)] : Counts(s, g, Len(s))
<1> DEFINE T == {k \in 0..Len(s) : ~ \E g \in [0..k -> Seq(Buffer)] : Counts(s, g, k)}
<1>1. T \in SUBSET Nat /\ Len(s) \in Nat
  OBVIOUS
<1>2. CASE T = {}
  <2>1. Len(s) \in 0..Len(s) /\ Len(s) \notin T
    BY <1>1, <1>2
  <2> QED
    BY <2>1
<1>3. CASE T # {}
  <2>1. PICK m \in T : \A k \in T : m <= k
    <3> HIDE DEF T
    <3> QED
      BY <1>1, <1>3, SmallestOf
  <2>2. m \in 0..Len(s) /\ ~ \E g \in [0..m -> Seq(Buffer)] : Counts(s, g, m)
    OBVIOUS
  <2>3. CASE m = 0
    <3> DEFINE g == [n \in 0..0 |-> <<>>]
    <3>1. g \in [0..0 -> Seq(Buffer)] /\ g[0] = <<>>
      OBVIOUS
    <3> HIDE DEF g
    <3>2. \A n \in 0..0 : n = 0
      OBVIOUS
    <3>3. Counts(s, g, 0)
      BY <3>1, <3>2 DEF Counts, Continued
    <3> QED
      BY <2>2, <2>3, <3>1, <3>3
  <2>4. CASE m # 0
    <3>0. m \in Nat /\ m - 1 \in 0..Len(s) /\ ~ (m <= m - 1)
      BY <1>1, <2>2, <2>4
    <3>1. m \in Nat /\ m - 1 \in 0..Len(s) /\ m - 1 \notin T
      <4> HIDE DEF T
      <4> QED
        BY <2>1, <3>0
    <3>2. PICK g \in [0..m - 1 -> Seq(Buffer)] : Counts(s, g, m - 1)
      BY <3>1
    <3> DEFINE h == [n \in 0..m |-> IF n = m THEN Continued(s, g, m) ELSE g[n]]
    <3>3. s[m] \in Buffer
      BY <1>1, <2>2, <2>4, ElementOfSeq
    <3>4. g[m - 1] \in Seq(Buffer)
      BY <3>1, <3>2
    <3>5. Continued(s, g, m) \in Seq(Buffer)
      BY <2>4, <3>3, <3>4, AppendProperties DEF Continued
    <3>6. \A n \in 0..m - 1 : g[n] \in Seq(Buffer) /\ g[n] = Continued(s, g, n)
      BY <3>2 DEF Counts
    <3>7. h \in [0..m -> Seq(Buffer)]
      BY <3>1, <3>5, <3>6
    <3>8. \A n \in 0..m - 1 : h[n] = g[n]
      BY <3>1
    <3>9. h[m] = Continued(s, g, m)
      BY <3>1
    <3> HIDE DEF h
    <3>10. ASSUME NEW n \in 0..m PROVE h[n] = Continued(s, h, n)
      <4>1. n # 0 => n - 1 \in 0..m - 1
        BY <3>1
      <4>2. Continued(s, h, n) = Continued(s, g, n)
        BY <3>8, <4>1 DEF Continued
      <4>3. n = m \/ n \in 0..m - 1
        BY <3>1
      <4> QED
        BY <3>6, <3>8, <3>9, <4>2, <4>3
    <3>11. Counts(s, h, m)
      BY <3>10 DEF Counts
    <3> QED
      BY <2>2, <3>7, <3>11
  <2> QED
    BY <2>3, <2>4
<1> QED
  BY <1>2, <1>3

\* Two functions that count agree as far as the sequences do.
LEMMA CountsUnique ==
  ASSUME NEW s, NEW t, NEW l \in Nat, NEW g, NEW h, Counts(s, g, l), Counts(t, h, l),
         \A n \in 1..l : s[n] = t[n]
  PROVE  \A n \in 0..l : g[n] = h[n]
<1> DEFINE T == {n \in 0..l : g[n] # h[n]}
<1>1. T \in SUBSET Nat
  OBVIOUS
<1>2. CASE T # {}
  <2>1. PICK m \in T : \A n \in T : m <= n
    <3> HIDE DEF T
    <3> QED
      BY <1>1, <1>2, SmallestOf
  <2>2. m \in 0..l /\ g[m] # h[m]
    OBVIOUS
  <2>3. g[m] = Continued(s, g, m) /\ h[m] = Continued(t, h, m)
    BY <2>2 DEF Counts
  <2>4. m # 0 => g[m - 1] = h[m - 1] /\ s[m] = t[m]
    <3> SUFFICES ASSUME m # 0 PROVE g[m - 1] = h[m - 1] /\ s[m] = t[m]
      OBVIOUS
    <3>1. m - 1 \in 0..l /\ m \in 1..l /\ ~ (m <= m - 1)
      BY <2>2
    <3> QED
      BY <2>1, <3>1
  <2> QED
    BY <2>2, <2>3, <2>4 DEF Continued
<1> QED
  BY <1>2

\* Configs takes the last value of the function that counts.
LEMMA ConfigsAre ==
  ASSUME NEW s \in Seq(Buffer)
  PROVE  \E g \in [0..Len(s) -> Seq(Buffer)] : Counts(s, g, Len(s)) /\ Configs(s) = g[Len(s)]
<1> DEFINE Def(g) == [n \in 0..Len(s) |-> IF n = 0 THEN <<>>
                        ELSE IF s[n].config THEN Append(g[n - 1], s[n]) ELSE g[n - 1]]
           among == CHOOSE g : g = Def(g)
<1>1. PICK g \in [0..Len(s) -> Seq(Buffer)] : Counts(s, g, Len(s))
  BY CountsExists
<1>2. g = Def(g)
  BY <1>1 DEF Counts, Continued
<1>3. among = Def(among)
  BY <1>2
<1>4. Configs(s) = among[Len(s)]
  BY DEF Configs
<1> HIDE DEF among
<1>5. Counts(s, among, Len(s))
  BY <1>3 DEF Counts, Continued
<1> DEFINE l == Len(s)
<1>6. l \in Nat /\ l \in 0..l /\ l <= l
  OBVIOUS
<1>7. Counts(s, g, l) /\ Counts(s, among, l)
  BY <1>1, <1>5
<1>8. \A n \in 0..l : g[n] = among[n]
  <2> HIDE DEF l
  <2> QED
    BY <1>6, <1>7, CountsUnique
<1> QED
  BY <1>1, <1>4, <1>6, <1>8

LEMMA ConfigsOfNone == Configs(<<>>) = <<>>
<1> DEFINE s == <<>>
<1>1. s \in Seq(Buffer) /\ Len(s) = 0 /\ 0 \in 0..0
  OBVIOUS
<1> HIDE DEF s
<1>2. PICK g \in [0..Len(s) -> Seq(Buffer)] : Counts(s, g, Len(s)) /\ Configs(s) = g[Len(s)]
  BY <1>1, ConfigsAre
<1>3. Configs(s) = Continued(s, g, 0)
  BY <1>1, <1>2 DEF Counts
<1> QED
  BY <1>3 DEF Continued, s

\* A buffer more.
LEMMA ConfigsOfMore ==
  ASSUME NEW s \in Seq(Buffer), NEW b \in Buffer
  PROVE  /\ Configs(s) \in Seq(Buffer)
         /\ Configs(Append(s, b)) = IF b.config THEN Append(Configs(s), b) ELSE Configs(s)
<1>t. PICK t : t = Append(s, b)
  OBVIOUS
<1>l. PICK l : l = Len(s)
  OBVIOUS
<1>1. /\ t \in Seq(Buffer) /\ Len(t) = l + 1 /\ l \in Nat /\ t[l + 1] = b
      /\ \A n \in 1..l : s[n] = t[n]
  BY <1>t, <1>l, AppendProperties
<1>2. PICK g : /\ Counts(s, g, l) /\ Configs(s) = g[l] /\ g \in [0..l -> Seq(Buffer)]
  BY <1>l, ConfigsAre
<1>3. PICK h : Counts(t, h, Len(t)) /\ Configs(t) = h[Len(t)]
  BY <1>1, ConfigsAre
<1>4. g[l] = h[l]
  <2>1. l \in Nat /\ l \in 0..l /\ \A n \in 0..l : n \in 0..l + 1
    BY <1>1
  <2>2. Counts(t, h, l)
    BY <1>1, <1>3, <2>1 DEF Counts
  <2>n. \A n \in 1..l : s[n] = t[n]
    BY <1>1
  <2>c. Counts(s, g, l) /\ l \in Nat
    BY <1>1, <1>2
  <2>3. \A n \in 0..l : g[n] = h[n]
    BY <2>2, <2>c, <2>n, CountsUnique
  <2> QED
    BY <2>1, <2>3
<1>5. Configs(t) = Continued(t, h, l + 1)
  <2>1. l + 1 \in 0..Len(t) /\ Len(t) = l + 1
    BY <1>1
  <2> QED
    BY <1>3, <2>1 DEF Counts
<1>6. (l + 1) - 1 = l /\ l + 1 # 0 /\ l \in 0..l
  BY <1>1
<1>7. Configs(t) = IF b.config THEN Append(Configs(s), b) ELSE Configs(s)
  BY <1>1, <1>2, <1>4, <1>5, <1>6 DEF Continued
<1> QED
  BY <1>2, <1>6, <1>7, <1>t
\* A stream has one configuration at most.
OneConfig(s) == \A i, j \in DOMAIN s : s[i].config /\ s[j].config => i = j
SingleConfig == \A s \in Streams : OneConfig(s)
NoConfig(s) == \A i \in DOMAIN s : ~ s[i].config

\* A session whose Header has no extra data of a VC-1 session before it.
Plain == codec \in {"AVC", "MP2", "MP4"} /\ (pExtraData = <<>> \/ codec = "MP4")

\* Until the VPU is initialised, codecSpecificData has the configuration sent in
\* this session.  The functions for MPEG-2 and MPEG-4 put a second one in place
\* of the first; the one for AVC looks for a header as long as it has none.
ConfigKept ==
  /\ bInitialized /\ codec = "AVC" => ~ bNeedSequenceData
  /\ Plain /\ bInitialized => Configs(session.initData) = session.config
  /\ Plain /\ ~ bInitialized =>
       /\ Configs(codecSpecificData) = session.config /\ OneConfig(input)
       /\ codec # "AVC" /\ session.config # <<>> => NoConfig(input)
       /\ codec = "AVC" /\ bNeedSequenceData => codecSpecificData = <<>>

LEMMA TailConfig ==
  ASSUME NEW s \in Seq(Buffer), s # <<>>, OneConfig(s)
  PROVE  /\ OneConfig(Tail(s))
         /\ s[1].config => NoConfig(Tail(s))
         /\ NoConfig(s) => NoConfig(Tail(s)) /\ ~ s[1].config
<1> DEFINE t == Tail(s)
<1>1. /\ 1 \in DOMAIN s
      /\ \A i \in DOMAIN t : i + 1 \in DOMAIN s /\ t[i] = s[i + 1] /\ i + 1 # 1
      /\ \A i, j \in DOMAIN t : i + 1 = j + 1 => i = j
  BY TailShift
<1> HIDE DEF t
<1> QED
  BY <1>1 DEF OneConfig, NoConfig, t

\* The configuration stays, and so does what is to come but for the first.
LEMMA ConfigStays ==
  ASSUME Types, ConfigKept, UNCHANGED control, bInitialized \/ input' = Tail(input) \/ input' = input,
         input # <<>> \/ input' = input \/ bInitialized,
         session'.config = session.config, session'.initData = session.initData
  PROVE  ConfigKept'
<1>1. UNCHANGED <<codec, bInitialized, bNeedSequenceData, codecSpecificData, pExtraData>>
  BY DEF control
<1>2. Plain' <=> Plain
  BY <1>1 DEF Plain
<1>3. CASE bInitialized
  BY <1>1, <1>2, <1>3 DEF ConfigKept
<1>4. CASE ~ bInitialized /\ input # <<>> /\ input' = Tail(input)
  <2>1. input \in Seq(Buffer)
    BY DEF Types, TypeOK
  <2>2. ASSUME OneConfig(input) PROVE OneConfig(input') /\ (NoConfig(input) => NoConfig(input'))
    <3>1. OneConfig(Tail(input)) /\ (NoConfig(input) => NoConfig(Tail(input)))
      BY <1>4, <2>1, <2>2, TailConfig
    <3> QED
      BY <1>4, <3>1
  <2> QED
    BY <1>1, <1>2, <1>4, <2>2 DEF ConfigKept
<1>5. CASE input' = input
  BY <1>1, <1>2, <1>5 DEF ConfigKept
<1> QED
  BY <1>3, <1>4, <1>5

LEMMA ConfigIsKept ==
  ASSUME Types, ConfigKept, NEW b, KeepConfig(b)
  PROVE  ConfigKept'
<1>t. Take(b) /\ KeepsConfig(b) /\ b.config
  BY DEF KeepConfig, KeepsConfig
<1>1. b \in Buffer /\ input \in Seq(Buffer) /\ input # <<>> /\ b = input[1] /\ input' = Tail(input)
  BY <1>t, TakeFacts
<1>2. UNCHANGED <<codec, bInitialized>> /\ session'.config = Append(session.config, b)
  BY DEF KeepConfig, Types, SessionType
<1>3. bNeedSequenceData' = (bNeedSequenceData /\ codec # "AVC")
  BY DEF KeepConfig
<1>4. SUFFICES ASSUME Plain' PROVE ConfigKept'
  BY <1>2, <1>3 DEF ConfigKept
<1>5. codec \in {"AVC", "MP2", "MP4"} /\ codecSpecificData' = <<b>> /\ UNCHANGED pExtraData
  BY <1>2, <1>4 DEF KeepConfig, Plain
<1>6. ~ bInitialized /\ (codec = "AVC" => bNeedSequenceData)
  BY <1>t, <1>5 DEF KeepsConfig, DecodeFrame, NX_DecodeAvcFrame, NX_DecodeMpeg2Frame,
                    NX_DecodeMpeg4Frame, ConfigKept, Types, TypeOK
<1>7. Plain
  BY <1>2, <1>4, <1>5 DEF Plain
<1>8. OneConfig(input) /\ OneConfig(input') /\ NoConfig(input') /\ ~ NoConfig(input)
  <2>1. OneConfig(input)
    BY <1>6, <1>7 DEF ConfigKept
  <2>2. OneConfig(Tail(input)) /\ NoConfig(Tail(input)) /\ ~ NoConfig(input)
    BY <1>t, <1>1, <2>1, TailConfig
  <2> QED
    BY <1>1, <2>1, <2>2
<1>9. session.config = <<>>
  <2>1. CASE codec = "AVC"
    BY <1>6, <1>7, <2>1, ConfigsOfNone DEF ConfigKept
  <2>2. CASE codec # "AVC"
    BY <1>6, <1>7, <1>8, <2>2 DEF ConfigKept
  <2> QED
    BY <2>1, <2>2
<1>10. Configs(<<b>>) = <<b>>
  <2>1. <<>> \in Seq(Buffer) /\ <<b>> = Append(<<>>, b)
    OBVIOUS
  <2> QED
    BY <1>t, <1>1, <2>1, ConfigsOfNone, ConfigsOfMore
<1>11. session'.config = <<b>>
  BY <1>2, <1>9
<1> QED
  BY <1>2, <1>3, <1>5, <1>6, <1>8, <1>10, <1>11 DEF ConfigKept

LEMMA ConfigWaits ==
  ASSUME Types, ConfigKept, NEW b, DropBeforeSequence(b)
  PROVE  ConfigKept'
<1>t. /\ Take(b) /\ ~ KeepsConfig(b) /\ ~ bInitialized /\ codec = "AVC" /\ bNeedSequenceData
      /\ UNCHANGED <<codec, bInitialized, pExtraData, session>>
  BY DEF DropBeforeSequence, WaitsForSequence
<1>1. b \in Buffer /\ input \in Seq(Buffer) /\ input # <<>> /\ b = input[1] /\ input' = Tail(input)
  BY <1>t, TakeFacts
<1>2. ~ b.config
  BY <1>t DEF KeepsConfig, DecodeFrame, NX_DecodeAvcFrame
<1>3. SUFFICES ASSUME Plain PROVE ConfigKept'
  BY <1>t DEF ConfigKept, Plain
<1>4. codecSpecificData = <<>> /\ Header = <<>> /\ OneConfig(input) /\ session.config = <<>>
  BY <1>t, <1>3, ConfigsOfNone DEF ConfigKept, Header, Plain
<1>5. \/ codecSpecificData' = Append(Header, b) /\ ~ bNeedSequenceData'
      \/ codecSpecificData' = codecSpecificData
  BY DEF DropBeforeSequence
<1>6. Configs(codecSpecificData') = <<>>
  <2>1. <<>> \in Seq(Buffer)
    OBVIOUS
  <2> QED
    BY <1>1, <1>2, <1>4, <1>5, <2>1, ConfigsOfNone, ConfigsOfMore
<1>7. OneConfig(input')
  <2>1. OneConfig(Tail(input))
    BY <1>1, <1>4, TailConfig
  <2> QED
    BY <1>1, <2>1
<1> QED
  BY <1>t, <1>4, <1>5, <1>6, <1>7 DEF ConfigKept, Plain

LEMMA ConfigIsGiven ==
  ASSUME Types, ConfigKept, NEW b, InitializeCodaVpu(b)
  PROVE  ConfigKept'
<1>t. /\ Take(b) /\ ~ bInitialized /\ ~ WaitsForSequence /\ bInitialized' = TRUE
      /\ UNCHANGED <<codec, bNeedSequenceData, pExtraData>>
  BY DEF InitializeCodaVpu, First
<1>1. b \in Buffer
  BY <1>t, TakeFacts
<1>2. /\ session'.initData = Append(Header, b)
      /\ session'.config = IF b.config THEN Append(session.config, b) ELSE session.config
  BY DEF InitializeCodaVpu, Types, SessionType
<1>3. codec = "AVC" => ~ bNeedSequenceData
  BY <1>t DEF WaitsForSequence
<1>4. SUFFICES ASSUME Plain PROVE Configs(session'.initData) = session'.config
  BY <1>t, <1>3 DEF ConfigKept, Plain
<1>5. Header = codecSpecificData
  BY <1>4 DEF Plain, Header
<1>6. Configs(Header) = session.config /\ Header \in Seq(Buffer)
  BY <1>t, <1>4, <1>5, HeaderType DEF ConfigKept
<1> QED
  BY <1>1, <1>2, <1>6, ConfigsOfMore

LEMMA ConfigStep ==
  ASSUME SingleConfig, Types, ConfigKept, Next
  PROVE  ConfigKept'
<1>1. ASSUME NEW c \in Codecs, NEW s \in Streams, Reopen(c, s) PROVE ConfigKept'
  <2>1. /\ ~ bInitialized' /\ codecSpecificData' = <<>> /\ bNeedSequenceData' = FALSE
        /\ input' = s /\ session'.config = <<>>
    BY <1>1 DEF Reopen, OpenCodec, closeVideoCodec, NewSession
  <2>2. OneConfig(input')
    BY <2>1 DEF SingleConfig
  <2> QED
    BY <2>1, <2>2, ConfigsOfNone DEF ConfigKept
<1>2. ASSUME NEW b, TakeEos(b) \/ DropChanged(b) \/ DecodeNext(b) PROVE ConfigKept'
  <2>1. Take(b) /\ UNCHANGED <<control, session>>
    BY <1>2 DEF TakeEos, DropChanged, DecodeNext
  <2>2. input # <<>> /\ input' = Tail(input)
    BY <2>1, TakeFacts
  <2> QED
    BY <2>1, <2>2, ConfigStays
<1>3. ASSUME NEW b, KeepConfig(b) PROVE ConfigKept'
  BY <1>3, ConfigIsKept
<1>4. ASSUME NEW b, DropBeforeSequence(b) PROVE ConfigKept'
  BY <1>4, ConfigWaits
<1>5. ASSUME NEW b, InitializeCodaVpu(b) PROVE ConfigKept'
  BY <1>5, ConfigIsGiven
<1>6. ASSUME NEW b, InitializeFails(b) PROVE ConfigKept'
  <2>1. /\ Take(b) /\ UNCHANGED <<codec, bInitialized, bNeedSequenceData, pExtraData, session>>
        /\ codec \notin {"VC1", "RV"} => UNCHANGED codecSpecificData
    BY <1>6 DEF InitializeFails, First
  <2>2. input # <<>> /\ input' = Tail(input) /\ ~ bInitialized /\ (codec = "AVC" => ~ bNeedSequenceData)
    BY <1>6, <2>1, TakeFacts DEF InitializeFails, First, WaitsForSequence
  <2>3. CASE codec \in {"VC1", "RV"}
    BY <2>1, <2>3 DEF ConfigKept, Plain
  <2>4. CASE codec \notin {"VC1", "RV"}
    BY <2>1, <2>2, <2>4, ConfigStays DEF control
  <2> QED
    BY <2>3, <2>4
<1>7. CASE DrainPicture \/ SendEos
  BY <1>7, ConfigStays DEF DrainPicture, SendEos
<1>8. ASSUME NEW port, NEW rest, Flush(port, rest) PROVE ConfigKept'
  <2>1. bInitialized /\ UNCHANGED control /\ session' = [session EXCEPT !.flushes = @ + 1]
    BY <1>8 DEF Flush
  <2>2. session'.config = session.config /\ session'.initData = session.initData
    BY <2>1 DEF Types, SessionType
  <2> QED
    BY <2>1, <2>2, ConfigStays
<1> QED
  BY <1>1, <1>2, <1>3, <1>4, <1>5, <1>6, <1>7, <1>8 DEF Next

\* The VPU is initialised with the configuration of this session and no other,
\* whatever came before in it or in an earlier one (InitHasConfig), if a stream
\* has one configuration: the functions for MPEG-2 and MPEG-4 keep the last.
THEOREM InitHasConfigAlways ==
  ASSUME SingleConfig
  PROVE  Spec => []InitHasConfig
<1>1. Init => Types /\ Empties /\ ConfigKept
  <2> SUFFICES ASSUME Init PROVE ConfigKept
    BY InitTypes, InitEmpties
  <2>1. /\ ~ bInitialized /\ codecSpecificData = <<>> /\ session.config = <<>> /\ input \in Streams
    BY DEF Init, NewSession
  <2> QED
    BY <2>1, ConfigsOfNone DEF ConfigKept, SingleConfig
<1>2. Types /\ Empties /\ ConfigKept /\ [Next]_vars => (Types /\ Empties /\ ConfigKept)'
  <2> SUFFICES ASSUME Types, Empties, ConfigKept, [Next]_vars PROVE (Types /\ Empties /\ ConfigKept)'
    OBVIOUS
  <2>1. CASE Next
    BY <2>1, NextStep, EmptiesStep, ConfigStep
  <2>2. CASE UNCHANGED vars
    BY <2>2, Stutter, ConfigStays DEF Empties, vars
  <2> QED
    BY <2>1, <2>2
<1>3. ConfigKept => InitHasConfig
  BY DEF ConfigKept, InitHasConfig, Plain
<1> QED
  BY <1>1, <1>2, <1>3, PTL DEF Spec

-----------------------------------------------------------------------------
(* The order of the stamps                                                 *)

\* What the streams have to satisfy for the stamps to come in order: no stamp
\* twice, and a configuration only in front.
StampsApart(s) == \A i, j \in DOMAIN s : s[i].data /\ s[j].data /\ s[i].pts = s[j].pts => i = j
ConfigFirst(s) == \A i \in DOMAIN s : s[i].config => i = 1
OrderlyStreams == \A s \in Streams : StampsApart(s) /\ ConfigFirst(s)

\* A frame that goes to the VPU finds a free entry for its stamp.
TableHasRoom ==
  Running /\ IsFrame(Head(input)) /\ (bInitialized \/ ~ WaitsForSequence) => Used(Stamps) # Slots

\* Each picture of S can be given a stamp of its own that is not later than its
\* pts.  The table may have stamps of no picture besides: they only make the
\* smallest smaller.
Leads(tab, S) ==
  \E f \in [S -> Used(tab)] : /\ \A q, r \in S : f[q] = f[r] => q = r
                              /\ \A q \in S : tab[f[q]].timestamp <= q.pts

\* The stamps shown increase, and are below those of T.
Increasing(shown) == \A i, j \in DOMAIN shown : i < j => shown[i].stamp < shown[j].stamp
Below(shown, T) == \A k \in DOMAIN shown : \A m \in T : shown[k].stamp < m

\* The table against the pictures S in the VPU, the stamps shown, and those of
\* the buffers to come.
Sound(tab, S, shown, coming) ==
  /\ Leads(tab, S) /\ NoneTwice(tab) /\ coming \cap StampSet(tab) = {}
  /\ Increasing(shown) /\ Below(shown, StampSet(tab)) /\ Below(shown, coming)

Coming(s) == {s[i].pts : i \in {j \in DOMAIN s : s[j].data}}
Ahead == IF bStartEoS THEN {} ELSE Coming(input)

InOrder ==
  /\ StampsApart(input)
  /\ \A i \in DOMAIN input : input[i].config => i = 1 /\ seen.shown = <<>> /\ ~ bStartEoS
  /\ bFlush => seen.shown = <<>>
  /\ Sound(Stamps, Within, seen.shown, Ahead)

LEMMA LeadsMore ==
  ASSUME NEW tab \in Table, NEW b \in Buffer, NEW S, Leads(tab, S)
  PROVE  Leads(PushVideoTimeStamp(tab, b), S)
<1> DEFINE new == PushVideoTimeStamp(tab, b)
<1>1. CASE Used(tab) = Slots
  BY <1>1 DEF PushVideoTimeStamp
<1>2. CASE Used(tab) # Slots
  <2>1. PICK i \in Slots \ Used(tab) :
          /\ Used(new) = Used(tab) \cup {i} /\ new[i].timestamp = b.pts
          /\ \A j \in Used(tab) : new[j] = tab[j]
    BY <1>2, PushedStamp
  <2> HIDE DEF new
  <2>2. PICK f \in [S -> Used(tab)] : /\ \A q, r \in S : f[q] = f[r] => q = r
                                      /\ \A q \in S : tab[f[q]].timestamp <= q.pts
    BY DEF Leads
  <2>3. f \in [S -> Used(new)] /\ \A q \in S : new[f[q]].timestamp <= q.pts
    BY <2>1, <2>2
  <2>4. Leads(new, S)
    BY <2>2, <2>3 DEF Leads
  <2> QED
    BY <2>4 DEF new
<1> QED
  BY <1>1, <1>2

\* A picture goes in with its stamp.
LEMMA LeadsPush ==
  ASSUME NEW tab \in Table, NEW b \in Buffer, NEW S, Leads(tab, S), Used(tab) # Slots,
         NEW q, q.pts = b.pts
  PROVE  Leads(PushVideoTimeStamp(tab, b), S \cup {q})
<1> DEFINE new == PushVideoTimeStamp(tab, b)
<1>1. PICK i \in Slots \ Used(tab) :
        /\ Used(new) = Used(tab) \cup {i} /\ new[i].timestamp = b.pts
        /\ \A j \in Used(tab) : new[j] = tab[j]
  BY PushedStamp
<1>2. CASE q \in S
  <2>1. S \cup {q} = S
    BY <1>2
  <2> QED
    BY <2>1, LeadsMore
<1>3. CASE q \notin S
  <2> HIDE DEF new
  <2>1. PICK f \in [S -> Used(tab)] : /\ \A p, r \in S : f[p] = f[r] => p = r
                                      /\ \A p \in S : tab[f[p]].timestamp <= p.pts
    BY DEF Leads
  <2> DEFINE T == S \cup {q}
             h == [p \in T |-> IF p = q THEN i ELSE f[p]]
  <2>2. h[q] = i /\ \A p \in S : h[p] = f[p] /\ f[p] \in Used(tab)
    BY <1>3, <2>1
  <2>3. h \in [T -> Used(new)]
    BY <1>1, <2>1
  <2> HIDE DEF h
  <2>4. \A p, r \in T : h[p] = h[r] => p = r
    BY <1>1, <2>1, <2>2
  <2>5. b.pts \in Nat
    BY DEF Buffer
  <2>6. \A p \in T : new[h[p]].timestamp <= p.pts
    BY <1>1, <2>1, <2>2, <2>5
  <2>7. Leads(new, T)
    BY <2>3, <2>4, <2>6 DEF Leads
  <2> QED
    BY <2>7 DEF new
<1> QED
  BY <1>2, <1>3

\* The first of all leaves with a stamp that is not later than its pts.
LEMMA LeadsPop ==
  ASSUME NEW tab \in Table, NEW all \in SUBSET Pic, Leads(tab, all), NEW p \in all,
         \A q \in all \ {p} : p.pts < q.pts
  PROVE  /\ Used(tab) # {} /\ tab[PopIndex(tab)].timestamp <= p.pts
         /\ Leads(PopVideoTimeStamp(tab), all \ {p})
<1> DEFINE i == PopIndex(tab)
           new == PopVideoTimeStamp(tab)
<1>1. PICK f \in [all -> Used(tab)] : /\ \A q, r \in all : f[q] = f[r] => q = r
                                      /\ \A q \in all : tab[f[q]].timestamp <= q.pts
  BY DEF Leads
<1>2. Used(tab) # {} /\ f[p] \in Used(tab)
  BY <1>1
<1>3. i \in Used(tab) /\ \A j \in Used(tab) : tab[i].timestamp <= tab[j].timestamp
  BY <1>2, SmallestStamp
<1>4. Used(new) = Used(tab) \ {i} /\ \A j \in Used(tab) \ {i} : new[j] = tab[j]
  BY <1>2, Popped
<1> HIDE DEF i, new
<1>5. \A j \in Used(tab) : tab[j].timestamp \in Nat
  BY DEF Used, Table, FrameStamp
<1>6. tab[i].timestamp <= p.pts /\ tab[f[p]].timestamp <= p.pts
  <2>1. tab[i].timestamp <= tab[f[p]].timestamp /\ tab[f[p]].timestamp <= p.pts
    BY <1>1, <1>2, <1>3
  <2>2. p.pts \in Nat /\ tab[i].timestamp \in Nat /\ tab[f[p]].timestamp \in Nat
    BY <1>2, <1>3, <1>5 DEF Pic
  <2> QED
    BY <2>1, <2>2
<1> DEFINE T == all \ {p}
           h == [q \in T |-> IF f[q] = i THEN f[p] ELSE f[q]]
<1>7. \A q \in T : h[q] = IF f[q] = i THEN f[p] ELSE f[q]
  OBVIOUS
<1>8. ASSUME NEW q \in T PROVE h[q] \in Used(new) /\ new[h[q]].timestamp <= q.pts
  <2>1. f[q] \in Used(tab) /\ f[q] # f[p] /\ tab[f[q]].timestamp <= q.pts
    BY <1>1
  <2>2. h[q] \in Used(tab) \ {i}
    BY <1>2, <1>7, <2>1
  <2>3. p.pts \in Nat /\ q.pts \in Nat /\ p.pts < q.pts /\ tab[f[p]].timestamp \in Nat
    BY <1>2, <1>5 DEF Pic
  <2>4. tab[h[q]].timestamp <= q.pts
    <3>1. CASE f[q] = i
      <4>1. h[q] = f[p]
        BY <1>7, <3>1
      <4> QED
        BY <1>6, <2>3, <4>1
    <3>2. CASE f[q] # i
      BY <1>7, <2>1, <3>2
    <3> QED
      BY <3>1, <3>2
  <2> QED
    BY <1>4, <2>2, <2>4
<1>9. h \in [T -> Used(new)]
  <2>1. h = [q \in T |-> h[q]]
    OBVIOUS
  <2> HIDE DEF h
  <2> QED
    BY <1>8, <2>1
<1> HIDE DEF h
<1>10. \A q, r \in T : h[q] = h[r] => q = r
  BY <1>1, <1>7
<1>11. Leads(new, T)
  BY <1>8, <1>9, <1>10 DEF Leads
<1> QED
  BY <1>2, <1>6, <1>11 DEF i, new

LEMMA LeadsLess ==
  ASSUME NEW tab, NEW S, Leads(tab, S), NEW T \in SUBSET S
  PROVE  Leads(tab, T)
<1>1. PICK f \in [S -> Used(tab)] : /\ \A q, r \in S : f[q] = f[r] => q = r
                                    /\ \A q \in S : tab[f[q]].timestamp <= q.pts
  BY DEF Leads
<1> DEFINE h == [q \in T |-> f[q]]
<1>2. h \in [T -> Used(tab)] /\ \A q \in T : h[q] = f[q]
  BY <1>1
<1> HIDE DEF h
<1>3. \A q, r \in T : h[q] = h[r] => q = r
  BY <1>1, <1>2
<1>4. \A q \in T : tab[h[q]].timestamp <= q.pts
  BY <1>1, <1>2
<1> QED
  BY <1>2, <1>3, <1>4 DEF Leads

LEMMA SoundFresh == ASSUME NEW C PROVE Sound(InitVideoTimeStamp, {}, <<>>, C)
<1>1. Used(InitVideoTimeStamp) = {}
  BY DEF Used, InitVideoTimeStamp
<1>2. Leads(InitVideoTimeStamp, {})
  <2> DEFINE f == [q \in {} |-> q]
  <2>1. f \in [{} -> Used(InitVideoTimeStamp)]
    OBVIOUS
  <2> HIDE DEF f
  <2> QED
    BY <2>1 DEF Leads
<1> QED
  BY <1>1, <1>2 DEF Sound, StampSet, NoneTwice, Increasing, Below

LEMMA SoundLess ==
  ASSUME NEW tab, NEW S, NEW shown, NEW C, Sound(tab, S, shown, C), NEW T \in SUBSET S,
         NEW D \in SUBSET C
  PROVE  Sound(tab, T, shown, D)
<1>1. Leads(tab, T)
  BY LeadsLess DEF Sound
<1> QED
  BY <1>1 DEF Sound, Below

\* The stamp of a buffer to come goes in, with a picture or without.
LEMMA SoundPush ==
  ASSUME NEW tab \in Table, NEW b \in Buffer, NEW S, NEW shown, NEW C, Sound(tab, S, shown, C),
         b.pts \in C, NEW D \in SUBSET (C \ {b.pts})
  PROVE  /\ Sound(PushVideoTimeStamp(tab, b), S, shown, D)
         /\ \A q : Used(tab) # Slots /\ q.pts = b.pts =>
              Sound(PushVideoTimeStamp(tab, b), S \cup {q}, shown, D)
<1> DEFINE new == PushVideoTimeStamp(tab, b)
<1>1. StampSet(new) \subseteq StampSet(tab) \cup {b.pts} /\ NoneTwice(new)
  <2>1. CASE Used(tab) = Slots
    <3>1. new = tab
      BY <2>1 DEF PushVideoTimeStamp
    <3> QED
      BY <3>1 DEF Sound
  <2>2. CASE Used(tab) # Slots
    <3>1. PICK i \in Slots \ Used(tab) :
            /\ Used(new) = Used(tab) \cup {i} /\ new[i].timestamp = b.pts
            /\ \A j \in Used(tab) : new[j] = tab[j]
      BY <2>2, PushedStamp
    <3> HIDE DEF new
    <3>2. \A j \in Used(tab) : tab[j].timestamp # b.pts
      BY DEF Sound, StampSet
    <3> QED
      BY <3>1, <3>2 DEF StampSet, NoneTwice, Sound
  <2> QED
    BY <2>1, <2>2
<1>2. Leads(new, S) /\ \A q : Used(tab) # Slots /\ q.pts = b.pts => Leads(new, S \cup {q})
  BY LeadsMore, LeadsPush DEF Sound
<1> HIDE DEF new
<1>3. D \cap StampSet(new) = {} /\ Below(shown, StampSet(new)) /\ Below(shown, D)
  BY <1>1 DEF Sound, Below
<1>4. /\ Sound(new, S, shown, D)
      /\ \A q : Used(tab) # Slots /\ q.pts = b.pts => Sound(new, S \cup {q}, shown, D)
  BY <1>1, <1>2, <1>3 DEF Sound
<1> QED
  BY <1>4 DEF new

\* Picture p is the first of those in the VPU and of all that come.
Leading(p, all, C) ==
  p \in all /\ (\A q \in all \ {p} : p.pts < q.pts) /\ \A c \in C : p.pts < c

\* A picture leaves, shown with the smallest stamp or not at all.
LEMMA SoundPop ==
  ASSUME NEW tab \in Table, NEW all \in SUBSET Pic, NEW shown \in Seq(ShownType), NEW C \in SUBSET Nat,
         Sound(tab, all, shown, C), NEW p, Leading(p, all, C)
  PROVE  /\ Used(tab) # {}
         /\ Sound(PopVideoTimeStamp(tab), all \ {p}, shown, C)
         /\ \A x \in ShownType : x.stamp = tab[PopIndex(tab)].timestamp =>
              Sound(PopVideoTimeStamp(tab), all \ {p}, Append(shown, x), C)
<1> DEFINE i == PopIndex(tab)
           new == PopVideoTimeStamp(tab)
           m == tab[i].timestamp
<1>0. p \in all /\ p \in Pic /\ \A c \in C : p.pts < c
  BY DEF Leading
<1>1. Used(tab) # {} /\ m <= p.pts /\ Leads(new, all \ {p})
  BY LeadsPop DEF Sound, Leading
<1>2. i \in Used(tab) /\ \A j \in Used(tab) : m <= tab[j].timestamp
  BY <1>1, SmallestStamp
<1>3. Used(new) = Used(tab) \ {i} /\ \A j \in Used(tab) \ {i} : new[j] = tab[j]
  BY <1>1, Popped
<1>4. \A j \in Used(tab) : tab[j].timestamp \in Nat
  BY DEF Used, Table, FrameStamp
<1>5. m \in StampSet(tab) /\ m \in Nat
  BY <1>2, <1>4 DEF StampSet
<1> HIDE DEF i, new
<1>6. /\ StampSet(new) \subseteq StampSet(tab) /\ NoneTwice(new)
      /\ \A k \in StampSet(new) : m < k
  <2>1. NoneTwice(tab)
    BY DEF Sound
  <2>2. ASSUME NEW k \in StampSet(new) PROVE k \in StampSet(tab) /\ m < k
    <3>1. PICK j \in Used(tab) \ {i} : k = tab[j].timestamp
      BY <1>3 DEF StampSet
    <3>2. m <= k /\ m # k /\ k \in Nat
      BY <1>2, <1>4, <2>1, <3>1 DEF NoneTwice
    <3> HIDE DEF m
    <3> QED
      BY <1>5, <3>1, <3>2 DEF StampSet
  <2>3. NoneTwice(new)
    BY <1>3, <2>1 DEF NoneTwice
  <2> QED
    BY <2>2, <2>3
<1> HIDE DEF m
<1>7. \A c \in C : m < c
  <2> SUFFICES ASSUME NEW c \in C PROVE m < c
    OBVIOUS
  <2>1. p.pts \in Nat /\ c \in Nat /\ p.pts < c
    BY <1>0 DEF Pic
  <2> QED
    BY <1>1, <1>5, <2>1
<1>8. Sound(new, all \ {p}, shown, C)
  BY <1>1, <1>6 DEF Sound, Below
<1>9. ASSUME NEW x \in ShownType, x.stamp = m
      PROVE  Sound(new, all \ {p}, Append(shown, x), C)
  <2> DEFINE t == Append(shown, x)
             n == Len(shown)
  <2>1. /\ n \in Nat /\ DOMAIN shown = 1 .. n /\ DOMAIN t = 1 .. n + 1 /\ t[n + 1] = x
        /\ \A k \in 1 .. n : t[k] = shown[k]
    BY AppendProperties
  <2> HIDE DEF t, n
  <2>2. ASSUME NEW k \in DOMAIN t
        PROVE  \/ k \in DOMAIN shown /\ t[k] = shown[k]
               \/ k = n + 1 /\ t[k] = x
    <3>1. k \in 1 .. n \/ k = n + 1
      BY <2>1
    <3> QED
      BY <2>1, <3>1
  <2>3. Below(t, StampSet(new)) /\ Below(t, C)
    BY <1>6, <1>7, <1>8, <1>9, <2>2 DEF Sound, Below
  <2>4. Increasing(t)
    <3> SUFFICES ASSUME NEW k \in DOMAIN t, NEW l \in DOMAIN t, k < l PROVE t[k].stamp < t[l].stamp
      BY DEF Increasing
    <3>1. k \in DOMAIN shown /\ t[k] = shown[k]
      <4>1. k \in 1 .. n + 1 /\ l \in 1 .. n + 1 /\ k < l
        BY <2>1
      <4>2. k \in 1 .. n
        BY <2>1, <4>1
      <4> QED
        BY <2>1, <4>2
    <3>2. CASE l \in DOMAIN shown
      BY <2>1, <3>1, <3>2 DEF Sound, Increasing
    <3>3. CASE l \notin DOMAIN shown
      <4>1. t[l].stamp = m
        BY <1>9, <2>2, <3>3
      <4>2. shown[k].stamp < m
        BY <1>5, <3>1 DEF Sound, Below
      <4> QED
        BY <3>1, <4>1, <4>2
    <3> QED
      BY <3>2, <3>3
  <2>5. Sound(new, all \ {p}, t, C)
    BY <1>8, <2>3, <2>4 DEF Sound
  <2> QED
    BY <2>5 DEF t
<1> QED
  BY <1>1, <1>8, <1>9 DEF i, new, m

\* What is to come behind the first buffer, and after a flush.
LEMMA ComingBehind ==
  ASSUME NEW s \in Seq(Buffer), s # <<>>, StampsApart(s), ConfigFirst(s)
  PROVE  /\ StampsApart(Tail(s)) /\ NoConfig(Tail(s)) /\ Coming(Tail(s)) \subseteq Coming(s)
         /\ s[1].data => s[1].pts \in Coming(s) /\ s[1].pts \notin Coming(Tail(s))
<1> DEFINE t == Tail(s)
<1>1. /\ 1 \in DOMAIN s
      /\ \A i \in DOMAIN t : i + 1 \in DOMAIN s /\ t[i] = s[i + 1] /\ i + 1 # 1
      /\ \A i, j \in DOMAIN t : i + 1 = j + 1 => i = j
  BY TailShift
<1> HIDE DEF t
<1>2. StampsApart(t) /\ NoConfig(t)
  BY <1>1 DEF StampsApart, ConfigFirst, NoConfig
<1>3. Coming(t) \subseteq Coming(s)
  BY <1>1 DEF Coming
<1>4. s[1].data => s[1].pts \in Coming(s)
  BY <1>1 DEF Coming
<1>5. ASSUME s[1].data, s[1].pts \in Coming(t) PROVE FALSE
  <2>1. PICK i \in DOMAIN t : t[i].data /\ t[i].pts = s[1].pts
    BY <1>5 DEF Coming
  <2> QED
    BY <1>1, <1>5, <2>1 DEF StampsApart
<1> QED
  BY <1>2, <1>3, <1>4, <1>5 DEF t

LEMMA RestOrderly ==
  ASSUME OrderlyStreams, NEW rest \in Rests
  PROVE  StampsApart(rest) /\ NoConfig(rest)
<1>1. PICK s \in Streams, l \in Nat :
        /\ \A i \in DOMAIN rest : /\ i \in Nat /\ l + i - 1 \in DOMAIN s /\ rest[i] = s[l + i - 1]
                                  /\ l + i - 1 = 1 => i = 1
        /\ \A i, j \in DOMAIN rest : l + i - 1 = l + j - 1 => i = j
  BY RestShift
<1>2. StampsApart(s) /\ ConfigFirst(s)
  BY DEF OrderlyStreams
<1>3. ~ rest[1].config
  <2>1. rest \in Seq(Buffer) /\ rest # <<>> /\ ~ Head(rest).config
    BY RestType DEF Rests
  <2> QED
    BY <2>1, HeadTailProperties
<1>4. ASSUME NEW i \in DOMAIN rest, NEW j \in DOMAIN rest, rest[i].data, rest[j].data,
             rest[i].pts = rest[j].pts
      PROVE  i = j
  <2>1. l + i - 1 = l + j - 1
    BY <1>1, <1>2, <1>4 DEF StampsApart
  <2> QED
    BY <1>1, <2>1
<1>5. ASSUME NEW i \in DOMAIN rest, rest[i].config PROVE FALSE
  <2>1. l + i - 1 = 1
    BY <1>1, <1>2, <1>5 DEF ConfigFirst
  <2> QED
    BY <1>1, <1>3, <1>5, <2>1
<1> QED
  BY <1>4, <1>5 DEF StampsApart, NoConfig

\* A picture leaves.
LEMMA LeavesInOrder ==
  ASSUME NEW p \in Pic, NEW all \in SUBSET Pic, NEW tab \in Table, NEW s \in SeenType,
         NEW other \in [timestamp : Int, flag : {"frame", "eos"}], lost' \in BOOLEAN,
         Leaves(p, all, tab, s, other), NEW C \in SUBSET Nat, Sound(tab, all, s.shown, C),
         \A c \in C : p.pts < c
  PROVE  Sound(outTimeStamp', Within', seen'.shown, C)
<1>1. /\ p \in all /\ \A q \in all \ {p} : p.pts < q.pts
      /\ Within' = all \ {p} /\ outTimeStamp' = PopVideoTimeStamp(tab)
  BY DEF Leaves
<1>2. s.shown \in Seq(ShownType)
  BY DEF SeenType
<1>3. /\ Used(tab) # {} /\ Sound(PopVideoTimeStamp(tab), all \ {p}, s.shown, C)
      /\ \A x \in ShownType : x.stamp = tab[PopIndex(tab)].timestamp =>
           Sound(PopVideoTimeStamp(tab), all \ {p}, Append(s.shown, x), C)
  <2>1. PICK shown : shown = s.shown
    OBVIOUS
  <2>2. shown \in Seq(ShownType) /\ Sound(tab, all, shown, C) /\ Leading(p, all, C)
    BY <1>1, <1>2, <2>1 DEF Leading
  <2>3. /\ Used(tab) # {} /\ Sound(PopVideoTimeStamp(tab), all \ {p}, shown, C)
        /\ \A x \in ShownType : x.stamp = tab[PopIndex(tab)].timestamp =>
             Sound(PopVideoTimeStamp(tab), all \ {p}, Append(shown, x), C)
    BY <2>2, SoundPop
  <2> QED
    BY <2>1, <2>3
<1>4. CASE seen'.shown = s.shown
  BY <1>1, <1>3, <1>4
<1>5. CASE seen'.shown = Append(s.shown, Shown(p, tab, other, ~ lost'))
  <2> DEFINE sure == ~ lost'
             x == Shown(p, tab, other, sure)
  <2>0. sure \in BOOLEAN
    OBVIOUS
  <2>x. seen'.shown = Append(s.shown, x)
    BY <1>5
  <2> HIDE DEF sure
  <2>1. x \in ShownType /\ (Used(tab) # {} => x.stamp = tab[PopIndex(tab)].timestamp)
    BY <2>0, ShownFacts
  <2> HIDE DEF x
  <2> QED
    BY <1>1, <1>3, <2>x, <2>1
<1> QED
  BY <1>4, <1>5 DEF Leaves

\* A round of the buffer thread.
LEMMA CallInOrder ==
  ASSUME Types, Empties, InOrder, TableHasRoom, NEW b, Calls(b), Types'
  PROVE  InOrder'
<1> DEFINE C == Coming(input)
           D == Coming(Tail(input))
<1>0. /\ seen \in SeenType /\ Within \in SUBSET Pic /\ lost' \in BOOLEAN
  BY WithinType DEF Types, TypeOK
<1>1. /\ b \in Buffer /\ input \in Seq(Buffer) /\ input # <<>> /\ b = input[1] /\ b = Head(input)
      /\ input' = Tail(input) /\ input' \in Seq(Buffer) /\ bFlush' = FALSE /\ ~ bStartEoS /\ Running
  BY TakeFacts DEF Calls, Take
<1>2. /\ PicturesOf(b) \in SUBSET Pic /\ Stamps \in Table /\ Pushed(b) \in Table
      /\ Taken(b) \in SeenType /\ Taken(b).shown = seen.shown /\ b.config \in BOOLEAN
  BY <1>1, TakeFacts, TakenFacts, BufferFacts DEF Calls, Types, Buffer
<1>3. StampsApart(input) /\ ConfigFirst(input) /\ Sound(Stamps, Within, seen.shown, C)
  BY <1>1 DEF InOrder, Ahead, ConfigFirst
<1>4. /\ StampsApart(Tail(input)) /\ NoConfig(Tail(input)) /\ D \subseteq C
      /\ b.data => b.pts \in C /\ b.pts \notin D
  BY <1>1, <1>3, ComingBehind
<1>5. D \in SUBSET Nat
  <2>1. Tail(input) \in Seq(Buffer)
    BY <1>1
  <2>2. \A i \in DOMAIN Tail(input) : Tail(input)[i] \in Buffer
    BY <2>1, ElementOfSeq
  <2> QED
    BY <2>2 DEF Coming, Buffer
<1>6. Stamps' = outTimeStamp' /\ Ahead' \in SUBSET D
  BY <1>1 DEF Stamps, Ahead
<1>7. SUFFICES Sound(outTimeStamp', Within', seen'.shown, D)
  <2>1. StampsApart(input') /\ NoConfig(input')
    BY <1>1, <1>4
  <2>2. ASSUME Sound(outTimeStamp', Within', seen'.shown, D)
        PROVE  Sound(outTimeStamp', Within', seen'.shown, Ahead')
    BY <1>6, <2>2, SoundLess
  <2> QED
    BY <1>1, <1>6, <2>1, <2>2 DEF InOrder, NoConfig
<1> HIDE DEF C, D
<1>8. CASE Quiet(b)
  <2>1. Within' = Within /\ outTimeStamp' = Stamps /\ seen' = seen
    BY <1>8 DEF Quiet
  <2> QED
    BY <1>3, <1>4, <2>1, SoundLess
<1>9. ASSUME b.data PROVE Sound(Pushed(b), Within, seen.shown, D)
  <2>1. b.pts \in C /\ D \in SUBSET (C \ {b.pts})
    BY <1>4, <1>9
  <2>2. CASE Stamped(b)
    <3>1. Pushed(b) = PushVideoTimeStamp(Stamps, b)
      BY <2>2 DEF Pushed
    <3> QED
      BY <1>1, <1>2, <1>3, <2>1, <3>1, SoundPush
  <2>3. CASE ~ Stamped(b)
    <3>1. Pushed(b) = Stamps
      BY <2>3 DEF Pushed
    <3> QED
      BY <1>3, <2>1, <3>1, SoundLess
  <2> QED
    BY <2>2, <2>3
<1>10. ASSUME b.data, bInitialized \/ ~ WaitsForSequence
       PROVE  Sound(Pushed(b), Within \cup PicturesOf(b), seen.shown, D)
  <2>1. CASE b.config
    <3>1. PicturesOf(b) = {}
      BY <2>1 DEF PicturesOf
    <3> QED
      BY <1>9, <1>10, <3>1
  <2>2. CASE ~ b.config
    <3>1. PicturesOf(b) = {Picture(b)} /\ Picture(b).pts = b.pts
      BY <1>1, <2>2, BufferFacts DEF PicturesOf
    <3>2. Used(Stamps) # Slots
      BY <1>1, <1>10, <2>2 DEF TableHasRoom, IsFrame
    <3>3. Pushed(b) = PushVideoTimeStamp(Stamps, b)
      BY <2>2 DEF Pushed, Stamped
    <3>4. b.pts \in C /\ D \in SUBSET (C \ {b.pts})
      BY <1>4, <1>10
    <3>5. PICK q : q = Picture(b)
      OBVIOUS
    <3>6. Sound(PushVideoTimeStamp(Stamps, b), Within \cup {q}, seen.shown, D)
      BY <1>1, <1>2, <1>3, <3>1, <3>2, <3>4, <3>5, SoundPush
    <3> QED
      BY <3>1, <3>3, <3>5, <3>6
  <2> QED
    BY <1>2, <2>1, <2>2
<1>11. CASE Drops(b) /\ b.data
  <2>1. seen'.shown = seen.shown /\ Within' = Within /\ outTimeStamp' = Pushed(b)
    BY <1>2, <1>11, GivenUpFacts DEF Drops
  <2> QED
    BY <1>9, <1>11, <2>1
<1>12. CASE Starts(b) /\ b.data /\ (bInitialized \/ ~ WaitsForSequence)
  <2>1. outTimeStamp' = Pushed(b) /\ Within = {}
    BY <1>12 DEF Starts, Empties
  <2>2. seen'.shown = seen.shown /\ (Within' = {} \/ Within' = PicturesOf(b))
    <3>1. CASE LosesFirst(b)
      <4>1. Within' = {} /\ seen' = GivenUp(Taken(b), PicturesOf(b))
        BY <1>12, <3>1 DEF Starts
      <4> QED
        BY <1>2, <4>1, GivenUpFacts
    <3>2. CASE ~ LosesFirst(b)
      <4>1. Within' = PicturesOf(b) /\ seen' = [Taken(b) EXCEPT !.keySince = b.key]
        BY <1>12, <3>2 DEF Starts
      <4>2. b.key \in BOOLEAN
        BY <1>1 DEF Buffer
      <4> QED
        BY <1>2, <4>1, <4>2, KeySet
    <3> QED
      BY <3>1, <3>2
  <2>3. Within' \in SUBSET (Within \cup PicturesOf(b))
    BY <2>2
  <2>4. Sound(Pushed(b), Within', seen.shown, D)
    <3>1. PICK T : T = Within'
      OBVIOUS
    <3>2. PICK S : S = Within \cup PicturesOf(b)
      OBVIOUS
    <3>3. T \in SUBSET S /\ Sound(Pushed(b), S, seen.shown, D) /\ D \in SUBSET D
      BY <1>10, <1>12, <2>3, <3>1, <3>2
    <3>4. Sound(Pushed(b), T, seen.shown, D)
      BY <3>3, SoundLess
    <3> QED
      BY <3>1, <3>4
  <2> QED
    BY <2>1, <2>2, <2>4
<1>13. CASE Decodes(b) /\ b.data /\ (bInitialized \/ ~ WaitsForSequence)
  <2> DEFINE all == Within \cup PicturesOf(b)
  <2>1. all \in SUBSET Pic /\ Sound(Pushed(b), all, seen.shown, D)
    BY <1>0, <1>2, <1>10, <1>13
  <2> HIDE DEF all
  <2>2. CASE Stays(all, Pushed(b), Taken(b))
    BY <1>2, <2>1, <2>2 DEF Stays
  <2>3. ASSUME NEW p \in Pic, Leaves(p, all, Pushed(b), Taken(b), StampOf(b)), Precedes(p)
        PROVE  Sound(outTimeStamp', Within', seen'.shown, D)
    <3>1. \A c \in D : p.pts < c
      BY <1>4, <2>3 DEF Precedes, IsFrame, NoConfig, Coming, D
    <3> QED
      BY <1>0, <1>1, <1>2, <1>5, <2>1, <2>3, <3>1, LeavesInOrder, StampTypes
  <2> QED
    BY <1>13, <2>2, <2>3 DEF Decodes, all
<1> QED
  BY <1>8, <1>11, <1>12, <1>13 DEF Calls

LEMMA InOrderStep ==
  ASSUME OrderlyStreams, Types, Empties, InOrder, TableHasRoom, Steps, Types'
  PROVE  InOrder'
<1>0. /\ seen \in SeenType /\ Within \in SUBSET Pic /\ lost' \in BOOLEAN /\ outTimeStamp \in Table
      /\ bStartEoS \in BOOLEAN /\ Blank.shown = <<>>
  BY WithinType DEF Types, TypeOK, Blank
<1>1. ASSUME NEW b, Calls(b) PROVE InOrder'
  BY <1>1, CallInOrder
<1>2. CASE Drains
  <2>1. /\ bStartEoS /\ ~ bFlush /\ UNCHANGED <<bFlush, bStartEoS, input>>
    BY <1>2 DEF Drains, Empties
  <2>2. /\ Stamps = outTimeStamp /\ Stamps' = outTimeStamp' /\ Ahead = {} /\ Ahead' = {}
    BY <2>1 DEF Stamps, Ahead
  <2>3. Sound(outTimeStamp, Within, seen.shown, {}) /\ {} \in SUBSET Nat /\ {} \in SUBSET {}
    BY <2>2 DEF InOrder
  <2>4. SUFFICES Sound(outTimeStamp', Within', seen'.shown, {})
    BY <2>1, <2>2 DEF InOrder
  <2>5. ASSUME NEW p \in Pic, Leaves(p, Within, outTimeStamp, seen, NoStamp)
        PROVE  Sound(outTimeStamp', Within', seen'.shown, {})
    BY <1>0, <2>3, <2>5, LeavesInOrder, StampTypes
  <2>6. CASE UNCHANGED outTimeStamp /\ Within' \subseteq Within /\ seen'.shown = seen.shown
    <3>1. Within' \in SUBSET Within
      BY <2>6
    <3> QED
      BY <2>3, <2>6, <3>1, SoundLess
  <2> QED
    BY <1>2, <2>5, <2>6 DEF Drains
<1>3. CASE Sends
  <2>1. /\ seen'.shown = seen.shown /\ Within' = Within
        /\ UNCHANGED <<bFlush, bStartEoS, outTimeStamp, input>>
    BY <1>0, <1>3 DEF Sends, SeenType
  <2> QED
    BY <2>1 DEF InOrder, Stamps, Ahead
<1>4. CASE Restarts \/ Flushes
  <2>1. seen'.shown = <<>> /\ Within' = {} /\ Stamps' = InitVideoTimeStamp /\ ~ bStartEoS'
    BY <1>0, <1>4 DEF Restarts, Flushes, Stamps
  <2>2. StampsApart(input') /\ \A i \in DOMAIN input' : input'[i].config => i = 1
    BY <1>4, RestOrderly DEF Restarts, Flushes, OrderlyStreams, ConfigFirst, NoConfig, InOrder
  <2>3. Sound(Stamps', Within', seen'.shown, Ahead')
    BY <2>1, SoundFresh
  <2> QED
    BY <2>1, <2>2, <2>3 DEF InOrder
<1> QED
  BY <1>1, <1>2, <1>3, <1>4 DEF Steps

\* The stamps of the pictures shown since the opening or a flush increase,
\* although frames come out of order, pictures are given up and stamps are
\* parted from pictures, if every frame finds a free entry in the table: each
\* picture in the VPU has an entry of its own that is not later, so the stamp
\* it takes is not later than its pts, which is before all that is to come.
THEOREM StampsInOrderAlways ==
  ASSUME OrderlyStreams
  PROVE  Spec /\ []TableHasRoom => []StampsInOrder
<1> DEFINE IInv == Types /\ Empties /\ InOrder
<1>1. Init => IInv
  <2> SUFFICES ASSUME Init PROVE IInv
    OBVIOUS
  <2>1. /\ Types /\ Empties /\ Within = {} /\ seen = Blank /\ input \in Streams
        /\ outTimeStamp = InitVideoTimeStamp /\ ~ bStartEoS
    BY InitTypes, InitEmpties
  <2>2. Stamps = InitVideoTimeStamp /\ seen.shown = <<>>
    BY <2>1 DEF Stamps, Blank
  <2>3. InOrder
    BY <2>1, <2>2, SoundFresh DEF InOrder, OrderlyStreams, ConfigFirst
  <2> QED
    BY <2>1, <2>3
<1>2. IInv /\ TableHasRoom /\ [Next]_vars => IInv'
  <2> SUFFICES ASSUME IInv, TableHasRoom, [Next]_vars PROVE IInv'
    OBVIOUS
  <2>1. CASE Next
    BY <2>1, NextStep, EmptiesStep, InOrderStep
  <2>2. CASE UNCHANGED vars
    BY <2>2, Stutter DEF Empties, InOrder, Stamps, Ahead
  <2> QED
    BY <2>1, <2>2
<1>3. IInv => StampsInOrder
  BY DEF InOrder, Sound, Increasing, StampsInOrder
<1> HIDE DEF IInv
<1> QED
  BY <1>1, <1>2, <1>3, PTL DEF Spec

=============================================================================
