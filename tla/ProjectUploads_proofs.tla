------------------------ MODULE ProjectUploads_proofs ------------------------
(***************************************************************************)
(* Proofs about ProjectUploads for all keys, owners, offers, file sizes    *)
(* and limits.  Sound says what holds of sessions and files between        *)
(* requests; Leave preserves it, so every action is left with showing it   *)
(* of the values that it hands to Leave.                                   *)
(***************************************************************************)
EXTENDS ProjectUploads, FiniteSetTheorems, SequenceTheorems, TLAPS

Types(s, p, b, acc) ==
  /\ s \in [Key -> Sessions \cup {NoSession}]
  /\ p \in [Key -> Inode \cup {NoFile}]
  /\ b \in [Inode -> Contents]
  /\ acc \in [Key -> SUBSET (Position \X Data)]

(* A session has a file of its own; what it acknowledged lies before its     *)
(* offset and is stored; what is sealed is whole.                            *)
Sound(s, p, b, acc) ==
  \A k \in Key :
    /\ p[k] # NoFile <=> s[k].owner # NoKey
    /\ s[k].owner = NoKey => s[k] = NoSession
    /\ \A j \in Key : p[j] = p[k] /\ p[k] # NoFile => j = k
    /\ \A entry \in acc[k] : /\ p[k] # NoFile
                             /\ entry[1] <= s[k].offset
                             /\ b[p[k]][entry[1]] = entry[2]
    /\ s[k].sealed => /\ s[k].offset = s[k].offer.size
                      /\ b[p[k]] = Whole(s[k].offer.print)

(* An open file is the sealed one that was asked for. *)
ReaderSound(s, p, b, r) ==
  r # NoReader => /\ r.inode \in Inode /\ b[r.inode] = r.want
                  /\ \A k \in Key : p[k] = r.inode => s[k].sealed

(* An import keeps its sealed session, and knows what it has compared. *)
ParserSound(s, p, b, pa, c) ==
  /\ pa # NoParser => /\ pa.key \in Key /\ pa.step # "idle"
                      /\ (c \/ (s[pa.key].owner # NoKey /\ s[pa.key].sealed /\ s[pa.key].consuming))
  /\ pa.step \in {"parse", "rehash", "parsed"} /\ p[pa.key] # NoFile => b[p[pa.key]] = pa.want
  /\ pa.step \in {"rehash", "parsed"} => pa.got = pa.want

Good(s, p, b, acc, r, pa, c) ==
  /\ Types(s, p, b, acc) /\ Sound(s, p, b, acc)
  /\ ReaderSound(s, p, b, r) /\ ParserSound(s, p, b, pa, c)

Core ==
  /\ Good(session, path, bytes, accepted, reader, parser, closed)
  /\ closed => \A k \in Key : path[k] = NoFile
  /\ Cardinality(Live) <= Capacity

(* Only the upload of the running import is spared by the expiry. *)
Spared == \A k \in Key : session[k].consuming => parser.key = k

Inv == TypeOK /\ Core /\ Spared

----------------------------------------------------------------------------
(* What Leave hands on, as a relation of values. *)

Left(gone, s, p, b, acc, r, s1, p1, b1, acc1) ==
  /\ s1 = [k \in Key |-> IF k \in gone THEN NoSession ELSE s[k]]
  /\ p1 = [k \in Key |-> IF k \in gone THEN NoFile ELSE p[k]]
  /\ b1 = Freed(b, p1, r)
  /\ acc1 = [k \in Key |-> IF k \in gone THEN {} ELSE acc[k]]

Effect(gone, s, p, b, acc, r, s1, p1, b1, acc1) ==
  /\ Types(s1, p1, b1, acc1)
  /\ \A k \in gone : s1[k] = NoSession /\ p1[k] = NoFile /\ acc1[k] = {}
  /\ \A k \in Key \ gone : s1[k] = s[k] /\ p1[k] = p[k] /\ acc1[k] = acc[k]
  /\ \A i \in Inode : (i = r.inode \/ \E k \in Key \ gone : p[k] = i) => b1[i] = b[i]

LEMMA LeaveEffect ==
  ASSUME NEW gone \in SUBSET Key, NEW s, NEW p, NEW b, NEW acc, NEW r,
         NEW s1, NEW p1, NEW b1, NEW acc1, Types(s, p, b, acc),
         Left(gone, s, p, b, acc, r, s1, p1, b1, acc1)
  PROVE  Effect(gone, s, p, b, acc, r, s1, p1, b1, acc1)
<1>1. Empty \in Contents
  BY DEF Empty, Contents
<1>2. b1 \in [Inode -> Contents]
  BY <1>1 DEF Freed, Types, Left
<1>3. Types(s1, p1, b1, acc1)
  BY <1>2 DEF Types, Left
<1>4. \A i \in Inode : (i = r.inode \/ \E k \in Key \ gone : p[k] = i) => b1[i] = b[i]
  BY DEF Freed, Left
<1> QED
  BY <1>3, <1>4 DEF Left, Effect

(* Leaving good values behind keeps them good, whatever is removed, except *)
(* the upload under a running import.                                      *)
LEMMA LeaveGood ==
  ASSUME NEW gone \in SUBSET Key, NEW s, NEW p, NEW b, NEW acc, NEW r, NEW pa,
         NEW c \in BOOLEAN, NEW s1, NEW p1, NEW b1, NEW acc1,
         Good(s, p, b, acc, r, pa, c), Left(gone, s, p, b, acc, r, s1, p1, b1, acc1),
         pa = NoParser \/ c \/ pa.key \notin gone
  PROVE  Good(s1, p1, b1, acc1, r, pa, c)
<1>1. Types(s, p, b, acc)
  BY DEF Good
<1>2. /\ Types(s1, p1, b1, acc1)
      /\ \A k \in gone : s1[k] = NoSession /\ p1[k] = NoFile /\ acc1[k] = {}
      /\ \A k \in Key \ gone :
           s1[k] = s[k] /\ p1[k] = p[k] /\ acc1[k] = acc[k]
      /\ \A i \in Inode : (i = r.inode \/ \E k \in Key \ gone : p[k] = i)
                             => b1[i] = b[i]
  <2>1. Effect(gone, s, p, b, acc, r, s1, p1, b1, acc1)
    BY <1>1, LeaveEffect
  <2> QED
    BY <2>1 DEF Effect
<1>3. Sound(s1, p1, b1, acc1)
  <2> SUFFICES ASSUME NEW k \in Key
      PROVE /\ p1[k] # NoFile <=> s1[k].owner # NoKey
            /\ s1[k].owner = NoKey => s1[k] = NoSession
            /\ \A j \in Key : p1[j] = p1[k] /\ p1[k] # NoFile => j = k
            /\ \A entry \in acc1[k] : /\ p1[k] # NoFile
                                           /\ entry[1] <= s1[k].offset
                                           /\ b1[p1[k]][entry[1]] = entry[2]
            /\ s1[k].sealed => /\ s1[k].offset = s1[k].offer.size
                                     /\ b1[p1[k]] = Whole(s1[k].offer.print)
    BY DEF Sound
  <2>1. CASE k \in gone
    <3>1. s1[k] = NoSession /\ p1[k] = NoFile /\ acc1[k] = {}
      BY <1>2, <2>1
    <3>2. NoSession.owner = NoKey /\ ~NoSession.sealed
      BY DEF NoSession
    <3> QED
      BY <3>1, <3>2
  <2>2. CASE k \notin gone
    <3>1. s1[k] = s[k] /\ p1[k] = p[k] /\ acc1[k] = acc[k]
      BY <1>2, <2>2
    <3>2. p[k] # NoFile => p[k] \in Inode /\ b1[p[k]] = b[p[k]]
      BY <1>1, <1>2, <2>2 DEF Types
    <3>3. s[k].sealed => p[k] # NoFile
      BY DEF Good, Sound, NoSession
    <3>4. \A j \in Key : p1[j] = p1[k] /\ p1[k] # NoFile => j = k
      BY <1>2, <3>1 DEF Good, Sound
    <3> QED
      BY <3>1, <3>2, <3>3, <3>4 DEF Good, Sound
  <2> QED
    BY <2>1, <2>2
<1>4. ReaderSound(s1, p1, b1, r)
  <2>1. CASE r # NoReader
    <3>1. r.inode \in Inode /\ b[r.inode] = r.want
      BY <2>1 DEF Good, ReaderSound
    <3>2. b1[r.inode] = r.want
      BY <1>2, <3>1
    <3>3. ASSUME NEW k \in Key, p1[k] = r.inode PROVE s1[k].sealed
      <4>1. k \notin gone
        BY <1>2, <3>1, <3>3, UploadAssumption DEF UploadAssumption
      <4> QED
        BY <1>2, <2>1, <3>3, <4>1 DEF Good, ReaderSound
    <3> QED
      BY <3>1, <3>2, <3>3 DEF ReaderSound
  <2> QED
    BY <2>1 DEF ReaderSound
<1>5. ParserSound(s1, p1, b1, pa, c)
  <2>1. CASE pa = NoParser
    BY <2>1 DEF ParserSound, NoParser
  <2>2. CASE pa # NoParser
    <3>1. pa.key \in Key
      BY <2>2 DEF Good, ParserSound
    <3>2. CASE pa.key \in gone
      <4>1. c /\ p1[pa.key] = NoFile
        BY <1>2, <2>2, <3>2
      <4> QED
        BY <2>2, <3>1, <4>1 DEF Good, ParserSound
    <3>3. CASE pa.key \notin gone
      <4>1. s1[pa.key] = s[pa.key] /\ p1[pa.key] = p[pa.key]
        BY <1>2, <3>1, <3>3
      <4>2. p[pa.key] # NoFile => b1[p[pa.key]] = b[p[pa.key]]
        BY <1>1, <1>2, <3>1, <3>3 DEF Types
      <4> QED
        BY <2>2, <3>1, <4>1, <4>2 DEF Good, ParserSound
    <3> QED
      BY <3>2, <3>3
  <2> QED
    BY <2>1, <2>2
<1> QED
  BY <1>2, <1>3, <1>4, <1>5 DEF Good

(* One session changes: it may be touched, go on, be sealed or be consumed. *)
Continues(s, p, b, k, t) ==
  /\ s[k].owner # NoKey /\ s[k].offset <= t.offset
  /\ s[k].sealed => t.sealed
  /\ s[k].consuming => t.consuming
  /\ t.sealed => t.offset = t.offer.size /\ b[p[k]] = Whole(t.offer.print)

LEMMA UpdateGood ==
  ASSUME NEW s, NEW p, NEW b, NEW acc, NEW r, NEW pa, NEW c \in BOOLEAN,
         NEW k \in Key, NEW t \in Sessions,
         Good(s, p, b, acc, r, pa, c), Continues(s, p, b, k, t)
  PROVE  Good([s EXCEPT ![k] = t], p, b, acc, r, pa, c)
<1> DEFINE u == [s EXCEPT ![k] = t]
<1> USE DEF Continues
<1>1. Types(s, p, b, acc) /\ Sound(s, p, b, acc) /\ ReaderSound(s, p, b, r)
        /\ ParserSound(s, p, b, pa, c)
  BY DEF Good
<1>2. u[k] = t /\ (\A j \in Key : j # k => u[j] = s[j]) /\ t.owner # NoKey
  BY <1>1, UploadAssumption DEF Types, Sessions, UploadAssumption
<1>3. Types(u, p, b, acc)
  BY <1>1 DEF Types
<1> HIDE DEF u
<1>4. ASSUME NEW j \in Key
      PROVE /\ p[j] # NoFile <=> u[j].owner # NoKey
            /\ u[j].owner = NoKey => u[j] = NoSession
            /\ \A i \in Key : p[i] = p[j] /\ p[j] # NoFile => i = j
            /\ \A entry \in acc[j] : /\ p[j] # NoFile
                                     /\ entry[1] <= u[j].offset
                                     /\ b[p[j]][entry[1]] = entry[2]
            /\ u[j].sealed => /\ u[j].offset = u[j].offer.size
                              /\ b[p[j]] = Whole(u[j].offer.print)
  <2>1. CASE j # k
    BY <1>1, <1>2, <2>1 DEF Sound
  <2>2. CASE j = k
    <3>1. s[k].offset \in Nat /\ t.offset \in Nat
      BY <1>1, UploadAssumption DEF Types, Sessions, NoSession, UploadAssumption
    <3>2. \A entry \in acc[k] : entry[1] \in Nat
      BY <1>1 DEF Types, Position
    <3>3. \A entry \in acc[k] : entry[1] <= t.offset
      BY <1>1, <3>1, <3>2 DEF Sound
    <3> QED
      BY <1>1, <1>2, <2>2, <3>3 DEF Sound
  <2> QED
    BY <2>1, <2>2
<1>5. Sound(u, p, b, acc)
  BY <1>4 DEF Sound
<1>6. ReaderSound(u, p, b, r)
  BY <1>1, <1>2 DEF ReaderSound
<1>7. ParserSound(u, p, b, pa, c)
  BY <1>1, <1>2 DEF ParserSound
<1>8. Good(u, p, b, acc, r, pa, c)
  BY <1>3, <1>5, <1>6, <1>7 DEF Good
<1> QED
  BY <1>8 DEF u

(* Writing behind the offset of a session that is not sealed. *)
LEMMA WriteGood ==
  ASSUME NEW s, NEW p, NEW b, NEW acc, NEW r, NEW pa, NEW k \in Key, NEW f \in Contents,
         Good(s, p, b, acc, r, pa, FALSE), p[k] # NoFile, ~s[k].sealed,
         \A i \in Position : i <= s[k].offset => f[i] = b[p[k]][i]
  PROVE  Good(s, p, [b EXCEPT ![p[k]] = f], acc, r, pa, FALSE)
<1> DEFINE w == [b EXCEPT ![p[k]] = f]
<1>1. Types(s, p, b, acc) /\ Sound(s, p, b, acc) /\ ReaderSound(s, p, b, r)
        /\ ParserSound(s, p, b, pa, FALSE)
  BY DEF Good
<1>2. p[k] \in Inode /\ w[p[k]] = f /\ \A i \in Inode : i # p[k] => w[i] = b[i]
  BY <1>1 DEF Types
<1>3. Types(s, p, w, acc)
  BY <1>1 DEF Types
<1> HIDE DEF w
<1>4. \A j \in Key : p[j] # NoFile => p[j] \in Inode /\ (j # k => w[p[j]] = b[p[j]])
  BY <1>1, <1>2 DEF Types, Sound
<1>5. \A entry \in acc[k] : entry[1] \in Position
  BY <1>1 DEF Types
<1>6. \A entry \in acc[k] : w[p[k]][entry[1]] = entry[2]
  BY <1>1, <1>2, <1>5 DEF Sound
<1>7. \A j \in Key : s[j].sealed => p[j] # NoFile /\ j # k
  BY <1>1 DEF Sound, NoSession
<1>8. Sound(s, p, w, acc)
  BY <1>1, <1>4, <1>6, <1>7 DEF Sound
<1>9. ReaderSound(s, p, w, r)
  BY <1>1, <1>2 DEF ReaderSound
<1>10. ParserSound(s, p, w, pa, FALSE)
  <2>1. CASE pa = NoParser
    BY <2>1 DEF ParserSound, NoParser
  <2>2. CASE pa # NoParser
    BY <1>1, <1>4, <1>7, <2>2 DEF ParserSound
  <2> QED
    BY <2>1, <2>2
<1>11. Good(s, p, w, acc, r, pa, FALSE)
  BY <1>3, <1>8, <1>9, <1>10 DEF Good
<1> QED
  BY <1>11 DEF w

(* Acknowledging what is stored before the offset. *)
LEMMA AcknowledgeGood ==
  ASSUME NEW s, NEW p, NEW b, NEW acc, NEW r, NEW pa, NEW c \in BOOLEAN, NEW k \in Key,
         NEW e \in SUBSET (Position \X Data), Good(s, p, b, acc, r, pa, c), p[k] # NoFile,
         \A entry \in e : entry[1] <= s[k].offset /\ b[p[k]][entry[1]] = entry[2]
  PROVE  Good(s, p, b, [acc EXCEPT ![k] = @ \cup e], r, pa, c)
<1> DEFINE n == [acc EXCEPT ![k] = @ \cup e]
<1>1. Types(s, p, b, acc) /\ Sound(s, p, b, acc)
  BY DEF Good
<1>2. n[k] = acc[k] \cup e /\ \A j \in Key : j # k => n[j] = acc[j]
  BY <1>1 DEF Types
<1>3. Types(s, p, b, n)
  BY <1>1 DEF Types
<1> HIDE DEF n
<1>4. Sound(s, p, b, n)
  BY <1>1, <1>2 DEF Sound
<1>5. Good(s, p, b, n, r, pa, c)
  BY <1>3, <1>4 DEF Good
<1> QED
  BY <1>5 DEF n

----------------------------------------------------------------------------
(* Every step preserves Core. *)

LEMMA FewerSessions ==
  ASSUME Core, NEW T \in SUBSET Live
  PROVE  Cardinality(T) <= Capacity
<1>1. IsFiniteSet(Live)
  BY FS_Subset, UploadAssumption DEF Live, UploadAssumption
<1>2. IsFiniteSet(T) /\ Cardinality(T) <= Cardinality(Live)
  BY <1>1, FS_Subset
<1>3. Cardinality(T) \in Nat /\ Cardinality(Live) \in Nat
  BY <1>1, <1>2, FS_CardinalityType
<1> QED
  BY <1>2, <1>3, UploadAssumption DEF Core, UploadAssumption

(* What may be removed, and that nothing else comes. *)
Admissible(gone, s, p, pa, c, live) ==
  /\ pa = NoParser \/ c \/ pa.key \notin gone
  /\ c => \A k \in Key \ gone : p[k] = NoFile
  /\ \A k \in Key : s[k].owner # NoKey => k \in live

LEMMA LeaveCore ==
  ASSUME Core, closed' \in BOOLEAN, NEW gone \in SUBSET Key, NEW s, NEW p, NEW b, NEW acc,
         Good(s, p, b, acc, reader', parser', closed'),
         Admissible(gone, s, p, parser', closed', Live),
         Left(gone, s, p, b, acc, reader', session', path', bytes', accepted')
  PROVE  Core'
<1>1. parser' = NoParser \/ closed' \/ parser'.key \notin gone
  BY DEF Admissible
<1>2. Good(session', path', bytes', accepted', reader', parser', closed')
  BY <1>1, LeaveGood
<1>3. closed' => \A k \in Key : path'[k] = NoFile
  BY DEF Admissible, Left
<1>4. Live' \subseteq Live
  BY DEF Admissible, Left, Live, NoSession
<1>5. Cardinality(Live') <= Capacity
  BY <1>4, FewerSessions
<1> QED
  BY <1>2, <1>3, <1>5 DEF Core

LEMMA ExpiredSpares ==
  ASSUME Inv
  PROVE  /\ Expired \in SUBSET Key
         /\ \A k \in Key : ~session[k].consuming /\ k = parser.key => parser = NoParser \/ closed
         /\ parser = NoParser \/ closed \/ parser.key \notin Expired
<1>1. ParserSound(session, path, bytes, parser, closed)
  BY DEF Inv, Core, Good
<1> QED
  BY <1>1 DEF ParserSound, Expired, Live

LEMMA UsableFacts ==
  ASSUME Inv, NEW k \in Key, NEW o \in Owner, Usable(k, o)
  PROVE  /\ session[k] \in Sessions /\ session[k].owner # NoKey /\ ~session[k].consuming
         /\ k \notin Expired
         /\ parser = NoParser \/ closed \/ parser.key # k
         /\ path[k] \in Inode /\ ~closed
<1>1. session[k] \in Sessions /\ session[k].owner # NoKey /\ ~session[k].consuming
        /\ k \notin Expired
  BY DEF Inv, TypeOK, Usable, Live, NoSession
<1>2. path[k] \in Inode
  BY <1>1 DEF Inv, TypeOK, Core, Good, Sound
<1>3. ~closed
  BY <1>2, UploadAssumption DEF Inv, Core, UploadAssumption
<1> QED
  BY <1>1, <1>2, <1>3, ExpiredSpares

LEMMA RefusedCore ==
  ASSUME Inv, RefusedRequest
  PROVE  Core'
<1>1. parser' = parser /\ reader' = reader /\ closed' = closed
  BY DEF RefusedRequest
<1>2. Left(Expired, session, path, bytes, accepted, reader', session', path', bytes', accepted')
  BY DEF RefusedRequest, Leave, Left
<1>3. Good(session, path, bytes, accepted, reader', parser', closed')
  BY <1>1 DEF Inv, Core
<1>4. Admissible(Expired, session, path, parser', closed', Live)
  BY <1>1, ExpiredSpares DEF Admissible, Live, Inv, Core
<1> QED
  BY <1>1, <1>2, <1>3, <1>4, ExpiredSpares, LeaveCore DEF Inv, TypeOK

(* An own session with another record, its file and its notes as they were. *)
LEMMA UpdateCore ==
  ASSUME Inv, NEW gone \in SUBSET Key, NEW k \in Key, NEW t \in Sessions,
         parser' = parser, reader' = reader, closed' = closed,
         gone = Expired \/ gone = {}, Continues(session, path, bytes, k, t),
         Left(gone, [session EXCEPT ![k] = t], path, bytes, accepted, reader',
              session', path', bytes', accepted')
  PROVE  Core'
<1> DEFINE s == [session EXCEPT ![k] = t]
<1>1. Good(s, path, bytes, accepted, reader, parser, closed)
  <2>1. Good(session, path, bytes, accepted, reader, parser, closed) /\ closed \in BOOLEAN
    BY DEF Inv, Core, TypeOK
  <2> QED
    BY <2>1, UpdateGood
<1>2. \A j \in Key : s[j].owner # NoKey => j \in Live
  BY DEF Inv, TypeOK, Live, Continues
<1> HIDE DEF s
<1>3. Admissible(gone, s, path, parser', closed', Live)
  BY <1>2, ExpiredSpares DEF Admissible, Inv, Core
<1>4. Left(gone, s, path, bytes, accepted, reader', session', path', bytes', accepted')
  BY DEF s
<1> QED
  BY <1>1, <1>3, <1>4, LeaveCore DEF Inv, TypeOK

LEMMA TouchedRecord ==
  ASSUME Inv, NEW k \in Key, NEW o \in Owner, Usable(k, o)
  PROVE  /\ [session[k] EXCEPT !.age = 0] \in Sessions
         /\ Touched(k) = [session EXCEPT ![k] = [session[k] EXCEPT !.age = 0]]
<1>1. session[k] \in Sessions
  BY UsableFacts
<1>2. 0 \in 0 .. TTL + 1
  BY UploadAssumption DEF UploadAssumption
<1> QED
  BY <1>1, <1>2 DEF Touched, Sessions

LEMMA TouchingCore ==
  ASSUME Inv, NEW k \in Key, NEW o \in Owner, TouchingRequest(k, o)
  PROVE  Core'
<1> DEFINE t == [session[k] EXCEPT !.age = 0]
<1>1. Usable(k, o) /\ parser' = parser /\ reader' = reader /\ closed' = closed
  BY DEF TouchingRequest
<1>2. t \in Sessions /\ Touched(k) = [session EXCEPT ![k] = t]
  BY <1>1, TouchedRecord
<1>3. session[k] \in Sessions /\ session[k].owner # NoKey
  BY <1>1, UsableFacts
<1>4. /\ t.offset = session[k].offset /\ t.sealed = session[k].sealed
      /\ t.consuming = session[k].consuming /\ t.offer = session[k].offer
  BY <1>3 DEF Sessions
<1>5. session[k].offset \in Nat
  BY <1>3, UploadAssumption DEF Sessions, UploadAssumption
<1>6. session[k].sealed => /\ session[k].offset = session[k].offer.size
                           /\ bytes[path[k]] = Whole(session[k].offer.print)
  BY DEF Inv, Core, Good, Sound
<1> HIDE DEF t
<1>8. Continues(session, path, bytes, k, t)
  BY <1>3, <1>4, <1>5, <1>6 DEF Continues
<1>7. Left(Expired, [session EXCEPT ![k] = t], path, bytes, accepted, reader',
           session', path', bytes', accepted')
  BY <1>2 DEF TouchingRequest, Leave, Left
<1> QED
  BY <1>1, <1>2, <1>7, <1>8, ExpiredSpares, UpdateCore

LEMMA SealCore ==
  ASSUME Inv, NEW k \in Key, NEW o \in Owner, Seal(k, o)
  PROVE  Core'
<1> DEFINE t == [session[k] EXCEPT !.age = 0, !.sealed = TRUE]
<1>1. Usable(k, o) /\ parser' = parser /\ reader' = reader /\ closed' = closed
  BY DEF Seal
<1>2. session[k] \in Sessions /\ session[k].owner # NoKey
  BY <1>1, UsableFacts
<1>3. t \in Sessions /\ [Touched(k) EXCEPT ![k].sealed = TRUE] = [session EXCEPT ![k] = t]
  <2>1. session \in [Key -> Sessions \cup {NoSession}] /\ 0 \in 0 .. TTL + 1
    BY UploadAssumption DEF Inv, TypeOK, UploadAssumption
  <2>2. t \in Sessions
    BY <1>2, <2>1 DEF Sessions
  <2>3. [Touched(k) EXCEPT ![k].sealed = TRUE] = [session EXCEPT ![k] = t]
    BY <1>2, <2>1 DEF Touched, Sessions
  <2> QED
    BY <2>2, <2>3
<1>4. /\ t.offset = session[k].offset /\ t.sealed
      /\ t.consuming = session[k].consuming /\ t.offer = session[k].offer
  BY <1>2 DEF Sessions
<1>5. session[k].offset \in Nat
  BY <1>2, UploadAssumption DEF Sessions, UploadAssumption
<1>6. session[k].offset = session[k].offer.size
        /\ bytes[path[k]] = Whole(session[k].offer.print)
  BY DEF Seal, Complete
<1> HIDE DEF t
<1>8. Continues(session, path, bytes, k, t)
  BY <1>2, <1>4, <1>5, <1>6 DEF Continues
<1>7. Left(Expired, [session EXCEPT ![k] = t], path, bytes, accepted, reader',
           session', path', bytes', accepted')
  BY <1>3 DEF Seal, Leave, Left
<1> QED
  BY <1>1, <1>3, <1>7, <1>8, ExpiredSpares, UpdateCore

LEMMA DiscardCore ==
  ASSUME Inv, NEW k \in Key, NEW o \in Owner, Discard(k, o)
  PROVE  Core'
<1>1. Usable(k, o) /\ parser' = parser /\ reader' = reader /\ closed' = closed
  BY DEF Discard
<1>2. Left(Expired \cup {k}, session, path, bytes, accepted, reader',
           session', path', bytes', accepted')
  BY DEF Discard, Leave, Left
<1>3. Good(session, path, bytes, accepted, reader', parser', closed')
  BY <1>1 DEF Inv, Core
<1>4. Admissible(Expired \cup {k}, session, path, parser', closed', Live)
  BY <1>1, ExpiredSpares, UsableFacts DEF Admissible, Live, Inv, Core
<1>5. Expired \cup {k} \in SUBSET Key
  BY ExpiredSpares
<1> QED
  BY <1>1, <1>2, <1>3, <1>4, <1>5, LeaveCore DEF Inv, TypeOK

LEMMA ReaderCore ==
  ASSUME Inv, CloseReader
  PROVE  Core'
<1>1. parser' = parser /\ reader' = NoReader /\ closed' = closed
  BY DEF CloseReader
<1>2. Left({}, session, path, bytes, accepted, reader', session', path', bytes', accepted')
  BY DEF CloseReader, Leave, Left
<1>3. Good(session, path, bytes, accepted, reader', parser', closed')
  BY <1>1 DEF Inv, Core, Good, ReaderSound
<1>4. Admissible({}, session, path, parser', closed', Live)
  BY <1>1 DEF Admissible, Live, Inv, Core
<1> QED
  BY <1>1, <1>2, <1>3, <1>4, LeaveCore DEF Inv, TypeOK

LEMMA OpenCore ==
  ASSUME Inv, NEW k \in Key, NEW want \in Fingerprints, OpenSealed(k, want)
  PROVE  Core'
<1> DEFINE t == [session[k] EXCEPT !.age = 0]
           s == [session EXCEPT ![k] = t]
<1>1. /\ parser' = parser /\ closed' = closed /\ reader' = [inode |-> path[k], want |-> want]
      /\ session[k].owner # NoKey /\ session[k].sealed /\ path[k] # NoFile
      /\ Whole(session[k].offer.print) = want
  BY DEF OpenSealed, Ready, Live, Announced
<1>2. session[k] \in Sessions /\ path[k] \in Inode
  BY <1>1 DEF Inv, TypeOK, NoSession
<1>3. Good(session, path, bytes, accepted, reader, parser, closed) /\ closed \in BOOLEAN
  BY DEF Inv, Core, TypeOK
<1>4. session[k].offset = session[k].offer.size /\ bytes[path[k]] = want
  BY <1>1, <1>3 DEF Good, Sound
<1>5. t \in Sessions
  BY <1>2, UploadAssumption DEF Sessions, UploadAssumption
<1>6. /\ t.offset = session[k].offset /\ t.sealed = session[k].sealed
      /\ t.consuming = session[k].consuming /\ t.offer = session[k].offer
  BY <1>2 DEF Sessions
<1>7. session[k].offset \in Nat
  BY <1>2, UploadAssumption DEF Sessions, UploadAssumption
<1>8. Left({}, s, path, bytes, accepted, reader', session', path', bytes', accepted')
  BY DEF OpenSealed, Leave, Left, Touched
<1>9. \A j \in Key : s[j].owner # NoKey => j \in Live
  BY <1>1, <1>2 DEF Live, Inv, TypeOK, Sessions
<1>10. s[k].sealed /\ \A j \in Key : j # k => s[j] = session[j]
  BY <1>1, <1>2 DEF Inv, TypeOK, Sessions
<1> HIDE DEF t
<1>11. Continues(session, path, bytes, k, t)
  BY <1>1, <1>4, <1>6, <1>7 DEF Continues
<1>12. Good(s, path, bytes, accepted, reader, parser, closed)
  BY <1>3, <1>5, <1>11, UpdateGood
<1> HIDE DEF s
<1>13. ReaderSound(s, path, bytes, reader')
  <2>1. \A j \in Key : path[j] = path[k] => j = k
    BY <1>1, <1>3 DEF Good, Sound
  <2> QED
    BY <1>1, <1>2, <1>4, <1>10, <2>1 DEF ReaderSound
<1>14. Good(s, path, bytes, accepted, reader', parser', closed')
  BY <1>1, <1>12, <1>13 DEF Good
<1>15. Admissible({}, s, path, parser', closed', Live)
  BY <1>1, <1>9 DEF Admissible, Inv, Core
<1> QED
  BY <1>1, <1>3, <1>8, <1>14, <1>15, LeaveCore DEF Inv

LEMMA EndCore ==
  ASSUME Inv, EndConsume
  PROVE  Core'
<1>1. parser' = NoParser /\ reader' = reader /\ closed' = closed /\ parser # NoParser
  BY DEF EndConsume, NoParser
<1>2. Good(session, path, bytes, accepted, reader, parser, closed)
  BY DEF Inv, Core
<1>3. parser.key \in Key
  BY <1>1, <1>2 DEF Good, ParserSound
<1>4. Left({parser.key}, session, path, bytes, accepted, reader',
           session', path', bytes', accepted')
  BY DEF EndConsume, Leave, Left
<1>5. ParserSound(session, path, bytes, parser', closed')
  BY <1>1 DEF ParserSound, NoParser
<1>6. Good(session, path, bytes, accepted, reader', parser', closed')
  BY <1>1, <1>2, <1>5 DEF Good
<1>7. Admissible({parser.key}, session, path, parser', closed', Live)
  BY <1>1 DEF Admissible, Live, Inv, Core
<1> QED
  BY <1>1, <1>3, <1>4, <1>6, <1>7, LeaveCore DEF Inv, TypeOK

LEMMA CloseCore ==
  ASSUME Inv, Close
  PROVE  Core'
<1>1. parser' = parser /\ reader' = reader /\ closed' = TRUE
  BY DEF Close
<1>2. Left(Key, session, path, bytes, accepted, reader', session', path', bytes', accepted')
  BY DEF Close, Leave, Left
<1>3. Good(session, path, bytes, accepted, reader', parser', closed')
  BY <1>1 DEF Inv, Core, Good, ParserSound
<1>4. Admissible(Key, session, path, parser', closed', Live)
  BY <1>1 DEF Admissible, Live
<1> QED
  BY <1>1, <1>2, <1>3, <1>4, LeaveCore DEF Inv

(* Nothing is removed and no record gains or loses a session. *)
LEMMA SameCore ==
  ASSUME Inv, Good(session', path', bytes', accepted', reader', parser', closed'),
         path' = path, closed' = closed, \A k \in Key : session'[k].owner = session[k].owner
  PROVE  Core'
BY DEF Inv, Core, Live

LEMMA ConsumeCore ==
  ASSUME Inv, NEW k \in Key, NEW want \in Fingerprints, Consume(k, want)
  PROVE  Core'
<1> DEFINE t == [session[k] EXCEPT !.consuming = TRUE]
<1>1. /\ path' = path /\ closed' = closed /\ reader' = reader /\ bytes' = bytes
      /\ accepted' = accepted /\ session[k].owner # NoKey /\ session[k].sealed
      /\ parser' = [step |-> "hash", key |-> k, want |-> want, got |-> Empty]
      /\ session' = [session EXCEPT ![k] = t]
  BY DEF Consume, Ready, Live
<1>2. session[k] \in Sessions
  BY <1>1 DEF Inv, TypeOK, NoSession
<1>3. t \in Sessions /\ t.owner = session[k].owner /\ t.offset = session[k].offset
        /\ t.sealed = session[k].sealed /\ t.consuming /\ t.offer = session[k].offer
  BY <1>2 DEF Sessions
<1>4. Good(session, path, bytes, accepted, reader, parser, closed) /\ closed \in BOOLEAN
  BY DEF Inv, Core, TypeOK
<1>5. session[k].offset \in Nat
  BY <1>2, UploadAssumption DEF Sessions, UploadAssumption
<1> HIDE DEF t
<1>6. Continues(session, path, bytes, k, t)
  BY <1>1, <1>3, <1>4, <1>5 DEF Continues, Good, Sound
<1>7. Good(session', path, bytes, accepted, reader, parser, closed)
  <2>1. Good([session EXCEPT ![k] = t], path, bytes, accepted, reader, parser, closed)
    BY <1>3, <1>4, <1>6, UpdateGood
  <2> QED
    BY <1>1, <2>1
<1>8. session'[k] = t /\ \A j \in Key : session'[j].owner = session[j].owner
  BY <1>1, <1>3 DEF Inv, TypeOK
<1>9. ParserSound(session', path, bytes, parser', closed)
  BY <1>1, <1>3, <1>8 DEF ParserSound
<1>10. Good(session', path', bytes', accepted', reader', parser', closed')
  BY <1>1, <1>7, <1>9 DEF Good
<1> QED
  BY <1>1, <1>8, <1>10, SameCore

LEMMA ParserTypes ==
  ASSUME Inv
  PROVE  parser \in [step : {"idle", "hash", "parse", "rehash", "parsed", "refused"},
                     key : Key \cup {NoKey}, want : Contents, got : Contents]
BY DEF Inv, TypeOK

LEMMA CheckHashCore ==
  ASSUME Inv, CheckHash
  PROVE  Core'
<1>1. /\ session' = session /\ path' = path /\ bytes' = bytes /\ accepted' = accepted
      /\ reader' = reader /\ closed' = closed /\ parser.step \in {"hash", "rehash"}
      /\ parser' = [parser EXCEPT !.step = IF ~Matching THEN "refused"
                                       ELSE IF parser.step = "hash" THEN "parse" ELSE "parsed"]
  BY DEF CheckHash
<1>2. Good(session, path, bytes, accepted, reader, parser, closed)
  BY DEF Inv, Core
<1>3. /\ parser'.key = parser.key /\ parser'.want = parser.want /\ parser'.got = parser.got
      /\ parser'.step = IF ~Matching THEN "refused"
                        ELSE IF parser.step = "hash" THEN "parse" ELSE "parsed"
  BY <1>1, ParserTypes
<1>4. parser # NoParser
  BY <1>1 DEF NoParser
<1>5. ParserSound(session, path, bytes, parser', closed)
  BY <1>1, <1>2, <1>3, <1>4 DEF Good, ParserSound, Matching
<1> QED
  BY <1>1, <1>2, <1>5, SameCore DEF Good

LEMMA ParseCore ==
  ASSUME Inv, Parse
  PROVE  Core'
<1>1. /\ session' = session /\ path' = path /\ bytes' = bytes /\ accepted' = accepted
      /\ reader' = reader /\ closed' = closed /\ parser.step = "parse"
      /\ \/ /\ path[parser.key] # NoFile
            /\ parser' = [parser EXCEPT !.step = "rehash", !.got = bytes[path[parser.key]]]
         \/ parser' = [parser EXCEPT !.step = "refused"]
  BY DEF Parse
<1>2. Good(session, path, bytes, accepted, reader, parser, closed)
  BY DEF Inv, Core
<1>3. /\ parser'.key = parser.key /\ parser'.want = parser.want
      /\ \/ /\ path[parser.key] # NoFile /\ parser'.step = "rehash"
            /\ parser'.got = bytes[path[parser.key]]
         \/ parser'.step = "refused"
  BY <1>1, ParserTypes
<1>4. parser # NoParser
  BY <1>1 DEF NoParser
<1>5. ParserSound(session, path, bytes, parser', closed)
  BY <1>1, <1>2, <1>3, <1>4 DEF Good, ParserSound
<1> QED
  BY <1>1, <1>2, <1>5, SameCore DEF Good

LEMMA TickCore ==
  ASSUME Inv, Tick
  PROVE  Core' /\ session' \in [Key -> Sessions \cup {NoSession}]
<1>1. /\ path' = path /\ bytes' = bytes /\ accepted' = accepted
      /\ reader' = reader /\ closed' = closed /\ parser' = parser
      /\ session' = [k \in Key |-> IF k \in Live /\ session[k].age <= TTL
                                   THEN [session[k] EXCEPT !.age = @ + 1] ELSE session[k]]
  BY DEF Tick
<1>2. Good(session, path, bytes, accepted, reader, parser, closed)
  BY DEF Inv, Core
<1>3. ASSUME NEW k \in Key
      PROVE /\ session'[k] \in Sessions \cup {NoSession}
            /\ session'[k].owner = session[k].owner /\ session'[k].offer = session[k].offer
            /\ session'[k].offset = session[k].offset /\ session'[k].sealed = session[k].sealed
            /\ session'[k].consuming = session[k].consuming
            /\ session'[k].owner = NoKey => session'[k] = session[k]
  <2>1. session[k] \in Sessions \cup {NoSession}
    BY DEF Inv, TypeOK
  <2>2. CASE k \in Live /\ session[k].age <= TTL
    <3>1. session[k] \in Sessions /\ session[k].owner # NoKey
      BY <2>1, <2>2 DEF Live, NoSession
    <3>2. session[k].age + 1 \in 0 .. TTL + 1
      BY <2>2, <3>1, UploadAssumption DEF Sessions, UploadAssumption
    <3>3. session'[k] = [session[k] EXCEPT !.age = session[k].age + 1]
      BY <1>1, <2>2
    <3> QED
      BY <3>1, <3>2, <3>3 DEF Sessions
  <2>3. CASE ~(k \in Live /\ session[k].age <= TTL)
    BY <1>1, <2>1, <2>3
  <2> QED
    BY <2>2, <2>3
<1>4. session' \in [Key -> Sessions \cup {NoSession}]
  <2>1. session' = [k \in Key |-> session'[k]]
    BY <1>1
  <2> QED
    BY <1>3, <2>1
<1>5. Types(session', path, bytes, accepted)
  BY <1>2, <1>4 DEF Good, Types
<1>6. Sound(session', path, bytes, accepted)
  BY <1>2, <1>3 DEF Good, Sound
<1>7. ReaderSound(session', path, bytes, reader)
  BY <1>2, <1>3 DEF Good, ReaderSound
<1>8. ParserSound(session', path, bytes, parser, closed)
  BY <1>2, <1>3 DEF Good, ParserSound
<1>9. Good(session', path', bytes', accepted', reader', parser', closed')
  BY <1>1, <1>5, <1>6, <1>7, <1>8 DEF Good
<1> QED
  BY <1>1, <1>3, <1>4, <1>9, SameCore

LEMMA PieceFacts ==
  ASSUME NEW piece \in Pieces
  PROVE  /\ Len(piece) \in Nat \ {0} /\ DOMAIN piece = 1 .. Len(piece)
         /\ \A i \in 1 .. Len(piece) : piece[i] \in Data
<1>1. PICK n \in Position : piece \in [1 .. n -> Data]
  BY DEF Pieces, Prints
<1>2. n \in Nat \ {0} /\ piece \in Seq(Data)
  BY <1>1 DEF Position
<1>3. Len(piece) = n
  BY <1>1, <1>2, LenProperties
<1> QED
  BY <1>1, <1>2, <1>3

(* What an appended piece leaves, whether all of it was written or not. *)
LEMMA AppendGood ==
  ASSUME Inv, NEW k \in Key, NEW o \in Owner, NEW at \in 0 .. MaxSize, NEW piece \in Pieces,
         NEW n \in 0 .. Len(piece), Usable(k, o), Appends(k, at, piece)
  PROVE  /\ Good(Touched(k), path, Written(k, at, piece, n), accepted, reader, parser, closed)
         /\ Good(Advanced(k, at, piece), path, Written(k, at, piece, n), accepted, reader,
                 parser, closed)
<1> DEFINE f == [i \in Position |-> IF i \in at + 1 .. at + n
                                    THEN piece[i - at] ELSE bytes[path[k]][i]]
           t == [session[k] EXCEPT !.age = 0]
           u == [session[k] EXCEPT !.age = 0, !.offset = at + Len(piece)]
           b == [bytes EXCEPT ![path[k]] = f]
<1>1. /\ session[k] \in Sessions /\ session[k].owner # NoKey /\ ~session[k].consuming
      /\ path[k] \in Inode /\ ~closed /\ path[k] # NoFile
  BY UsableFacts, UploadAssumption DEF UploadAssumption
<1>2. Good(session, path, bytes, accepted, reader, parser, FALSE)
        /\ bytes \in [Inode -> Contents]
        /\ session \in [Key -> Sessions \cup {NoSession}] /\ closed = FALSE
  BY <1>1 DEF Inv, Core, TypeOK
<1>3. /\ at = session[k].offset /\ ~session[k].sealed
      /\ at + Len(piece) <= session[k].offer.size
  BY DEF Appends
<1>4. /\ Len(piece) \in Nat \ {0} /\ \A i \in 1 .. Len(piece) : piece[i] \in Data
  BY PieceFacts
<1>5. f \in Contents
  <2>1. bytes[path[k]] \in Contents
    BY <1>1, <1>2
  <2>2. ASSUME NEW i \in Position, i \in at + 1 .. at + n PROVE i - at \in 1 .. Len(piece)
    BY <1>4, <2>2 DEF Position
  <2> QED
    BY <1>4, <2>1, <2>2 DEF Contents
<1>6. \A i \in Position : i <= session[k].offset => f[i] = bytes[path[k]][i]
  BY <1>3 DEF Position
<1>7. Written(k, at, piece, n) = b
  BY <1>1, <1>2 DEF Written
<1>8. Touched(k) = [session EXCEPT ![k] = t]
  BY <1>1, <1>2 DEF Touched
<1>9. Advanced(k, at, piece) = [session EXCEPT ![k] = u]
  BY <1>1, <1>2, <1>8 DEF Advanced, Sessions
<1>10. 0 \in 0 .. TTL + 1 /\ session[k].offset \in Nat /\ session[k].offer.size \in Position
  BY <1>1, UploadAssumption DEF Sessions, UploadAssumption
<1>11. at + Len(piece) \in 0 .. MaxSize
  BY <1>3, <1>4, <1>10, UploadAssumption DEF UploadAssumption, Position
<1>12. /\ t \in Sessions /\ t.owner # NoKey /\ t.offset = session[k].offset
       /\ ~t.sealed /\ t.consuming = session[k].consuming
  BY <1>1, <1>3, <1>10 DEF Sessions
<1>13. /\ u \in Sessions /\ u.owner # NoKey /\ u.offset = at + Len(piece)
       /\ ~u.sealed /\ u.consuming = session[k].consuming
  BY <1>1, <1>3, <1>10, <1>11 DEF Sessions
<1> HIDE DEF t, u
<1>14. Good(session, path, b, accepted, reader, parser, FALSE)
  <2> HIDE DEF f
  <2> QED
    BY <1>1, <1>2, <1>3, <1>5, <1>6, WriteGood
<1> HIDE DEF f, b
<1>15. Continues(session, path, b, k, t)
  BY <1>1, <1>3, <1>10, <1>12 DEF Continues
<1>16. Continues(session, path, b, k, u)
  BY <1>1, <1>3, <1>4, <1>10, <1>13 DEF Continues
<1>17. Good([session EXCEPT ![k] = t], path, b, accepted, reader, parser, FALSE)
  BY <1>12, <1>14, <1>15, UpdateGood
<1>18. Good([session EXCEPT ![k] = u], path, b, accepted, reader, parser, FALSE)
  BY <1>13, <1>14, <1>16, UpdateGood
<1> QED
  BY <1>2, <1>7, <1>8, <1>9, <1>17, <1>18

LEMMA UsableAdmissible ==
  ASSUME Inv, NEW k \in Key, NEW o \in Owner, Usable(k, o), parser' = parser, closed' = closed,
         NEW s, \A j \in Key : j # k => s[j] = session[j]
  PROVE  Admissible(Expired, s, path, parser', closed', Live)
BY ExpiredSpares, UsableFacts DEF Admissible, Live, Inv, Core

LEMMA ChunkFailsCore ==
  ASSUME Inv, NEW k \in Key, NEW o \in Owner, NEW at \in 0 .. MaxSize, NEW piece \in Pieces,
         ChunkFails(k, o, at, piece)
  PROVE  Core'
<1>1. /\ Usable(k, o) /\ Appends(k, at, piece)
      /\ parser' = parser /\ reader' = reader /\ closed' = closed
  BY DEF ChunkFails
<1>2. PICK n \in 0 .. Len(piece), s \in {Touched(k), Advanced(k, at, piece)} :
        Left(Expired, s, path, Written(k, at, piece, n), accepted, reader',
             session', path', bytes', accepted')
  BY DEF ChunkFails, Leave, Left
<1>3. Good(s, path, Written(k, at, piece, n), accepted, reader', parser', closed')
  BY <1>1, AppendGood
<1>4. \A j \in Key : j # k => s[j] = session[j]
  BY <1>1 DEF Touched, Advanced, Inv, TypeOK
<1>5. Admissible(Expired, s, path, parser', closed', Live)
  BY <1>1, <1>4, UsableAdmissible
<1> QED
  BY <1>1, <1>2, <1>3, <1>5, ExpiredSpares, LeaveCore DEF Inv, TypeOK

LEMMA ChunkCore ==
  ASSUME Inv, NEW k \in Key, NEW o \in Owner, NEW at \in 0 .. MaxSize, NEW piece \in Pieces,
         Chunk(k, o, at, piece)
  PROVE  Core'
<1> DEFINE e == {<<at + i, piece[i]>> : i \in DOMAIN piece}
           noted == [accepted EXCEPT ![k] = @ \cup e]
<1>1. /\ Usable(k, o) /\ parser' = parser /\ reader' = reader /\ closed' = closed
  BY DEF Chunk
<1>2. /\ session[k] \in Sessions /\ session[k].owner # NoKey /\ path[k] \in Inode /\ ~closed
      /\ path[k] # NoFile
  BY <1>1, UsableFacts, UploadAssumption DEF UploadAssumption
<1>3. /\ Good(session, path, bytes, accepted, reader, parser, closed) /\ closed \in BOOLEAN
      /\ session \in [Key -> Sessions \cup {NoSession}] /\ bytes \in [Inode -> Contents]
  BY DEF Inv, Core, TypeOK
<1>4. /\ Len(piece) \in Nat \ {0} /\ DOMAIN piece = 1 .. Len(piece)
      /\ \A i \in 1 .. Len(piece) : piece[i] \in Data
  BY PieceFacts
<1>5. session[k].offset \in 0 .. MaxSize /\ session[k].offer.size \in Position /\ 0 \in 0 .. TTL + 1
  BY <1>2, UploadAssumption DEF Sessions, UploadAssumption
<1>6. CASE /\ Repeats(k, at, piece)
           /\ Leave(Expired, Touched(k), path, bytes, noted,
                    IF failed.key = k THEN NoFailure ELSE failed)
  <2> DEFINE t == [session[k] EXCEPT !.age = 0]
  <2>1. /\ at + Len(piece) <= session[k].offset
        /\ \A i \in 1 .. Len(piece) : bytes[path[k]][at + i] = piece[i]
    BY <1>4, <1>6 DEF Repeats
  <2>2. t \in Sessions /\ Touched(k) = [session EXCEPT ![k] = t]
    BY <1>1, TouchedRecord
  <2>3. /\ t.offset = session[k].offset /\ t.sealed = session[k].sealed
        /\ t.consuming = session[k].consuming /\ t.offer = session[k].offer
    BY <1>2 DEF Sessions
  <2> HIDE DEF t
  <2>4. Continues(session, path, bytes, k, t)
    BY <1>2, <1>3, <1>5, <2>3 DEF Continues, Good, Sound
  <2>5. Good(Touched(k), path, bytes, accepted, reader, parser, closed)
    <3>1. Good([session EXCEPT ![k] = t], path, bytes, accepted, reader, parser, closed)
      <4>1. t \in Sessions
        BY <2>2
      <4>2. Good(session, path, bytes, accepted, reader, parser, closed) /\ closed \in BOOLEAN
        BY <1>3
      <4> QED
        BY <2>4, <4>1, <4>2, UpdateGood
    <3> QED
      BY <2>2, <3>1
  <2>6. Touched(k)[k].offset = session[k].offset
    BY <1>3, <2>2, <2>3
  <2>7. e \in SUBSET (Position \X Data)
    <3>1. ASSUME NEW i \in 1 .. Len(piece) PROVE at + i \in Position /\ piece[i] \in Data
      BY <1>4, <1>5, <2>1, UploadAssumption DEF Position, UploadAssumption
    <3> QED
      BY <1>4, <3>1
  <2>8. \A entry \in e : entry[1] <= Touched(k)[k].offset /\ bytes[path[k]][entry[1]] = entry[2]
    BY <1>4, <1>5, <2>1, <2>6
  <2> HIDE DEF e
  <2>9. Good(Touched(k), path, bytes, noted, reader, parser, closed)
    BY <1>2, <1>3, <2>5, <2>7, <2>8, AcknowledgeGood
  <2> HIDE DEF noted
  <2>10. Left(Expired, Touched(k), path, bytes, noted, reader', session', path', bytes', accepted')
    BY <1>6 DEF Leave, Left
  <2>11. Admissible(Expired, Touched(k), path, parser', closed', Live)
    <3>1. \A j \in Key : j # k => Touched(k)[j] = session[j]
      BY <1>3 DEF Touched
    <3> QED
      BY <1>1, <3>1, UsableAdmissible
  <2> QED
    BY <1>1, <1>3, <2>9, <2>10, <2>11, ExpiredSpares, LeaveCore DEF Inv
<1>7. CASE /\ Appends(k, at, piece)
           /\ Leave(Expired, Advanced(k, at, piece), path, Written(k, at, piece, Len(piece)),
                    noted, IF failed.key = k THEN NoFailure ELSE failed)
  <2> DEFINE s == Advanced(k, at, piece)
             b == Written(k, at, piece, Len(piece))
  <2>1. at = session[k].offset /\ at + Len(piece) <= session[k].offer.size
    BY <1>7 DEF Appends
  <2>2. Len(piece) \in 0 .. Len(piece)
    BY <1>4
  <2>3. Good(s, path, b, accepted, reader, parser, closed)
    BY <1>1, <1>7, <2>2, AppendGood
  <2>4. s[k].offset = at + Len(piece) /\ \A j \in Key : j # k => s[j] = session[j]
    BY <1>2, <1>3 DEF Advanced, Touched, Sessions
  <2>5. ASSUME NEW i \in 1 .. Len(piece)
        PROVE at + i \in Position /\ piece[i] \in Data /\ b[path[k]][at + i] = piece[i]
    <3>1. at + i \in Position /\ at + i \in at + 1 .. at + Len(piece) /\ at + i - at = i
      BY <1>4, <1>5, <2>1, UploadAssumption DEF Position, UploadAssumption
    <3> QED
      BY <1>2, <1>3, <1>4, <3>1 DEF Written
  <2>6. e \in SUBSET (Position \X Data)
    BY <1>4, <2>5
  <2> HIDE DEF s, b
  <2>7. \A entry \in e : entry[1] <= s[k].offset /\ b[path[k]][entry[1]] = entry[2]
    BY <1>4, <2>4, <2>5
  <2> HIDE DEF e
  <2>8. Good(s, path, b, noted, reader, parser, closed)
    BY <1>2, <1>3, <2>3, <2>6, <2>7, AcknowledgeGood
  <2> HIDE DEF noted
  <2>9. Left(Expired, s, path, b, noted, reader', session', path', bytes', accepted')
    BY <1>7 DEF Leave, Left, s, b
  <2>10. Admissible(Expired, s, path, parser', closed', Live)
    BY <1>1, <2>4, UsableAdmissible
  <2> QED
    BY <1>1, <1>3, <2>8, <2>9, <2>10, ExpiredSpares, LeaveCore DEF Inv
<1> QED
  BY <1>6, <1>7 DEF Chunk

(* A new session on an inode that nothing refers to. *)
LEMMA NewGood ==
  ASSUME NEW s, NEW p, NEW b, NEW acc, NEW r, NEW pa, NEW k \in Key, NEW i \in Inode,
         NEW t \in Sessions, Good(s, p, b, acc, r, pa, FALSE),
         p[k] = NoFile, t.owner # NoKey, ~t.sealed, i # r.inode,
         \A j \in Key : p[j] # i
  PROVE  Good([s EXCEPT ![k] = t], [p EXCEPT ![k] = i], [b EXCEPT ![i] = Empty],
              [acc EXCEPT ![k] = {}], r, pa, FALSE)
<1> DEFINE s1 == [s EXCEPT ![k] = t]
           p1 == [p EXCEPT ![k] = i]
           b1 == [b EXCEPT ![i] = Empty]
           acc1 == [acc EXCEPT ![k] = {}]
<1>1. Types(s, p, b, acc) /\ Sound(s, p, b, acc) /\ ReaderSound(s, p, b, r)
        /\ ParserSound(s, p, b, pa, FALSE)
  BY DEF Good
<1>2. Empty \in Contents
  BY DEF Empty, Contents
<1>3. Types(s1, p1, b1, acc1)
  BY <1>1, <1>2 DEF Types
<1>4. /\ s1[k] = t /\ p1[k] = i /\ acc1[k] = {} /\ i # NoFile
      /\ \A j \in Key : j # k => s1[j] = s[j] /\ p1[j] = p[j] /\ acc1[j] = acc[j]
      /\ \A x \in Inode : x # i => b1[x] = b[x]
  BY <1>1, UploadAssumption DEF Types, UploadAssumption
<1> HIDE DEF s1, p1, b1, acc1
<1>5. \A j \in Key : p[j] # NoFile => p[j] \in Inode /\ j # k /\ b1[p[j]] = b[p[j]]
  BY <1>1, <1>4 DEF Types
<1>6. \A j \in Key : s[j].sealed => p[j] # NoFile
  BY <1>1 DEF Sound, NoSession
<1>7. Sound(s1, p1, b1, acc1)
  <2> SUFFICES ASSUME NEW j \in Key
      PROVE /\ p1[j] # NoFile <=> s1[j].owner # NoKey
            /\ s1[j].owner = NoKey => s1[j] = NoSession
            /\ \A x \in Key : p1[x] = p1[j] /\ p1[j] # NoFile => x = j
            /\ \A entry \in acc1[j] : /\ p1[j] # NoFile
                                      /\ entry[1] <= s1[j].offset
                                      /\ b1[p1[j]][entry[1]] = entry[2]
            /\ s1[j].sealed => /\ s1[j].offset = s1[j].offer.size
                               /\ b1[p1[j]] = Whole(s1[j].offer.print)
    BY DEF Sound
  <2>1. CASE j = k
    BY <1>4, <2>1
  <2>2. CASE j # k
    <3>1. \A x \in Key : p1[x] = p1[j] /\ p1[j] # NoFile => x = j
      BY <1>1, <1>4, <2>2 DEF Sound
    <3> QED
      BY <1>1, <1>4, <1>5, <1>6, <2>2, <3>1 DEF Sound
  <2> QED
    BY <2>1, <2>2
<1>8. ReaderSound(s1, p1, b1, r)
  BY <1>1, <1>4 DEF ReaderSound
<1>9. ParserSound(s1, p1, b1, pa, FALSE)
  <2>1. CASE pa = NoParser
    BY <2>1 DEF ParserSound, NoParser
  <2>2. CASE pa # NoParser
    <3>1. pa.key \in Key /\ s[pa.key].sealed
      BY <1>1, <2>2 DEF ParserSound
    <3>2. pa.key # k
      BY <1>6, <3>1
    <3> QED
      BY <1>1, <1>4, <1>5, <3>1, <3>2 DEF ParserSound
  <2> QED
    BY <2>1, <2>2
<1>10. Good(s1, p1, b1, acc1, r, pa, FALSE)
  BY <1>3, <1>7, <1>8, <1>9 DEF Good
<1> QED
  BY <1>10 DEF s1, p1, b1, acc1

LEMMA StartCore ==
  ASSUME Inv, NEW k \in Key, NEW o \in Owner, NEW offer \in Offer, Start(k, o, offer)
  PROVE  Core'
<1> DEFINE t == NewSession(o, offer)
           s0 == [j \in Key |-> IF j \in Expired THEN NoSession ELSE session[j]]
           p0 == [j \in Key |-> IF j \in Expired THEN NoFile ELSE path[j]]
           b0 == Freed(bytes, p0, reader)
           acc0 == [j \in Key |-> IF j \in Expired THEN {} ELSE accepted[j]]
<1>1. /\ k \notin Live \ Expired /\ Cardinality(Live \ Expired) < Capacity /\ ~closed
      /\ path[k] = NoFile \/ k \in Expired
      /\ parser' = parser /\ reader' = reader /\ closed' = closed
  BY DEF Start, Room
<1> DEFINE spare == Inode \ ({path[j] : j \in Key \ Expired} \cup {reader.inode})
<1>0. PICK i \in spare :
        Leave(Expired \ {k}, [session EXCEPT ![k] = t], [path EXCEPT ![k] = i],
              [bytes EXCEPT ![i] = Empty], [accepted EXCEPT ![k] = {}],
              IF failed.key = k THEN NoFailure ELSE failed)
  BY DEF Start
<1>2. Left(Expired \ {k}, [session EXCEPT ![k] = t], [path EXCEPT ![k] = i],
           [bytes EXCEPT ![i] = Empty], [accepted EXCEPT ![k] = {}], reader,
           session', path', bytes', accepted')
  <2> HIDE DEF t, spare
  <2> QED
    BY <1>0, <1>1 DEF Leave, Left
<1>3. /\ session \in [Key -> Sessions \cup {NoSession}]
      /\ path \in [Key -> Inode \cup {NoFile}] /\ bytes \in [Inode -> Contents]
      /\ accepted \in [Key -> SUBSET (Position \X Data)]
      /\ Good(session, path, bytes, accepted, reader, parser, FALSE)
      /\ closed = FALSE
  BY <1>1 DEF Inv, TypeOK, Core
<1>4. parser = NoParser \/ FALSE \/ parser.key \notin Expired
  BY <1>1, ExpiredSpares
<1>5. Good(s0, p0, b0, acc0, reader, parser, FALSE)
  <2> HIDE DEF s0, p0, b0, acc0
  <2>1. Left(Expired, session, path, bytes, accepted, reader, s0, p0, b0, acc0)
    BY DEF Left, s0, p0, b0, acc0
  <2> QED
    BY <1>3, <1>4, <2>1, ExpiredSpares, LeaveGood
<1>6. t \in Sessions /\ t.owner # NoKey /\ ~t.sealed
  <2>2. 0 \in 0 .. MaxSize /\ 0 \in 0 .. TTL + 1 /\ NoKey \notin Owner
    BY UploadAssumption DEF UploadAssumption
  <2> QED
    BY <2>2 DEF Sessions, NewSession
<1> HIDE DEF t
<1>7. i \in Inode /\ i # reader.inode /\ i # NoFile /\ p0[k] = NoFile
  BY <1>0, <1>1, UploadAssumption DEF UploadAssumption
<1>8. \A j \in Key : p0[j] # i
  BY <1>0, <1>7
<1>9. Good([s0 EXCEPT ![k] = t], [p0 EXCEPT ![k] = i], [b0 EXCEPT ![i] = Empty],
           [acc0 EXCEPT ![k] = {}], reader, parser, FALSE)
  <2> HIDE DEF s0, p0, b0, acc0
  <2> QED
    BY <1>5, <1>6, <1>7, <1>8, NewGood
<1>10. session' = [s0 EXCEPT ![k] = t]
  BY <1>2, <1>3 DEF Left
<1>11. path' = [p0 EXCEPT ![k] = i]
  BY <1>2, <1>3 DEF Left
<1>12. accepted' = [acc0 EXCEPT ![k] = {}]
  BY <1>2, <1>3 DEF Left
<1>13. bytes' = [b0 EXCEPT ![i] = Empty]
  <2>1. bytes' = Freed([bytes EXCEPT ![i] = Empty], path', reader)
    BY <1>2 DEF Left
  <2>2. \A x \in Inode : x # i => ((\E j \in Key : path'[j] = x) <=> (\E j \in Key : p0[j] = x))
    <3>1. \A j \in Key : j # k => path'[j] = p0[j]
      BY <1>11
    <3>2. path'[k] = i
      BY <1>11
    <3> HIDE DEF p0
    <3> QED
      BY <1>7, <3>1, <3>2, UploadAssumption DEF UploadAssumption
  <2>3. path'[k] = i
    BY <1>11
  <2> HIDE DEF p0
  <2> QED
    BY <1>3, <1>7, <2>1, <2>2, <2>3 DEF Freed
<1>14. Good(session', path', bytes', accepted', reader', parser', closed')
  BY <1>1, <1>3, <1>9, <1>10, <1>11, <1>12, <1>13
<1>15. Cardinality(Live') <= Capacity
  <2>1. Live' \subseteq (Live \ Expired) \cup {k}
    BY <1>3, <1>10 DEF Live, NoSession
  <2>2. IsFiniteSet(Live \ Expired)
    BY FS_Subset, UploadAssumption DEF Live, UploadAssumption
  <2>3. /\ IsFiniteSet((Live \ Expired) \cup {k})
        /\ Cardinality((Live \ Expired) \cup {k}) <= Cardinality(Live \ Expired) + 1
        /\ Cardinality(Live \ Expired) \in Nat
    <3>1. Cardinality(Live \ Expired) \in Nat
      BY <2>2, FS_CardinalityType
    <3> HIDE DEF t
    <3>2. IsFiniteSet((Live \ Expired) \cup {k})
      BY <2>2, FS_AddElement
    <3>3. Cardinality((Live \ Expired) \cup {k}) =
            IF k \in Live \ Expired THEN Cardinality(Live \ Expired)
            ELSE Cardinality(Live \ Expired) + 1
      BY <2>2, FS_AddElement
    <3> QED
      BY <1>1, <3>1, <3>2, <3>3
  <2>4. /\ Cardinality(Live') <= Cardinality((Live \ Expired) \cup {k})
        /\ Cardinality(Live') \in Nat /\ Cardinality((Live \ Expired) \cup {k}) \in Nat
    BY <2>1, <2>3, FS_Subset, FS_CardinalityType
  <2> QED
    BY <1>1, <2>3, <2>4, UploadAssumption DEF UploadAssumption
<1> QED
  BY <1>1, <1>14, <1>15 DEF Core

----------------------------------------------------------------------------
(* The types of the rest, and the invariant. *)

Failures == [key : Key \cup {NoKey}, at : 0 .. MaxSize, piece : Pieces \cup {Empty}]
Parsers == [step : {"idle", "hash", "parse", "rehash", "parsed", "refused"},
            key : Key \cup {NoKey}, want : Contents, got : Contents]
Readers == [inode : Inode \cup {NoFile}, want : Contents]

RestTyped == /\ closed \in BOOLEAN /\ parser \in Parsers /\ reader \in Readers
             /\ failed \in Failures /\ faults \in 0 .. MaxFaults

LEMMA Blanks == NoFailure \in Failures /\ NoParser \in Parsers /\ NoReader \in Readers
<1>1. Empty \in Contents
  BY DEF Empty, Contents
<1>2. 0 \in 0 .. MaxSize
  BY UploadAssumption DEF UploadAssumption
<1> QED
  BY <1>1, <1>2 DEF NoFailure, Failures, NoParser, Parsers, NoReader, Readers

LEMMA FingerprintType == Fingerprints \subseteq Contents
BY UploadAssumption DEF Fingerprints, Whole, Contents, UploadAssumption, Prints, Position

LEMMA InitInv == Init => Inv
<1> SUFFICES ASSUME Init PROVE Inv
  OBVIOUS
<1>1. Empty \in Contents /\ 0 \in 0 .. MaxFaults /\ Capacity \in Nat
  BY UploadAssumption DEF Empty, Contents, UploadAssumption
<1>2. TypeOK
  BY <1>1, Blanks DEF Init, TypeOK, Failures, Parsers, Readers
<1>3. Good(session, path, bytes, accepted, reader, parser, closed)
  BY <1>2 DEF Init, TypeOK, Good, Types, Sound, ReaderSound, ParserSound, NoSession, NoParser
<1>4. Live = {}
  BY DEF Init, Live, NoSession
<1> QED
  BY <1>1, <1>2, <1>3, <1>4, FS_EmptySet DEF Inv, Core, Init, Spared, NoSession

LEMMA StepRestTyped ==
  ASSUME Inv, [Next]_vars
  PROVE  RestTyped'
<1> USE Blanks
<1>1. RestTyped /\ path \in [Key -> Inode \cup {NoFile}] /\ bytes \in [Inode -> Contents]
  BY DEF Inv, TypeOK, RestTyped, Failures, Parsers, Readers
<1>2. CASE RefusedRequest
  BY <1>1, <1>2 DEF RefusedRequest, Leave, RestTyped
<1>3. ASSUME NEW k \in Key, NEW o \in Owner, Request(k, o)
      PROVE  RestTyped'
  <2>1. CASE TouchingRequest(k, o)
    BY <1>1, <2>1 DEF TouchingRequest, Leave, RestTyped
  <2>2. ASSUME NEW offer \in Offer, Start(k, o, offer) PROVE RestTyped'
    BY <1>1, <2>2 DEF Start, Leave, RestTyped
  <2>3. ASSUME NEW at \in 0 .. MaxSize, NEW piece \in Pieces, Chunk(k, o, at, piece)
        PROVE RestTyped'
    BY <1>1, <2>3 DEF Chunk, Leave, RestTyped
  <2>4. ASSUME NEW at \in 0 .. MaxSize, NEW piece \in Pieces, ChunkFails(k, o, at, piece)
        PROVE RestTyped'
    <3>1. [key |-> k, at |-> at, piece |-> piece] \in Failures
      BY DEF Failures
    <3>2. failed' \in Failures
      BY <2>4, <3>1 DEF ChunkFails, Leave
    <3>3. faults' \in 0 .. MaxFaults
      BY <1>1, <2>4, UploadAssumption DEF ChunkFails, RestTyped, UploadAssumption
    <3> QED
      BY <1>1, <2>4, <3>2, <3>3 DEF ChunkFails, RestTyped
  <2>5. CASE Seal(k, o)
    BY <1>1, <2>5 DEF Seal, Leave, RestTyped
  <2>6. CASE Discard(k, o)
    BY <1>1, <2>6 DEF Discard, Leave, RestTyped
  <2> QED
    BY <1>3, <2>1, <2>2, <2>3, <2>4, <2>5, <2>6 DEF Request
<1>4. ASSUME NEW k \in Key, NEW want \in Fingerprints, OpenSealed(k, want) PROVE RestTyped'
  <2>1. path[k] \in Inode \cup {NoFile} /\ want \in Contents
    BY <1>1, FingerprintType
  <2>2. reader' \in Readers
    BY <1>4, <2>1 DEF OpenSealed, Readers
  <2> QED
    BY <1>1, <1>4, <2>2 DEF OpenSealed, Leave, RestTyped
<1>5. ASSUME NEW k \in Key, NEW want \in Fingerprints, Consume(k, want) PROVE RestTyped'
  <2>1. Empty \in Contents /\ want \in Contents
    BY FingerprintType DEF Empty, Contents
  <2>2. parser' \in Parsers
    BY <1>5, <2>1 DEF Consume, Parsers
  <2> QED
    BY <1>1, <1>5, <2>2 DEF Consume, RestTyped
<1>6. CASE CloseReader
  BY <1>1, <1>6 DEF CloseReader, Leave, RestTyped
<1>7. CASE CheckHash
  BY <1>1, <1>7 DEF CheckHash, RestTyped, Parsers
<1>8. CASE Parse
  <2>1. path[parser.key] # NoFile => bytes[path[parser.key]] \in Contents
    <3>1. parser.key \in Key
      BY <1>8 DEF Parse, Inv, Core, Good, ParserSound, NoParser
    <3> QED
      BY <1>1, <3>1
  <2> QED
    BY <1>1, <1>8, <2>1 DEF Parse, RestTyped, Parsers
<1>9. CASE EndConsume
  BY <1>1, <1>9 DEF EndConsume, Leave, RestTyped
<1>10. CASE Close
  BY <1>1, <1>10 DEF Close, Leave, RestTyped
<1>11. CASE Tick
  BY <1>1, <1>11 DEF Tick, RestTyped
<1>12. CASE UNCHANGED vars
  BY <1>1, <1>12 DEF vars, RestTyped
<1> QED
  BY <1>2, <1>3, <1>4, <1>5, <1>6, <1>7, <1>8, <1>9, <1>10, <1>11, <1>12 DEF Next

LEMMA StepCore ==
  ASSUME Inv, [Next]_vars
  PROVE  Core'
<1>1. ASSUME NEW k \in Key, NEW o \in Owner, Request(k, o) PROVE Core'
  BY <1>1, TouchingCore, StartCore, ChunkCore, ChunkFailsCore, SealCore, DiscardCore DEF Request
<1>2. CASE UNCHANGED vars
  BY <1>2 DEF vars, Inv, Core, Live
<1> QED
  BY <1>1, <1>2, RefusedCore, OpenCore, ConsumeCore, ReaderCore, CheckHashCore, ParseCore,
     EndCore, CloseCore, TickCore DEF Next

(* A step that removes sessions, marks none and leaves the import alone. *)
LEMMA LeaveSpared ==
  ASSUME Inv, NEW gone, NEW s, NEW p, NEW b, NEW acc, NEW fail,
         Leave(gone, s, p, b, acc, fail), parser' = parser \/ parser.key \in gone,
         \A k \in Key : s[k].consuming => session[k].consuming
  PROVE  Spared'
<1> SUFFICES ASSUME NEW k \in Key, session'[k].consuming PROVE parser'.key = k
  BY DEF Spared
<1>1. k \notin gone /\ session[k].consuming
  BY DEF NoSession, Leave
<1> QED
  BY <1>1 DEF Inv, Spared

LEMMA TouchedConsuming ==
  ASSUME Inv, NEW k \in Key
  PROVE  \A j \in Key : Touched(k)[j].consuming => session[j].consuming
BY DEF Inv, TypeOK, Touched, Sessions, NoSession

LEMMA RequestSpared ==
  ASSUME Inv, NEW k \in Key, NEW o \in Owner, Request(k, o)
  PROVE  Spared'
<1> USE TouchedConsuming
<1>1. session \in [Key -> Sessions \cup {NoSession}]
  BY DEF Inv, TypeOK
<1>2. CASE TouchingRequest(k, o)
  BY <1>2, LeaveSpared DEF TouchingRequest
<1>3. ASSUME NEW offer \in Offer, Start(k, o, offer) PROVE Spared'
  <2>1. \A j \in Key : [session EXCEPT ![k] = NewSession(o, offer)][j].consuming
                          => session[j].consuming
    BY <1>1 DEF NewSession
  <2> HIDE DEF NewSession
  <2> QED
    BY <1>3, <2>1, LeaveSpared DEF Start
<1>4. ASSUME NEW at \in 0 .. MaxSize, NEW piece \in Pieces
      PROVE  \A j \in Key : Advanced(k, at, piece)[j].consuming => session[j].consuming
  BY <1>1 DEF Advanced, Touched, Sessions, NoSession
<1>5. ASSUME NEW at \in 0 .. MaxSize, NEW piece \in Pieces, Chunk(k, o, at, piece)
      PROVE  Spared'
  BY <1>4, <1>5, LeaveSpared DEF Chunk
<1>6. ASSUME NEW at \in 0 .. MaxSize, NEW piece \in Pieces, ChunkFails(k, o, at, piece)
      PROVE  Spared'
  BY <1>4, <1>6, LeaveSpared DEF ChunkFails
<1>7. CASE Seal(k, o)
  <2>1. \A j \in Key : [Touched(k) EXCEPT ![k].sealed = TRUE][j].consuming
                          => session[j].consuming
    BY <1>1 DEF Touched, Sessions, NoSession
  <2> QED
    BY <1>7, <2>1, LeaveSpared DEF Seal
<1>8. CASE Discard(k, o)
  BY <1>8, LeaveSpared DEF Discard
<1> QED
  BY <1>2, <1>3, <1>5, <1>6, <1>7, <1>8 DEF Request

LEMMA StepSpared ==
  ASSUME Inv, [Next]_vars
  PROVE  Spared'
<1>1. session \in [Key -> Sessions \cup {NoSession}]
  BY DEF Inv, TypeOK
<1>2. CASE RefusedRequest
  BY <1>2, LeaveSpared DEF RefusedRequest
<1>3. ASSUME NEW k \in Key, NEW o \in Owner, Request(k, o) PROVE Spared'
  BY <1>3, RequestSpared
<1>4. ASSUME NEW k \in Key, NEW want \in Fingerprints, OpenSealed(k, want) PROVE Spared'
  BY <1>4, TouchedConsuming, LeaveSpared DEF OpenSealed
<1>5. ASSUME NEW k \in Key, NEW want \in Fingerprints, Consume(k, want) PROVE Spared'
  <2>1. \A j \in Key : ~session[j].consuming
    BY <1>5, UploadAssumption DEF Consume, NoParser, Inv, Spared, UploadAssumption
  <2>2. \A j \in Key : j # k => session'[j] = session[j]
    BY <1>1, <1>5 DEF Consume
  <2>3. parser'.key = k
    BY <1>5 DEF Consume
  <2> QED
    BY <2>1, <2>2, <2>3 DEF Spared
<1>6. CASE CloseReader
  BY <1>6, LeaveSpared DEF CloseReader
<1>7. CASE CheckHash \/ Parse
  <2>1. session' = session /\ parser'.key = parser.key
    BY <1>7 DEF CheckHash, Parse, Inv, TypeOK
  <2> QED
    BY <2>1 DEF Inv, Spared
<1>8. CASE EndConsume
  BY <1>8, LeaveSpared DEF EndConsume
<1>9. CASE Close
  BY <1>9, LeaveSpared DEF Close
<1>10. CASE Tick
  <2>1. \A k \in Key : session'[k].consuming => session[k].consuming
    BY <1>1, <1>10 DEF Tick, Sessions, NoSession
  <2> QED
    BY <1>10, <2>1 DEF Tick, Inv, Spared
<1>11. CASE UNCHANGED vars
  BY <1>11 DEF vars, Inv, Spared
<1> QED
  BY <1>2, <1>3, <1>4, <1>5, <1>6, <1>7, <1>8, <1>9, <1>10, <1>11 DEF Next

LEMMA StepInv == Inv /\ [Next]_vars => Inv'
<1> SUFFICES ASSUME Inv, [Next]_vars PROVE Inv'
  OBVIOUS
<1>1. Core' /\ RestTyped' /\ Spared'
  BY StepCore, StepRestTyped, StepSpared
<1> QED
  BY <1>1 DEF Inv, TypeOK, Core, Good, Types, RestTyped, Failures, Parsers, Readers

(* The inductive invariant holds in every state. *)
THEOREM Invariance == Spec => []Inv
BY InitInv, StepInv, PTL DEF Spec

(* Every variable keeps its type. *)
THEOREM TypeCorrect == Spec => []TypeOK
<1>1. Inv => TypeOK
  BY DEF Inv
<1> QED
  BY <1>1, Invariance, PTL

(* The directory holds at most Capacity files, each one of a session, and    *)
(* only the upload of the running import is spared by the expiry.            *)
THEOREM StagingBounded == Spec => []Bounded
<1>1. Inv => Bounded
  <2> SUFFICES ASSUME Inv PROVE Bounded
    OBVIOUS
  <2>1. \A k \in Key : path[k] # NoFile <=> k \in Live
    BY DEF Inv, Core, Good, Sound, Live
  <2>2. {k \in Key : path[k] # NoFile} = Live
    BY <2>1 DEF Live
  <2> QED
    BY <2>1, <2>2 DEF Bounded, Inv, Core, Good, Sound, Live, Spared
<1> QED
  BY <1>1, Invariance, PTL

(* A sealed file has the announced fingerprint until it is removed. *)
THEOREM SealingFinal == Spec => []SealedHasFingerprint
<1>1. Inv => SealedHasFingerprint
  BY DEF Inv, Core, Good, Sound, SealedHasFingerprint, Live
<1> QED
  BY <1>1, Invariance, PTL

(* Acknowledged data is never lost or overwritten while the upload lives. *)
THEOREM AcknowledgedSafe == Spec => []AcknowledgedIsStored
<1>1. Inv => AcknowledgedIsStored
  BY DEF Inv, Core, Good, Sound, AcknowledgedIsStored, Live
<1> QED
  BY <1>1, Invariance, PTL

(* A password check reads the upload it asked for. *)
THEOREM ReaderSafe == Spec => []ReaderUndisturbed
<1>1. Inv => ReaderUndisturbed
  BY DEF Inv, Core, Good, ReaderSound, ReaderUndisturbed
<1> QED
  BY <1>1, Invariance, PTL

(* Nothing takes away or changes the file of a running import. *)
THEOREM ImportSafe == Spec => []ImportUndisturbed
<1>1. Inv => ImportUndisturbed
  <2> SUFFICES ASSUME Inv, parser # NoParser, ~closed
      PROVE  /\ parser.key \in Live /\ session[parser.key].consuming
             /\ session[parser.key].sealed
             /\ parser.step \in {"rehash", "parsed"} => parser.got = bytes[path[parser.key]]
    BY DEF ImportUndisturbed
  <2>1. /\ parser.key \in Key /\ session[parser.key].owner # NoKey
        /\ session[parser.key].sealed /\ session[parser.key].consuming
    BY DEF Inv, Core, Good, ParserSound
  <2>2. path[parser.key] # NoFile
    BY <2>1 DEF Inv, Core, Good, Sound
  <2> QED
    BY <2>1, <2>2 DEF Inv, Core, Good, ParserSound, Live
<1> QED
  BY <1>1, Invariance, PTL

(* An import returns what the requested fingerprint stands for. *)
THEOREM ImportFaithful == Spec => []ParsedIsRequested
<1>1. Inv => ParsedIsRequested
  BY DEF Inv, Core, Good, ParserSound, ParsedIsRequested
<1> QED
  BY <1>1, Invariance, PTL
=============================================================================
