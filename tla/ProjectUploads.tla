---------------------------- MODULE ProjectUploads ----------------------------
(***************************************************************************)
(* The staging of ETS project files, knx_project_upload.py: administrators *)
(* upload a file in chunks over a connection that loses, repeats and       *)
(* reorders requests; a sealed upload can be read to check its password    *)
(* and is consumed once by the import of knx_project_deployment.py.        *)
(*                                                                         *)
(* A request runs under the lock and is one step.  The import and a reader *)
(* work on the file outside the lock, between requests of anybody.  A file *)
(* is an inode with a few positions; a fingerprint is the content itself.  *)
(***************************************************************************)
EXTENDS Naturals, FiniteSets, Sequences

CONSTANTS
  Key, Owner, Inode,
  Data,       \* what a position can hold
  Hole,       \* what a position holds that was never written
  NoFile,     \* no inode
  NoKey,      \* no upload
  Offer,      \* announced uploads: a size and a fingerprint
  Capacity,   \* 2 in the code
  TTL,        \* 30 minutes in the code
  MaxSize,    \* bounds: positions of a file and
  MaxFaults   \*   writes that fail

Position == 1 .. MaxSize
Contents == [Position -> Data \cup {Hole}]
Prints == UNION {[1 .. n -> Data] : n \in Position}
Pieces == Prints
Empty == [i \in Position |-> Hole]

ASSUME UploadAssumption ==
  /\ IsFiniteSet(Key) /\ Capacity \in Nat /\ TTL \in Nat /\ MaxSize \in Nat \ {0}
  /\ MaxFaults \in Nat
  /\ Hole \notin Data /\ NoFile \notin Inode /\ NoKey \notin Key \cup Owner
  /\ Offer \subseteq [size : Position, print : Prints]

VARIABLES
  session,   \* the sessions by key
  path,      \* the file that the directory has under a key
  bytes,     \* the contents of every inode
  closed,    \* Home Assistant stops and the directory is gone
  parser,    \* the import that consumes an upload, one at a time under its lock
  reader,    \* the open file of a password check
  accepted,  \* observation: what the acknowledged chunks of a session contained
  failed,    \* observation: the last chunk that failed, until the upload goes on
  faults     \* bound

vars == <<session, path, bytes, closed, parser, reader, accepted, failed, faults>>

Sessions == [owner : Owner, offer : Offer, offset : 0 .. MaxSize, age : 0 .. TTL + 1,
             sealed : BOOLEAN, consuming : BOOLEAN]
NoSession == [owner |-> NoKey, offer |-> NoKey, offset |-> 0, age |-> 0,
              sealed |-> FALSE, consuming |-> FALSE]
NewSession(o, offer) == [owner |-> o, offer |-> offer, offset |-> 0, age |-> 0,
                         sealed |-> FALSE, consuming |-> FALSE]
Live == {k \in Key : session[k].owner # NoKey}

(* A fingerprint, as the contents of the only file that has it. *)
Whole(print) == [i \in Position |-> IF i \in DOMAIN print THEN print[i] ELSE Hole]
Fingerprints == {Whole(offer.print) : offer \in Offer}

NoParser == [step |-> "idle", key |-> NoKey, want |-> Empty, got |-> Empty]
NoReader == [inode |-> NoFile, want |-> Empty]
NoFailure == [key |-> NoKey, at |-> 0, piece |-> Empty]

Init ==
  /\ session = [k \in Key |-> NoSession]
  /\ path = [k \in Key |-> NoFile] /\ bytes = [i \in Inode |-> Empty]
  /\ closed = FALSE /\ parser = NoParser /\ reader = NoReader
  /\ accepted = [k \in Key |-> {}] /\ failed = NoFailure /\ faults = 0

----------------------------------------------------------------------------
(* Sessions and files *)

(* The system frees an inode that has neither a name nor an open handle. *)
Freed(b, p, r) ==
  [i \in Inode |-> IF i = r.inode \/ \E k \in Key : p[k] = i THEN b[i] ELSE Empty]

(* What a step leaves: the sessions in gone are removed with their files. *)
Leave(gone, s, p, b, acc, fail) ==
  LET named == [k \in Key |-> IF k \in gone THEN NoFile ELSE p[k]] IN
  /\ session' = [k \in Key |-> IF k \in gone THEN NoSession ELSE s[k]]
  /\ path' = named
  /\ bytes' = Freed(b, named, reader')
  /\ accepted' = [k \in Key |-> IF k \in gone THEN {} ELSE acc[k]]
  /\ failed' = IF fail.key \in gone THEN NoFailure ELSE fail

(* Mutant: an import does not keep its upload alive. *)
ExpiredOrConsuming == {k \in Live : session[k].age > TTL}

(* Every request first removes the sessions that nobody used for the TTL. *)
Expired == {k \in Live : session[k].age > TTL /\ ~session[k].consuming}

(* The caller's own session, which is not being imported. *)
Usable(k, o) == k \in Live \ Expired /\ session[k].owner = o /\ ~session[k].consuming

(* A request for it restarts its time to live, even if it is refused then. *)
Touched(k) == [session EXCEPT ![k].age = 0]

----------------------------------------------------------------------------
(* _request *)

(* Anything malformed, for no session, or for somebody else's. *)
RefusedRequest ==
  /\ UNCHANGED <<closed, parser, reader, faults>>
  /\ Leave(Expired, session, path, bytes, accepted, failed)

(* A start that repeats the announcement, or a request refused by its     *)
(* action: a wrong offset, a mismatching retry, an incomplete upload.     *)
TouchingRequest(k, o) ==
  /\ Usable(k, o)
  /\ UNCHANGED <<closed, parser, reader, faults>>
  /\ Leave(Expired, Touched(k), path, bytes, accepted, failed)

(* Mutant: one session too many. *)
RoomForOneMore == Cardinality(Live \ Expired) <= Capacity

Room == Cardinality(Live \ Expired) < Capacity

Start(k, o, offer) ==
  /\ k \notin Live \ Expired /\ Room
  /\ ~closed /\ (path[k] = NoFile \/ k \in Expired)
  /\ UNCHANGED <<closed, parser, reader, faults>>
  /\ \E i \in Inode \ ({path[j] : j \in Key \ Expired} \cup {reader.inode}) :
       Leave(Expired \ {k},
             [session EXCEPT ![k] = NewSession(o, offer)],
             [path EXCEPT ![k] = i], [bytes EXCEPT ![i] = Empty],
             [accepted EXCEPT ![k] = {}], IF failed.key = k THEN NoFailure ELSE failed)

(* Mutant: a repeated chunk is not compared with the file. *)
RepeatsUnread(k, at, piece) == at + Len(piece) <= session[k].offset

(* A chunk repeats what is there already, or is appended. *)
Repeats(k, at, piece) ==
  /\ at + Len(piece) <= session[k].offset
  /\ \A i \in DOMAIN piece : bytes[path[k]][at + i] = piece[i]

(* Mutant: the end of the chunk is not checked. *)
AppendsPastSize(k, at, piece) == at = session[k].offset /\ ~session[k].sealed

Appends(k, at, piece) ==
  at = session[k].offset /\ at + Len(piece) <= session[k].offer.size /\ ~session[k].sealed

(* The file of k once the first n positions of the piece are written. *)
Written(k, at, piece, n) ==
  [bytes EXCEPT ![path[k]] = [i \in Position |-> IF i \in at + 1 .. at + n
                                                  THEN piece[i - at] ELSE @[i]]]

Advanced(k, at, piece) == [Touched(k) EXCEPT ![k].offset = at + Len(piece)]

Chunk(k, o, at, piece) ==
  /\ Usable(k, o) /\ path[k] # NoFile
  /\ UNCHANGED <<closed, parser, reader, faults>>
  /\ LET noted == [accepted EXCEPT ![k] = @ \cup {<<at + i, piece[i]>> : i \in DOMAIN piece}]
         fail == IF failed.key = k THEN NoFailure ELSE failed IN
     \/ /\ Repeats(k, at, piece)
        /\ Leave(Expired, Touched(k), path, bytes, noted, fail)
     \/ /\ Appends(k, at, piece)
        /\ Leave(Expired, Advanced(k, at, piece), path,
                 Written(k, at, piece, Len(piece)), noted, fail)

(* The disk is full or fails.  A piece that fits the stream's buffer is only *)
(* written when the stream is closed, after the offset has been advanced.    *)
ChunkFails(k, o, at, piece) ==
  /\ Usable(k, o) /\ path[k] # NoFile /\ Appends(k, at, piece)
  /\ faults < MaxFaults /\ faults' = faults + 1
  /\ UNCHANGED <<closed, parser, reader>>
  /\ \E n \in 0 .. Len(piece), s \in {Touched(k), Advanced(k, at, piece)} :
       Leave(Expired, s, path, Written(k, at, piece, n), accepted,
             [key |-> k, at |-> at, piece |-> piece])

(* Mutant: the offset alone tells that the upload is complete. *)
CompleteBySize(k) == session[k].offset = session[k].offer.size

Complete(k) ==
  /\ session[k].offset = session[k].offer.size
  /\ bytes[path[k]] = Whole(session[k].offer.print)

Seal(k, o) ==
  /\ Usable(k, o) /\ path[k] # NoFile /\ Complete(k)
  /\ UNCHANGED <<closed, parser, reader, faults>>
  /\ Leave(Expired, [Touched(k) EXCEPT ![k].sealed = TRUE], path, bytes, accepted, failed)

Discard(k, o) ==
  /\ Usable(k, o)
  /\ UNCHANGED <<closed, parser, reader, faults>>
  /\ Leave(Expired \cup {k}, session, path, bytes, accepted, failed)

----------------------------------------------------------------------------
(* open_sealed and the password check, which reads the open file *)

Ready(k) == k \in Live /\ session[k].sealed /\ ~session[k].consuming

(* Mutant: the fingerprint of the request is not compared. *)
AnnouncedAnything(k, want) == TRUE

Announced(k, want) == Whole(session[k].offer.print) = want

OpenSealed(k, want) ==
  /\ reader = NoReader
  /\ Ready(k) /\ Announced(k, want) /\ path[k] # NoFile
  /\ reader' = [inode |-> path[k], want |-> want]
  /\ UNCHANGED <<closed, parser, faults>>
  /\ Leave({}, Touched(k), path, bytes, accepted, failed)

CloseReader ==
  /\ reader # NoReader
  /\ reader' = NoReader
  /\ UNCHANGED <<closed, parser, faults>>
  /\ Leave({}, session, path, bytes, accepted, failed)

----------------------------------------------------------------------------
(* consume and _parse_uploaded_project: the import hashes the file, parses *)
(* it, hashes it again and only then removes it.                           *)

Consume(k, want) ==
  /\ parser = NoParser
  /\ Ready(k)
  /\ session' = [session EXCEPT ![k].consuming = TRUE]
  /\ parser' = [step |-> "hash", key |-> k, want |-> want, got |-> Empty]
  /\ UNCHANGED <<path, bytes, closed, reader, accepted, failed, faults>>

(* Mutant: the fingerprint of the file is not compared. *)
Readable == path[parser.key] # NoFile

Matching == path[parser.key] # NoFile /\ bytes[path[parser.key]] = parser.want

CheckHash ==
  /\ parser.step \in {"hash", "rehash"}
  /\ parser' = [parser EXCEPT !.step = IF ~Matching THEN "refused"
                                       ELSE IF @ = "hash" THEN "parse" ELSE "parsed"]
  /\ UNCHANGED <<session, path, bytes, closed, reader, accepted, failed, faults>>

(* The file cannot be read any more, or the password is wrong. *)
Parse ==
  /\ parser.step = "parse"
  /\ \/ /\ path[parser.key] # NoFile
        /\ parser' = [parser EXCEPT !.step = "rehash", !.got = bytes[path[parser.key]]]
     \/ parser' = [parser EXCEPT !.step = "refused"]
  /\ UNCHANGED <<session, path, bytes, closed, reader, accepted, failed, faults>>

EndConsume ==
  /\ parser.step \in {"parsed", "refused"}
  /\ parser' = NoParser
  /\ UNCHANGED <<closed, reader, faults>>
  /\ Leave({parser.key}, session, path, bytes, accepted, failed)

----------------------------------------------------------------------------
Close ==
  /\ ~closed /\ closed' = TRUE
  /\ UNCHANGED <<parser, reader, faults>>
  /\ Leave(Key, session, path, bytes, accepted, failed)

(* Time passes; what is older than the TTL is old. *)
Tick ==
  /\ session' = [k \in Key |-> IF k \in Live /\ session[k].age <= TTL
                               THEN [session[k] EXCEPT !.age = @ + 1] ELSE session[k]]
  /\ UNCHANGED <<path, bytes, closed, parser, reader, accepted, failed, faults>>

Request(k, o) ==
  \/ TouchingRequest(k, o)
  \/ \E offer \in Offer : Start(k, o, offer)
  \/ \E at \in 0 .. MaxSize, piece \in Pieces : Chunk(k, o, at, piece) \/ ChunkFails(k, o, at, piece)
  \/ Seal(k, o) \/ Discard(k, o)

Next ==
  \/ RefusedRequest
  \/ \E k \in Key, o \in Owner : Request(k, o)
  \/ \E k \in Key, want \in Fingerprints : OpenSealed(k, want) \/ Consume(k, want)
  \/ CloseReader \/ CheckHash \/ Parse \/ EndConsume
  \/ Close \/ Tick

Spec == Init /\ [][Next]_vars
----------------------------------------------------------------------------
(* Properties *)

(* Every variable has its type: offsets within a file, ages that stop just   *)
(* above the time to live, contents of known positions only.                 *)
TypeOK ==
  /\ session \in [Key -> Sessions \cup {NoSession}]
  /\ path \in [Key -> Inode \cup {NoFile}] /\ bytes \in [Inode -> Contents]
  /\ closed \in BOOLEAN
  /\ parser \in [step : {"idle", "hash", "parse", "rehash", "parsed", "refused"},
                 key : Key \cup {NoKey}, want : Contents, got : Contents]
  /\ reader \in [inode : Inode \cup {NoFile}, want : Contents]
  /\ accepted \in [Key -> SUBSET (Position \X Data)]
  /\ failed \in [key : Key \cup {NoKey}, at : 0 .. MaxSize, piece : Pieces \cup {Empty}]
  /\ faults \in 0 .. MaxFaults

(* The directory never holds more files than the capacity, each one the file *)
(* of a session, whatever expires, is discarded or is being imported; and    *)
(* only the upload of the running import is spared by the expiry, so that no *)
(* other can keep its place for ever.                                        *)
Bounded ==
  /\ Cardinality({k \in Key : path[k] # NoFile}) <= Capacity
  /\ \A k \in Key : path[k] # NoFile <=> k \in Live
  /\ \A j, k \in Live : path[j] = path[k] => j = k
  /\ \A k \in Live : session[k].consuming => parser.key = k

(* Sealing is final: whatever chunks arrive late, again or in another order, *)
(* the file of a sealed upload has the announced fingerprint.                *)
SealedHasFingerprint ==
  \A k \in Live : session[k].sealed => bytes[path[k]] = Whole(session[k].offer.print)

(* What an acknowledged chunk contained is in the file at its offset, also   *)
(* after retries, failing writes and chunks that overlap it.                 *)
AcknowledgedIsStored ==
  \A k \in Live : \A entry \in accepted[k] : bytes[path[k]][entry[1]] = entry[2]

(* An open password check reads the upload it asked for to its end, although *)
(* the upload may expire, be discarded, be imported or be replaced.          *)
ReaderUndisturbed == reader # NoReader => bytes[reader.inode] = reader.want

(* While an import runs its file stays as it was sealed unless Home          *)
(* Assistant stops: no expiry, request or other upload takes it away.        *)
ImportUndisturbed ==
  parser # NoParser /\ ~closed =>
    /\ parser.key \in Live /\ session[parser.key].consuming /\ session[parser.key].sealed
    /\ parser.step \in {"rehash", "parsed"} => parser.got = bytes[path[parser.key]]

(* What the import returns was parsed from the file with the fingerprint it  *)
(* was asked for, even if Home Assistant stops meanwhile.                    *)
ParsedIsRequested == parser.step = "parsed" => parser.got = parser.want

(* knx_project_upload.py:1: retry-safe staging.  A chunk that could not be   *)
(* stored is accepted when it is sent again.                                 *)
FailedChunkCanBeRetried ==
  failed # NoFailure =>
    \/ Repeats(failed.key, failed.at, failed.piece)
    \/ Appends(failed.key, failed.at, failed.piece)
=============================================================================
