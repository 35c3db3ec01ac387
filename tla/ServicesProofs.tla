----------------------------- MODULE ServicesProofs -----------------------------
(***************************************************************************)
(* What is proved of the services, for the specification of all of them    *)
(* that the run checks: a step of one of them leaves the others alone, so  *)
(* the inductive invariant of each is one of the whole.                    *)
(*                                                                         *)
(* In the order of the sections: the region cache, the video cache, the    *)
(* query plans, the OCR backend, the development server, the devices, the  *)
(* visual encoder, the frame sampler and the sharded indexes, and all of   *)
(* them together.                                                          *)
(***************************************************************************)
EXTENDS Services, FiniteSetTheorems, SequenceTheorems, WellFoundedInduction, TLAPS

-----------------------------------------------------------------------------
(* Numbers *)

\* A set of numbers that is not empty has a least element.
LEMMA LeastNumber ==
    ASSUME NEW S \in SUBSET Nat, S # {}
    PROVE  \E n \in S : \A m \in S : n <= m
<1>1. \E n \in S : \A m \in S : ~(<<m, n>> \in OpToRel(<, Nat))
    BY NatLessThanWellFounded, WFMin
<1>2. PICK n \in S : \A m \in S : ~(<<m, n>> \in OpToRel(<, Nat))
    BY <1>1
<1>3. \A m \in S : ~(m < n)
    BY <1>2 DEF OpToRel
<1> QED BY <1>3

LEMMA MinOfNumbers ==
    ASSUME NEW S \in SUBSET Nat, S # {}
    PROVE  Min(S) \in S /\ \A m \in S : Min(S) <= m
BY LeastNumber DEF Min

LEMMA MaxOfNumbers ==
    ASSUME NEW S \in SUBSET Nat, S # {}, NEW b \in Nat, \A m \in S : m <= b
    PROVE  Max(S) \in S /\ \A m \in S : m <= Max(S)
<1> DEFINE below == {b - m : m \in S}
<1>1. below \in SUBSET Nat /\ below # {}
    <2>1. \A m \in S : b - m \in Nat
        OBVIOUS
    <2> QED BY <2>1
<1>2. PICK n \in below : \A m \in below : n <= m
    <2> HIDE DEF below
    <2> QED BY <1>1, LeastNumber
<1>3. PICK x \in S : n = b - x
    OBVIOUS
<1>4. \A m \in S : b - x <= b - m
    BY <1>2, <1>3
<1>5. \A m \in S : m <= x
    BY <1>4
<1> QED BY <1>5 DEF Max

LEMMA Division ==
    ASSUME NEW x \in Nat, NEW d \in Nat \ {0}
    PROVE  /\ x \div d \in Nat /\ x % d \in 0..(d - 1)
           /\ x = d * (x \div d) + (x % d)
<1>1. x \div d \in Nat
    OBVIOUS
<1>2. x % d \in 0..(d - 1)
    OBVIOUS
<1>3. x = d * (x \div d) + (x % d)
    OBVIOUS
<1> QED BY <1>1, <1>2, <1>3

LEMMA ExactDivision ==
    ASSUME NEW x \in Nat, NEW d \in Nat \ {0}, x % d = 0
    PROVE  x \div d \in Nat /\ x = d * (x \div d)
<1> DEFINE k == x \div d
           r == x % d
<1>1. k \in Nat /\ x = d * k + r /\ r = 0
    BY Division
<1> HIDE DEF k, r
<1>2. k \in Nat /\ x = d * k
    <2>1. d * k \in Nat
        BY <1>1
    <2> QED BY <1>1, <2>1
<1> QED BY <1>2 DEF k

LEMMA SmallMultiple ==
    ASSUME NEW k \in Int, NEW d \in Nat \ {0}, -d < d * k, d * k < d
    PROVE  k = 0
<1>1. k >= 1 => d * k >= d
    OBVIOUS
<1>2. k <= -1 => d * k <= -d
    OBVIOUS
<1> QED BY <1>1, <1>2

LEMMA SameRemainder ==
    ASSUME NEW d \in Nat \ {0}, NEW a \in Int, NEW b \in Int, NEW r \in 0..(d - 1), NEW q \in 0..(d - 1),
           d * a + r = d * b + q
    PROVE  r = q
<1>1. d * (a - b) = q - r
    OBVIOUS
<1>2. a - b = 0
    BY <1>1, SmallMultiple
<1> QED BY <1>2

LEMMA Multiples ==
    ASSUME NEW d \in Nat \ {0}, NEW t \in Nat, NEW x \in Nat, t % d = 0, t <= x
    PROVE  x % d = 0 <=> (x - t) % d = 0
<1> DEFINE a == x \div d
           b == t \div d
           c == (x - t) \div d
           r == x % d
           q == (x - t) % d
<1>1. /\ a \in Nat /\ r \in 0..(d - 1) /\ x = d * a + r
      /\ b \in Nat /\ t = d * b
    BY Division, ExactDivision
<1>2. c \in Nat /\ q \in 0..(d - 1) /\ x - t = d * c + q
    <2>1. x - t \in Nat
        OBVIOUS
    <2> QED BY <2>1, Division
<1> HIDE DEF a, b, c, r, q
<1>3. d * a + r = d * (b + c) + q
    BY <1>1, <1>2
<1>4. b + c \in Int /\ a \in Int
    BY <1>1, <1>2
<1>5. r = q
    BY <1>1, <1>2, <1>3, <1>4, SameRemainder
<1> QED BY <1>5 DEF r, q

LEMMA NextMultiple ==
    ASSUME NEW d \in Nat \ {0}, NEW x \in Nat, x % d = 0
    PROVE  (x + d) % d = 0
<1> DEFINE y == x + d
<1>1. y \in Nat /\ x <= y /\ y - x = d
    OBVIOUS
<1>2. d % d = 0
    OBVIOUS
<1> HIDE DEF y
<1>3. y % d = 0
    BY <1>1, <1>2, Multiples
<1> QED BY <1>3 DEF y

LEMMA NoMultipleBetween ==
    ASSUME NEW d \in Nat \ {0}, NEW m \in Nat, NEW x \in Nat, m % d = 0, x % d = 0, x < m + d
    PROVE  x <= m
<1> SUFFICES ASSUME m < x PROVE FALSE
    OBVIOUS
<1>1. (x - m) % d = 0
    <2>1. m <= x /\ d \in Nat \ {0} /\ m \in Nat /\ x \in Nat /\ m % d = 0
        OBVIOUS
    <2>2. x % d = 0 <=> (x - m) % d = 0
        BY <2>1, Multiples
    <2> QED BY <2>2, Zenon
<1> DEFINE k == (x - m) \div d
<1>2. k \in Nat /\ x - m = d * k
    <2>1. x - m \in Nat
        OBVIOUS
    <2> QED BY <1>1, <2>1, ExactDivision
<1> HIDE DEF k
<1>3. x - m < d /\ -d < x - m
    OBVIOUS
<1>4. k = 0
    BY <1>2, <1>3, SmallMultiple
<1>5. d * k = 0
    BY <1>4
<1> QED BY <1>2, <1>5

-----------------------------------------------------------------------------
(* RegionCache.  A directory tells of one request: of its fingerprint, and *)
(* of the frames it decoded.  A request beside which no other version was  *)
(* in use sees the file as it was, and only directories of requests with   *)
(* its own fingerprint get the name while it reads.                        *)

Steps == {"waiting", "get", "metadata", "records", "embeddings", "decode", "stage", "look", "open",
          "sweep", "rename", "served", "failed"}
Ended == {"waiting", "served", "failed"}
Reads == {"records", "embeddings"}
Writes == {"stage", "look", "open", "sweep", "rename"}
Directories == UNION {[S -> Nat] : S \in SUBSET Parts}

RegionTypeOK ==
    /\ video \in Nat
    /\ files \in [Requests -> Directories]
    /\ region \in Requests \cup {Nothing}
    /\ request \in [Requests -> [step : Steps, fp : Nat, dir : Requests \cup {Nothing},
                                 records : Nat, embeddings : Nat]]
    /\ beside \in [Requests -> SUBSET Nat]
    /\ \A r \in Requests : request[r].step = "sweep" => request[r].dir \in Requests

\* No other version has been in use beside r.
Alone(r) == \A version \in beside[r] : version = request[r].fp

\* Whoever runs beside r is known to r, and so is a change of the file.
BesideInv ==
    \A r \in Running :
        /\ request[r].fp <= video
        /\ video # request[r].fp => video \in beside[r]
        /\ \A q \in Running \ {r} : request[q].fp \in beside[r]

\* What a directory tells of its request.
FilesInv ==
    \A d \in Requests :
        /\ files[d] # Empty => request[d].step \in {"look", "open", "sweep", "rename", "served"}
        /\ region = d => request[d].step = "served"
        /\ "metadata" \in DOMAIN files[d] => files[d]["metadata"] = request[d].fp
        /\ \A p \in DOMAIN files[d] \ {"metadata"} : files[d][p] \in request[d].fp..video
        /\ request[d].step = "stage" => {request[d].records, request[d].embeddings} \subseteq request[d].fp..video

\* What a request that runs alone has read or decoded.
ReadInv ==
    \A r \in Requests : Alone(r) =>
        /\ request[r].step \in Reads /\ region # Nothing => request[region].fp = request[r].fp
        /\ request[r].step \in {"embeddings"} \cup Writes \cup {"served"} => request[r].records = request[r].fp
        /\ request[r].step \in Writes \cup {"served"} => request[r].embeddings = request[r].fp

RegionInv == RegionTypeOK /\ BesideInv /\ FilesInv /\ ReadInv

RegionSpec == RegionInit /\ [][RegionNext]_regionVars

-----------------------------------------------------------------------------

LEMMA EmptyIsDirectory == Empty \in Directories /\ DOMAIN Empty = {}
    BY DEF Empty, Directories, Parts

LEMMA WithoutPart ==
    ASSUME NEW F \in Directories, NEW p
    PROVE  [q \in DOMAIN F \ {p} |-> F[q]] \in Directories
<1>1. PICK S \in SUBSET Parts : F \in [S -> Nat]
    BY DEF Directories
<1>2. [q \in DOMAIN F \ {p} |-> F[q]] \in [S \ {p} -> Nat]
    BY <1>1
<1>3. S \ {p} \in SUBSET Parts
    OBVIOUS
<1> QED BY <1>2, <1>3 DEF Directories

LEMMA RegionInvInit == RegionInit => RegionInv
<1> SUFFICES ASSUME RegionInit PROVE RegionInv
    OBVIOUS
<1>0. Empty \in Directories /\ DOMAIN Empty = {}
    BY EmptyIsDirectory
<1>1. RegionTypeOK
    BY <1>0, RegionAssumption DEF RegionInit, RegionTypeOK, Waiting, Steps
<1>2. BesideInv
    BY DEF RegionInit, BesideInv, Running, Waiting
<1>3. FilesInv
    BY <1>0, RegionAssumption DEF RegionInit, FilesInv, Waiting
<1>4. ReadInv
    BY DEF RegionInit, ReadInv, Waiting, Reads, Writes
<1> QED BY <1>1, <1>2, <1>3, <1>4 DEF RegionInv

-----------------------------------------------------------------------------
(* Steps by which a request goes on without a new fingerprint.             *)

GoesOn(r) ==
    /\ video' = video /\ beside' = beside
    /\ r \in Running
    /\ \A q \in Requests \ {r} : request'[q] = request[q]
    /\ request'[r].fp = request[r].fp
    /\ request'[r].step \notin {"waiting", "get"}

LEMMA GoesOnBeside ==
    ASSUME RegionInv, NEW r \in Requests, GoesOn(r)
    PROVE  BesideInv'
<1>1. Running' \subseteq Running /\ \A q \in Requests : request'[q].fp = request[q].fp
    BY DEF GoesOn, Running
<1>2. Running \subseteq Requests
    BY DEF Running
<1> QED BY <1>1, <1>2 DEF RegionInv, BesideInv, GoesOn

\* The read steps and the failures: the directories stay as they are.
LEMMA GoesOnFiles ==
    ASSUME RegionInv, NEW r \in Requests, GoesOn(r), UNCHANGED <<files, region>>,
           request[r].step \notin {"look", "open", "sweep", "rename", "stage"},
           request'[r].step = "stage" =>
               {request'[r].records, request'[r].embeddings} \subseteq request[r].fp..video
    PROVE  FilesInv'
<1>1. files[r] = Empty /\ region # r /\ DOMAIN Empty = {}
    BY DEF RegionInv, FilesInv, GoesOn, Running, Empty
<1>2. \A q \in Requests : request'[q].fp = request[q].fp
    BY DEF GoesOn
<1>3. \A q \in Requests \ {r} : request'[q] = request[q]
    BY DEF GoesOn
<1> QED BY <1>1, <1>2, <1>3 DEF RegionInv, FilesInv, GoesOn

LEMMA GoesOnRead ==
    ASSUME RegionInv, NEW r \in Requests, GoesOn(r), region' = region,
           Alone(r) =>
               /\ request'[r].step \in Reads /\ region # Nothing => request[region].fp = request[r].fp
               /\ request'[r].step \in {"embeddings"} \cup Writes \cup {"served"} => request'[r].records = request[r].fp
               /\ request'[r].step \in Writes \cup {"served"} => request'[r].embeddings = request[r].fp
    PROVE  ReadInv'
<1>1. \A q \in Requests : Alone(q)' <=> Alone(q)
    BY DEF GoesOn, Alone
<1>2. region # Nothing => request'[region].fp = request[region].fp
    BY DEF GoesOn, RegionInv, RegionTypeOK
<1>3. \A q \in Requests \ {r} : request'[q] = request[q]
    BY DEF GoesOn
<1> QED BY <1>1, <1>2, <1>3 DEF RegionInv, ReadInv, GoesOn

\* One request takes one step.
LEMMA RegionTypeStep ==
    ASSUME RegionInv, NEW r \in Requests, RegionStep(r)
    PROVE  RegionTypeOK'
<1> USE DEF RegionInv, RegionTypeOK, RegionAt, Goto
<1>0. Empty \in Directories /\ DOMAIN Empty = {}
    BY EmptyIsDirectory
<1>1. CASE Fingerprint(r)
    <2>1. beside' \in [Requests -> SUBSET Nat]
        BY <1>1 DEF Fingerprint, Running
    <2> QED BY <1>1, <2>1 DEF Fingerprint, Steps
<1>2. CASE LookAtFiles(r) \/ ReadMetadata(r)
    BY <1>2 DEF LookAtFiles, ReadMetadata, Steps
<1>3. CASE ReadRecords(r)
    <2>1. There("records") => files[region]["records"] \in Nat
        BY DEF There, Directories
    <2> QED BY <1>3, <2>1 DEF ReadRecords, Steps
<1>4. CASE ReadEmbeddings(r)
    <2>1. There("embeddings") => files[region]["embeddings"] \in Nat
        BY DEF There, Directories
    <2> QED BY <1>4, <2>1 DEF ReadEmbeddings, Steps
<1>5. CASE Decode(r)
    BY <1>5 DEF Decode, Steps
<1>6. CASE Stage(r)
    <2> DEFINE new == [p \in Parts |-> CASE p = "metadata" -> request[r].fp
                                          [] p = "records" -> request[r].records
                                          [] OTHER -> request[r].embeddings]
    <2>1. new \in [Parts -> Nat]
        BY DEF Parts
    <2>2. new \in Directories
        BY <2>1 DEF Directories
    <2>3. files' = [files EXCEPT ![r] = new] \/ files' = files
        BY <1>6 DEF Stage
    <2>4. files' \in [Requests -> Directories]
        BY <2>2, <2>3
    <2> QED BY <1>6, <2>4 DEF Stage, Steps
<1>7. CASE LookForOld(r) \/ OpenOld(r)
    BY <1>7 DEF LookForOld, OpenOld, Steps
<1>8. CASE SweepFile(r)
    <2>1. PICK p \in DOMAIN files[request[r].dir] :
              files' = [files EXCEPT ![request[r].dir] = [q \in DOMAIN @ \ {p} |-> @[q]]]
        BY <1>8 DEF SweepFile
    <2>2. request[r].dir \in Requests
        BY <1>8 DEF SweepFile
    <2>3. [q \in DOMAIN files[request[r].dir] \ {p} |-> files[request[r].dir][q]] \in Directories
        BY <2>2, WithoutPart
    <2>4. files' \in [Requests -> Directories]
        <3> DEFINE rest == [q \in DOMAIN files[request[r].dir] \ {p} |-> files[request[r].dir][q]]
        <3>1. files' = [files EXCEPT ![request[r].dir] = rest]
            BY <2>1
        <3>2. rest \in Directories
            BY <2>3
        <3> HIDE DEF rest
        <3> QED BY <2>2, <3>1, <3>2
    <2> QED BY <1>8, <2>4 DEF SweepFile
<1>9. CASE SweepName(r)
    BY <1>9 DEF SweepName, Steps
<1>10. CASE RenameRegion(r)
    BY <1>0, <1>10 DEF RenameRegion, Steps
<1> QED BY <1>1, <1>2, <1>3, <1>4, <1>5, <1>6, <1>7, <1>8, <1>9, <1>10 DEF RegionStep

\* It has looked at the file.
LEMMA RegionInvFingerprint ==
    ASSUME RegionInv, NEW r \in Requests, Fingerprint(r), RegionTypeOK'
    PROVE  RegionInv'
<1>1. /\ request[r].step = "waiting" /\ r \notin Running /\ Running' = Running \cup {r} /\ Running \subseteq Requests
      /\ request'[r].fp = video /\ request'[r].step = "get" /\ UNCHANGED <<video, files, region>>
      /\ \A q \in Requests \ {r} : request'[q] = request[q]
      /\ beside'[r] = {request[s].fp : s \in Running}
      /\ \A q \in Running : beside'[q] = beside[q] \cup {video}
      /\ \A q \in Requests \ (Running \cup {r}) : beside'[q] = beside[q]
    BY DEF RegionInv, RegionTypeOK, Fingerprint, RegionAt, Running
<1>2. BesideInv'
    <2> SUFFICES ASSUME NEW q \in Running'
                 PROVE  /\ request'[q].fp <= video'
                        /\ video' # request'[q].fp => video' \in beside'[q]
                        /\ \A s \in Running' \ {q} : request'[s].fp \in beside'[q]
        BY DEF BesideInv
    <2>1. CASE q = r
        BY <1>1, <2>1 DEF RegionInv, RegionTypeOK
    <2>2. CASE q \in Running
        BY <1>1, <2>2 DEF RegionInv, BesideInv
    <2> QED BY <1>1, <2>1, <2>2
<1>3. FilesInv'
    <2>1. files[r] = Empty /\ region # r /\ DOMAIN Empty = {}
        BY <1>1 DEF RegionInv, FilesInv, Empty
    <2> QED BY <1>1, <2>1 DEF RegionInv, FilesInv
<1>4. ReadInv'
    <2>1. region # r
        BY <1>1 DEF RegionInv, FilesInv
    <2>2. \A q \in Requests \ {r} : Alone(q)' => Alone(q)
        BY <1>1 DEF Alone
    <2>3. region # Nothing => request'[region] = request[region]
        BY <1>1, <2>1 DEF RegionInv, RegionTypeOK
    <2> QED BY <1>1, <2>2, <2>3 DEF RegionInv, ReadInv, Reads, Writes
<1> QED BY <1>2, <1>3, <1>4 DEF RegionInv

LEMMA RegionInvReplaceVideo ==
    ASSUME RegionInv, ReplaceVideo
    PROVE  RegionInv'
<1>1. /\ video' = video + 1 /\ video' \in Nat /\ UNCHANGED <<files, region, request>>
      /\ Running' = Running /\ Running \subseteq Requests
      /\ \A q \in Running : beside'[q] = beside[q] \cup {video'}
      /\ \A q \in Requests \ Running : beside'[q] = beside[q]
    BY DEF RegionInv, RegionTypeOK, ReplaceVideo, Running
<1>2. RegionTypeOK'
    BY <1>1 DEF RegionInv, RegionTypeOK, ReplaceVideo
<1>3. BesideInv'
    BY <1>1 DEF RegionInv, RegionTypeOK, BesideInv
<1>4. FilesInv'
    BY <1>1 DEF RegionInv, RegionTypeOK, FilesInv, Directories
<1>5. ReadInv'
    <2>1. \A q \in Requests : Alone(q)' => Alone(q)
        BY <1>1 DEF Alone
    <2> QED BY <1>1, <2>1 DEF RegionInv, ReadInv
<1> QED BY <1>2, <1>3, <1>4, <1>5 DEF RegionInv

\* get
LEMMA RegionInvGet ==
    ASSUME RegionInv, NEW r \in Requests, RegionTypeOK',
           LookAtFiles(r) \/ ReadMetadata(r) \/ ReadRecords(r) \/ ReadEmbeddings(r)
    PROVE  RegionInv'
<1>1. GoesOn(r) /\ UNCHANGED <<files, region>>
    <2>1. CASE LookAtFiles(r) \/ ReadMetadata(r)
        BY <2>1 DEF RegionInv, RegionTypeOK, GoesOn, Running, RegionAt, Goto, LookAtFiles, ReadMetadata
    <2>2. CASE ReadRecords(r)
        BY <2>2 DEF RegionInv, RegionTypeOK, GoesOn, Running, RegionAt, ReadRecords
    <2>3. CASE ReadEmbeddings(r)
        BY <2>3 DEF RegionInv, RegionTypeOK, GoesOn, Running, RegionAt, Goto, ReadEmbeddings
    <2> QED BY <2>1, <2>2, <2>3
<1>2. BesideInv'
    BY <1>1, GoesOnBeside
<1>3. FilesInv'
    BY <1>1, GoesOnFiles DEF RegionInv, RegionTypeOK, RegionAt, Goto, LookAtFiles, ReadMetadata, ReadRecords,
                             ReadEmbeddings
<1>4. There("metadata") => files[region]["metadata"] = request[region].fp
    BY DEF There, RegionInv, RegionTypeOK, FilesInv
\* The file is still the one r has looked at, so a directory of its fingerprint tells of it.
<1>5. ASSUME Alone(r), NEW p \in {"records", "embeddings"}, There(p), request[r].step \in Reads
      PROVE  files[region][p] = request[r].fp
    <2>1. r \in Running /\ region \in Requests /\ request[region].fp = request[r].fp
        BY <1>5 DEF There, Running, Reads, RegionInv, RegionTypeOK, ReadInv
    <2>2. video = request[r].fp
        BY <1>5, <2>1 DEF RegionInv, BesideInv, Alone
    <2>3. files[region][p] \in request[region].fp..video
        BY <1>5, <2>1 DEF RegionInv, FilesInv, There
    <2> QED BY <2>1, <2>2, <2>3 DEF RegionInv, RegionTypeOK
<1>6. ASSUME Alone(r)
      PROVE  /\ request'[r].step \in Reads /\ region # Nothing => request[region].fp = request[r].fp
             /\ request'[r].step \in {"embeddings"} \cup Writes \cup {"served"} => request'[r].records = request[r].fp
             /\ request'[r].step \in Writes \cup {"served"} => request'[r].embeddings = request[r].fp
    <2>1. CASE LookAtFiles(r)
        BY <2>1 DEF LookAtFiles, RegionAt, Goto, Reads, Writes, RegionInv, RegionTypeOK
    <2>2. CASE ReadMetadata(r)
        BY <1>4, <2>2 DEF ReadMetadata, RegionAt, Goto, Reads, Writes, RegionInv, RegionTypeOK
    <2>3. CASE ReadRecords(r)
        BY <1>5, <1>6, <2>3 DEF ReadRecords, RegionAt, Reads, Writes, RegionInv, RegionTypeOK, ReadInv
    <2>4. CASE ReadEmbeddings(r)
        BY <1>5, <1>6, <2>4 DEF ReadEmbeddings, RegionAt, Goto, Reads, Writes, RegionInv, RegionTypeOK, ReadInv
    <2> QED BY <2>1, <2>2, <2>3, <2>4
<1>7. ReadInv'
    BY <1>1, <1>6, GoesOnRead
<1> QED BY <1>2, <1>3, <1>7 DEF RegionInv

LEMMA RegionInvDecode ==
    ASSUME RegionInv, NEW r \in Requests, RegionTypeOK', Decode(r)
    PROVE  RegionInv'
<1>1. GoesOn(r) /\ UNCHANGED <<files, region>> /\ r \in Running
    BY DEF RegionInv, RegionTypeOK, GoesOn, Running, RegionAt, Goto, Decode
<1>2. request[r].fp \in 0..video /\ (Alone(r) => video = request[r].fp)
    BY <1>1 DEF RegionInv, RegionTypeOK, BesideInv, Alone
<1>3. \/ request'[r].step = "stage" /\ request'[r].records = video /\ request'[r].embeddings = video
      \/ request'[r].step = "failed"
    BY DEF Decode, Goto, RegionInv, RegionTypeOK
<1>4. BesideInv'
    BY <1>1, GoesOnBeside
<1>5. FilesInv'
    <2>1. request'[r].step = "stage" =>
              {request'[r].records, request'[r].embeddings} \subseteq request[r].fp..video
        BY <1>2, <1>3 DEF RegionInv, RegionTypeOK
    <2> QED BY <1>1, <2>1, GoesOnFiles DEF Decode, RegionAt
<1>6. ReadInv'
    BY <1>1, <1>2, <1>3, GoesOnRead DEF Reads, Writes
<1> QED BY <1>4, <1>5, <1>6 DEF RegionInv

\* put, up to the deletion of what it replaces.
LEMMA RegionInvStage ==
    ASSUME RegionInv, NEW r \in Requests, RegionTypeOK', Stage(r)
    PROVE  RegionInv'
<1>1. GoesOn(r) /\ region' = region /\ r \in Running /\ request[r].step = "stage"
    BY DEF RegionInv, RegionTypeOK, GoesOn, Running, RegionAt, Goto, Stage
<1>2. request'[r].step \in {"look", "served"} /\ UNCHANGED <<request[r].records, request[r].embeddings>>
    BY DEF Stage, Goto, RegionInv, RegionTypeOK
<1>3. BesideInv'
    BY <1>1, GoesOnBeside
<1>4. /\ \A d \in Requests \ {r} : files'[d] = files[d]
      /\ files'[r] # Empty => request'[r].step = "look" \/ files'[r] = files[r]
      /\ "metadata" \in DOMAIN files'[r] => files'[r]["metadata"] = request[r].fp \/ files'[r] = files[r]
      /\ \A p \in DOMAIN files'[r] \ {"metadata"} :
             files'[r][p] \in {request[r].records, request[r].embeddings} \/ files'[r] = files[r]
    BY DEF Stage, Goto, RegionInv, RegionTypeOK, Parts
<1>5. files[r] = Empty /\ region # r /\ DOMAIN Empty = {}
    BY <1>1, EmptyIsDirectory DEF RegionInv, FilesInv
<1>6. {request[r].records, request[r].embeddings} \subseteq request[r].fp..video
    BY <1>1 DEF RegionInv, FilesInv
<1>7. FilesInv'
    <2> SUFFICES ASSUME NEW d \in Requests
                 PROVE  FilesInv!(d)'
        BY DEF FilesInv
    <2>1. CASE d = r
        BY <1>1, <1>2, <1>4, <1>5, <1>6, <2>1 DEF GoesOn
    <2>2. CASE d # r
        BY <1>1, <1>4, <2>2 DEF GoesOn, RegionInv, FilesInv
    <2> QED BY <2>1, <2>2
<1>8. ReadInv'
    BY <1>1, <1>2, GoesOnRead DEF RegionInv, ReadInv, Reads, Writes
<1> QED BY <1>3, <1>7, <1>8 DEF RegionInv

LEMMA RegionInvOpen ==
    ASSUME RegionInv, NEW r \in Requests, RegionTypeOK', LookForOld(r) \/ OpenOld(r)
    PROVE  RegionInv'
<1>1. /\ GoesOn(r) /\ UNCHANGED <<files, region>> /\ request[r].step \in {"look", "open"}
      /\ request'[r].step \in {"open", "rename", "sweep"}
      /\ UNCHANGED <<request[r].records, request[r].embeddings>>
    BY DEF RegionInv, RegionTypeOK, GoesOn, Running, RegionAt, Goto, LookForOld, OpenOld
<1>2. BesideInv'
    BY <1>1, GoesOnBeside
<1>3. FilesInv'
    BY <1>1 DEF GoesOn, RegionInv, FilesInv
<1>4. ReadInv'
    BY <1>1, GoesOnRead DEF RegionInv, ReadInv, Reads, Writes
<1> QED BY <1>2, <1>3, <1>4 DEF RegionInv

LEMMA RegionInvSweepFile ==
    ASSUME RegionInv, NEW r \in Requests, RegionTypeOK', SweepFile(r)
    PROVE  RegionInv'
<1>1. request[r].dir \in Requests /\ UNCHANGED <<video, region, request, beside>>
    BY DEF RegionInv, RegionTypeOK, SweepFile, RegionAt
<1>2. PICK p \in DOMAIN files[request[r].dir] :
          files' = [files EXCEPT ![request[r].dir] = [q \in DOMAIN @ \ {p} |-> @[q]]]
    BY DEF SweepFile
<1>3. BesideInv' /\ ReadInv'
    BY <1>1 DEF RegionInv, BesideInv, ReadInv, Running, Alone
<1>4. \A d \in Requests :
          /\ DOMAIN files'[d] \subseteq DOMAIN files[d]
          /\ \A q \in DOMAIN files'[d] : files'[d][q] = files[d][q]
          /\ files'[d] # files[d] => files[d] # Empty
    BY <1>1, <1>2, EmptyIsDirectory DEF RegionInv, RegionTypeOK
<1>5. FilesInv'
    BY <1>1, <1>4 DEF RegionInv, FilesInv
<1> QED BY <1>3, <1>5 DEF RegionInv

LEMMA RegionInvSweepName ==
    ASSUME RegionInv, NEW r \in Requests, RegionTypeOK', SweepName(r)
    PROVE  RegionInv'
<1>1. /\ GoesOn(r) /\ files' = files /\ region' \in {region, Nothing}
      /\ request[r].step = "sweep" /\ request'[r].step = "rename"
      /\ UNCHANGED <<request[r].records, request[r].embeddings>>
    BY DEF RegionInv, RegionTypeOK, GoesOn, Running, RegionAt, Goto, SweepName
<1>2. BesideInv'
    BY <1>1, GoesOnBeside
<1>3. FilesInv'
    BY <1>1, RegionAssumption DEF GoesOn, RegionInv, FilesInv
<1>4. ReadInv'
    <2>1. \A q \in Requests : (Alone(q)' <=> Alone(q)) /\ request'[q].fp = request[q].fp
        BY <1>1 DEF GoesOn, Alone
    <2>2. \A q \in Requests \ {r} : request'[q] = request[q]
        BY <1>1 DEF GoesOn
    <2>3. region # Nothing => region \in Requests
        BY DEF RegionInv, RegionTypeOK
    <2> QED BY <1>1, <2>1, <2>2, <2>3 DEF RegionInv, ReadInv, Reads, Writes
<1> QED BY <1>2, <1>3, <1>4 DEF RegionInv

\* The new directory is of a request that ran beside whoever is reading.
LEMMA RegionInvRename ==
    ASSUME RegionInv, NEW r \in Requests, RegionTypeOK', RenameRegion(r)
    PROVE  RegionInv'
<1>1. /\ GoesOn(r) /\ r \in Running
      /\ request[r].step = "rename" /\ request'[r].step = "served"
      /\ UNCHANGED <<request[r].records, request[r].embeddings>>
      /\ \/ region' = r /\ files' = files
         \/ region' = region /\ files' = [files EXCEPT ![r] = Empty]
    BY DEF RegionInv, RegionTypeOK, GoesOn, Running, RegionAt, Goto, RenameRegion
<1>2. BesideInv'
    BY <1>1, GoesOnBeside
<1>3. FilesInv'
    <2>1. \A d \in Requests : files'[d] \in {files[d], Empty}
        BY <1>1 DEF RegionInv, RegionTypeOK
    <2>2. \A d \in Requests : region' = d => region = d \/ d = r
        BY <1>1
    <2> QED BY <1>1, <2>1, <2>2, EmptyIsDirectory DEF GoesOn, RegionInv, FilesInv
<1>4. ReadInv'
    <2>1. \A q \in Requests : (Alone(q)' <=> Alone(q)) /\ request'[q].fp = request[q].fp
        BY <1>1 DEF GoesOn, Alone
    <2>2. \A q \in Requests \ {r} : request'[q] = request[q]
        BY <1>1 DEF GoesOn
    <2>3. \A q \in Requests \ {r} : Alone(q) /\ request[q].step \in Reads => request[r].fp = request[q].fp
        BY <1>1 DEF RegionInv, BesideInv, Running, Alone, Reads
    <2>4. region' # Nothing => region' \in Requests
        BY DEF RegionTypeOK
    <2> QED BY <1>1, <2>1, <2>2, <2>3, <2>4 DEF RegionInv, ReadInv, Reads, Writes
<1> QED BY <1>2, <1>3, <1>4 DEF RegionInv

LEMMA RegionInvNext == RegionInv /\ [RegionNext]_regionVars => RegionInv'
<1> SUFFICES ASSUME RegionInv, [RegionNext]_regionVars PROVE RegionInv'
    OBVIOUS
<1>1. CASE UNCHANGED regionVars
    BY <1>1 DEF regionVars, RegionInv, RegionTypeOK, BesideInv, FilesInv, ReadInv, Running, Alone
<1>2. CASE ReplaceVideo
    BY <1>2, RegionInvReplaceVideo
<1>3. ASSUME NEW r \in Requests, RegionStep(r) PROVE RegionInv'
    <2>1. RegionTypeOK'
        BY <1>3, RegionTypeStep
    <2> QED
        BY <1>3, <2>1, RegionInvFingerprint, RegionInvGet, RegionInvDecode, RegionInvStage, RegionInvOpen,
           RegionInvSweepFile, RegionInvSweepName, RegionInvRename DEF RegionStep
<1> QED BY <1>1, <1>2, <1>3 DEF RegionNext

\* What a request that runs alone is served is what it has looked at.
LEMMA RegionInvIsWhole == RegionInv => RegionIsWhole
    BY DEF RegionInv, ReadInv, Writes, Alone, RegionIsWhole, RegionAt

\* A request is served the frames and the embeddings of the version it has looked at,
\* unless another version is in use beside it: for any number of requests that read,
\* decode, sweep and rename at the same time.
THEOREM RegionsAreWhole == RegionSpec => []RegionIsWhole
    BY RegionInvInit, RegionInvNext, RegionInvIsWhole, PTL DEF RegionSpec

-----------------------------------------------------------------------------
(* VideoSource.  The file in the cache appears once: whoever downloads     *)
(* holds the lock and has found no file, and nobody has been served before.*)

PlayerSteps == {"idle", "resolve", "lock", "connect", "read", "serve", "answered"}

Replies == [step : PlayerSteps, status : Nat, range : Ranges \cup {0}, from : Int, to : Int, size : Int]

SourceOK == source \in Sources

VideoTypeOK ==
    /\ cached \in Nat \cup {NoFile}
    /\ holder \in Players \cup {NoFile}
    /\ part \in Nat
    /\ player \in [Players -> Replies]
    /\ \A p \in Players : player[p].step # "idle" => player[p].range \in Ranges

Downloads == {"connect", "read"}
Given == {200, 206, 416}

\* Somebody may be served: there is the file, or the directory of the sources.
Available == cached # NoFile \/ source = "directory"

LockInv ==
    /\ \A p \in Players : player[p].step \in Downloads => holder = p /\ cached = NoFile
    /\ \A p \in Players : player[p].step \in Downloads \cup {"lock"} => source = "remote"

ServedInv ==
    \A p \in Players :
        /\ player[p].step = "serve" => Available
        /\ player[p].step = "answered" /\ player[p].status \in Given => Available

VideoInv == VideoTypeOK /\ SourceOK /\ LockInv /\ ServedInv /\ OneFileIsServed

VideoSpec == VideoInit /\ [][VideoNext]_videoVars

LEMMA VideoInvInit == VideoInit => VideoInv
<1> SUFFICES ASSUME VideoInit PROVE VideoInv
    OBVIOUS
<1>1. NoReply \in Replies /\ NoReply.step = "idle"
    BY DEF NoReply, Replies, PlayerSteps
<1>2. \A p \in Players : player[p] = NoReply
    BY DEF VideoInit
<1>3. VideoTypeOK /\ SourceOK
    BY <1>1 DEF VideoInit, VideoTypeOK, SourceOK
<1>4. LockInv /\ ServedInv /\ OneFileIsServed
    BY <1>1, <1>2 DEF LockInv, Downloads, ServedInv, OneFileIsServed, PlayerAt
<1> QED BY <1>3, <1>4 DEF VideoInv

-----------------------------------------------------------------------------
(* The ranges *)

\* What is sent for a range that can be satisfied is what was asked for in the file,
\* and nothing of the file was asked for if it cannot.
LEMMA RangeIsRight ==
    ASSUME NEW r \in Ranges, NEW size \in Nat
    PROVE  /\ Satisfiable(r, size) =>
                  First(r, size)..(IF LastOf(r, size) < size - 1 THEN LastOf(r, size) ELSE size - 1) = Wanted(r, size)
           /\ r.kind = "none" => 0..(size - 1) = Wanted(r, size)
           /\ ~Satisfiable(r, size) /\ r.kind # "none" => Wanted(r, size) = {}
<1>0. r.first \in Nat /\ r.last \in Int /\ r.kind \in {"none", "first", "both", "last", "many"}
    BY VideoAssumption
<1>1. CASE r.kind = "none"
    BY <1>0, <1>1 DEF Satisfiable, Wanted
<1>2. CASE r.kind = "first"
    BY <1>0, <1>2 DEF Satisfiable, Wanted, First, LastOf
<1>3. CASE r.kind = "both"
    BY <1>0, <1>3 DEF Satisfiable, Wanted, First, LastOf
<1>4. CASE r.kind = "last"
    BY <1>0, <1>4 DEF Satisfiable, Wanted, First, LastOf
<1>5. CASE r.kind = "many"
    BY <1>0, <1>5 DEF Satisfiable, Wanted
<1> QED BY <1>0, <1>1, <1>2, <1>3, <1>4, <1>5

-----------------------------------------------------------------------------
(* Steps *)

\* The records of the replies.
OnlyChanges(p, step, status, range) ==
    /\ player' \in [Players -> Replies]
    /\ player'[p].step = step /\ player'[p].status = status /\ player'[p].range = range
    /\ \A q \in Players \ {p} : player'[q] = player[q]

LEMMA OneReply ==
    ASSUME player \in [Players -> Replies], NEW p \in Players, NEW v \in Replies, player' = [player EXCEPT ![p] = v]
    PROVE  OnlyChanges(p, v.step, v.status, v.range)
    BY DEF OnlyChanges

LEMMA NewStep ==
    ASSUME player \in [Players -> Replies], NEW p \in Players, NEW step \in PlayerSteps, PlayerTo(p, step)
    PROVE  OnlyChanges(p, step, player[p].status, player[p].range)
<1> DEFINE v == [player[p] EXCEPT !.step = step]
<1>1. v \in Replies /\ v.step = step /\ v.status = player[p].status /\ v.range = player[p].range
    BY DEF Replies
<1>2. player' = [player EXCEPT ![p] = v]
    BY DEF PlayerTo
<1> HIDE DEF v
<1> QED BY <1>1, <1>2, OneReply

LEMMA Refusal ==
    ASSUME player \in [Players -> Replies], NEW p \in Players, NEW status \in Nat, Refuse(p, status)
    PROVE  OnlyChanges(p, "answered", status, player[p].range)
<1> DEFINE v == [player[p] EXCEPT !.step = "answered", !.status = status]
<1>1. v \in Replies /\ v.step = "answered" /\ v.status = status /\ v.range = player[p].range
    BY DEF Replies, PlayerSteps
<1>2. player' = [player EXCEPT ![p] = v]
    BY DEF Refuse
<1> HIDE DEF v
<1> QED BY <1>1, <1>2, OneReply

\* The step of a player that is not answered with the file, as long as the file stays.
LEMMA ServedStays ==
    ASSUME VideoInv, NEW p \in Players, cached' = cached, \A q \in Players \ {p} : player'[q] = player[q],
           player'[p].step = "answered" => player'[p].status \notin Given
    PROVE  OneFileIsServed'
<1> SUFFICES ASSUME NEW q \in Players, player'[q].step = "answered", player'[q].status \in Given
             PROVE  /\ player'[q].size = Size
                    /\ player'[q].status \in {200, 206} =>
                           player'[q].from..player'[q].to = Wanted(player'[q].range, Size)
                    /\ player'[q].status = 416 => Wanted(player'[q].range, Size) = {}
    BY DEF OneFileIsServed, PlayerAt, Size, Given
<1>1. q # p
    OBVIOUS
<1> QED BY <1>1 DEF VideoInv, OneFileIsServed, PlayerAt, Given

\* The reply to one player.
LEMMA VideoInvServe ==
    ASSUME VideoInv, NEW p \in Players, Serve(p)
    PROVE  VideoInv'
<1> DEFINE r == player[p].range
<1>1. /\ player[p].step = "serve" /\ r \in Ranges /\ Size \in Nat /\ Available
      /\ UNCHANGED <<source, cached, holder, part>>
    BY VideoAssumption DEF VideoInv, VideoTypeOK, ServedInv, Serve, PlayerAt, Size
<1>2. /\ player'[p].step = "answered" /\ player'[p].range = r /\ player'[p].size = Size
      /\ player'[p].status = (IF r.kind = "none" THEN 200 ELSE IF Satisfiable(r, Size) THEN 206 ELSE 416)
      /\ player'[p].from = (IF r.kind = "none" THEN 0 ELSE IF Satisfiable(r, Size) THEN First(r, Size) ELSE 0)
      /\ player'[p].to = (IF r.kind = "none" THEN Size - 1
                          ELSE IF ~Satisfiable(r, Size) THEN -1
                          ELSE IF LastOf(r, Size) < Size - 1 THEN LastOf(r, Size) ELSE Size - 1)
      /\ \A q \in Players \ {p} : player'[q] = player[q]
    BY <1>1 DEF VideoInv, VideoTypeOK, Serve
<1>3. VideoTypeOK'
    <2>1. r.first \in Nat /\ r.last \in Int
        BY <1>1, VideoAssumption
    <2>2. First(r, Size) \in Int /\ LastOf(r, Size) \in Int
        BY <1>1, <2>1 DEF First, LastOf
    <2> DEFINE status == IF r.kind = "none" THEN 200 ELSE IF Satisfiable(r, Size) THEN 206 ELSE 416
               from   == IF r.kind = "none" THEN 0 ELSE IF Satisfiable(r, Size) THEN First(r, Size) ELSE 0
               to     == IF r.kind = "none" THEN Size - 1
                         ELSE IF ~Satisfiable(r, Size) THEN -1
                         ELSE IF LastOf(r, Size) < Size - 1 THEN LastOf(r, Size) ELSE Size - 1
    <2>3. player' = [player EXCEPT ![p] = [@ EXCEPT !.step = "answered", !.size = Size, !.status = status,
                                                    !.from = from, !.to = to]]
        BY DEF Serve
    <2>4. status \in Nat /\ from \in Int /\ to \in Int
        BY <1>1, <2>2
    <2> HIDE DEF status, from, to
    <2> DEFINE new == [player[p] EXCEPT !.step = "answered", !.size = Size, !.status = status,
                                        !.from = from, !.to = to]
    <2>5. player[p] \in Replies /\ Size \in Int
        BY <1>1 DEF VideoInv, VideoTypeOK
    <2>6. new \in Replies
        BY <2>4, <2>5 DEF Replies, PlayerSteps
    <2>7. player' = [player EXCEPT ![p] = new]
        BY <2>3
    <2>8. player' \in [Players -> Replies]
        <3> HIDE DEF new
        <3> QED BY <2>6, <2>7, OneReply DEF VideoInv, VideoTypeOK, OnlyChanges
    <2> QED BY <1>1, <1>2, <2>8 DEF VideoInv, VideoTypeOK
<1>4. SourceOK' /\ LockInv' /\ ServedInv'
    BY <1>1, <1>2 DEF VideoInv, LockInv, SourceOK, ServedInv, Available, Downloads
<1>5. OneFileIsServed'
    <2> SUFFICES ASSUME NEW q \in Players, player'[q].step = "answered", player'[q].status \in Given
                 PROVE  /\ player'[q].size = Size
                        /\ player'[q].status \in {200, 206} =>
                               player'[q].from..player'[q].to = Wanted(player'[q].range, Size)
                        /\ player'[q].status = 416 => Wanted(player'[q].range, Size) = {}
        BY <1>1 DEF OneFileIsServed, PlayerAt, Size, Given
    <2>1. CASE q = p
        <3>1. CASE r.kind = "none"
            BY <1>1, <1>2, <2>1, <3>1, RangeIsRight
        <3>2. CASE r.kind # "none" /\ Satisfiable(r, Size)
            BY <1>1, <1>2, <2>1, <3>2, RangeIsRight
        <3>3. CASE r.kind # "none" /\ ~Satisfiable(r, Size)
            BY <1>1, <1>2, <2>1, <3>3, RangeIsRight
        <3> QED BY <3>1, <3>2, <3>3
    <2>2. CASE q # p
        BY <1>2, <2>2 DEF VideoInv, OneFileIsServed, PlayerAt, Given
    <2> QED BY <2>1, <2>2
<1> QED BY <1>3, <1>4, <1>5 DEF VideoInv

\* A step that leaves the file and the lock alone: p asks, waits, or is refused.
LEMMA VideoInvGoesOn ==
    ASSUME VideoInv, NEW p \in Players, UNCHANGED <<source, cached, holder>>, part' \in Nat,
           player' \in [Players -> Replies], \A q \in Players \ {p} : player'[q] = player[q],
           player'[p].range \in Ranges,
           player'[p].step \in Downloads => player[p].step \in Downloads,
           player'[p].step = "lock" => source = "remote",
           player'[p].step = "serve" => Available,
           player'[p].step = "answered" => player'[p].status \notin Given
    PROVE  VideoInv'
<1>1. VideoTypeOK'
    BY DEF VideoInv, VideoTypeOK
<1>2. SourceOK' /\ LockInv' /\ ServedInv'
    BY DEF VideoInv, LockInv, SourceOK, ServedInv, Available, Downloads
<1>3. OneFileIsServed'
    BY ServedStays
<1> QED BY <1>1, <1>2, <1>3 DEF VideoInv

\* The request, and the first look at the cache.
LEMMA VideoInvAsk ==
    ASSUME VideoInv, NEW p \in Players, Request(p) \/ Resolve(p)
    PROVE  VideoInv'
<1>0. player \in [Players -> Replies] /\ player[p] \in Replies
    BY DEF VideoInv, VideoTypeOK
<1>1. CASE Request(p)
    <2>1. PICK r \in Ranges : player' = [player EXCEPT ![p].range = r, ![p].step = "resolve"]
        BY <1>1 DEF Request
    <2> DEFINE v == [player[p] EXCEPT !.range = r, !.step = "resolve"]
    <2>2. v \in Replies /\ v.step = "resolve" /\ v.range = r /\ player' = [player EXCEPT ![p] = v]
        BY <1>0, <2>1 DEF Replies, PlayerSteps
    <2> HIDE DEF v
    <2>3. OnlyChanges(p, "resolve", v.status, r)
        BY <1>0, <2>2, OneReply
    <2>4. UNCHANGED <<source, cached, holder>> /\ part' \in Nat
        BY <1>1 DEF Request, VideoInv, VideoTypeOK
    <2> QED BY <2>3, <2>4, VideoInvGoesOn DEF Downloads, OnlyChanges
<1>2. CASE Resolve(p)
    <2>1. /\ player[p].step = "resolve" /\ player[p].range \in Ranges
          /\ UNCHANGED <<source, cached, holder>> /\ part' \in Nat
        BY <1>2 DEF Resolve, PlayerAt, VideoInv, VideoTypeOK
    <2>2. CASE cached # NoFile \/ source = "directory"
        <3>1. PlayerTo(p, "serve")
            BY <1>2, <2>2 DEF Resolve
        <3>2. OnlyChanges(p, "serve", player[p].status, player[p].range)
            BY <1>0, <3>1, NewStep DEF PlayerSteps
        <3> QED BY <2>1, <2>2, <3>2, VideoInvGoesOn DEF Downloads, Available, OnlyChanges
    <2>3. CASE cached = NoFile /\ source = "remote"
        <3>1. PlayerTo(p, "lock")
            BY <1>2, <2>3 DEF Resolve
        <3>2. OnlyChanges(p, "lock", player[p].status, player[p].range)
            BY <1>0, <3>1, NewStep DEF PlayerSteps
        <3> QED BY <2>1, <2>3, <3>2, VideoInvGoesOn DEF Downloads, OnlyChanges
    <2>4. CASE cached = NoFile /\ source \in {"bad url", "none"}
        <3>1. PICK status \in {404, 503} : Refuse(p, status)
            BY <1>2, <2>4 DEF Resolve
        <3>2. OnlyChanges(p, "answered", status, player[p].range)
            BY <1>0, <3>1, Refusal
        <3> QED BY <2>1, <3>2, VideoInvGoesOn DEF Downloads, Given, OnlyChanges
    <2>5. source \in {"none", "directory", "remote", "bad url"}
        BY VideoAssumption DEF VideoInv, SourceOK
    <2> QED BY <2>2, <2>3, <2>4, <2>5
<1> QED BY <1>1, <1>2

\* A player that held the lock, or got it, is refused.
LEMMA VideoInvAbort ==
    ASSUME VideoInv, NEW p \in Players, player[p].step \in Downloads, Abort(p), UNCHANGED <<source, cached>>
    PROVE  VideoInv'
<1>1. /\ holder' = NoFile /\ part' = 0 /\ player' \in [Players -> Replies]
      /\ player'[p].range = player[p].range /\ player'[p].step = "answered" /\ player'[p].status = 503
      /\ \A q \in Players \ {p} : player'[q] = player[q]
    <2>1. player \in [Players -> Replies] /\ Refuse(p, 503) /\ holder' = NoFile /\ part' = 0
        BY DEF VideoInv, VideoTypeOK, Abort
    <2> QED BY <2>1, Refusal DEF OnlyChanges
<1>2. player[p].range \in Ranges /\ holder = p /\ \A q \in Players \ {p} : player[q].step \notin Downloads
    BY DEF VideoInv, VideoTypeOK, LockInv, Downloads
<1>3. VideoTypeOK'
    BY <1>1, <1>2 DEF VideoInv, VideoTypeOK
<1>4. SourceOK' /\ LockInv' /\ ServedInv'
    BY <1>1, <1>2 DEF VideoInv, LockInv, SourceOK, ServedInv, Available, Downloads, Given
<1>5. OneFileIsServed'
    BY <1>1, ServedStays DEF Given
<1> QED BY <1>3, <1>4, <1>5 DEF VideoInv

\* Nobody else holds the lock, so whoever gets it is alone with the file.
LEMMA VideoInvLock ==
    ASSUME VideoInv, NEW p \in Players, LockVideo(p)
    PROVE  VideoInv'
<1>1. /\ player[p].step = "lock" /\ holder = NoFile /\ UNCHANGED <<source, cached, part>>
      /\ player' \in [Players -> Replies] /\ player'[p].range = player[p].range
      /\ \A q \in Players \ {p} : player'[q] = player[q]
      /\ \/ cached # NoFile /\ player'[p].step = "serve" /\ holder' = holder
         \/ cached = NoFile /\ player'[p].step = "connect" /\ holder' = p
    BY DEF VideoInv, VideoTypeOK, Replies, PlayerSteps, LockVideo, PlayerAt, PlayerTo
<1>2. source = "remote" /\ player[p].range \in Ranges /\ \A q \in Players : player[q].step \notin Downloads
    BY <1>1, NoFileAssumption DEF VideoInv, VideoTypeOK, LockInv, Downloads
<1>3. VideoTypeOK'
    BY <1>1, <1>2 DEF VideoInv, VideoTypeOK
<1>4. SourceOK' /\ LockInv' /\ ServedInv'
    BY <1>1, <1>2 DEF VideoInv, LockInv, SourceOK, ServedInv, Available, Downloads
<1>5. OneFileIsServed'
    BY <1>1, ServedStays DEF Given
<1> QED BY <1>3, <1>4, <1>5 DEF VideoInv

\* The connection, and the chunks that come in.
LEMMA VideoInvRead ==
    ASSUME VideoInv, NEW p \in Players, Connect(p) \/ ReadChunk(p) \/ LoseConnection(p)
    PROVE  VideoInv'
<1>1. player[p].step \in Downloads /\ player[p].range \in Ranges /\ UNCHANGED <<source, cached>>
    BY DEF VideoInv, VideoTypeOK, Connect, ReadChunk, LoseConnection, PlayerAt, Downloads
<1>2. \/ Abort(p)
      \/ PlayerTo(p, "read") /\ part' = 0 /\ holder' = holder
      \/ part' = part + 1 /\ UNCHANGED <<holder, player>>
    BY DEF Connect, ReadChunk, LoseConnection
<1>3. CASE Abort(p)
    BY <1>1, <1>3, VideoInvAbort
<1>4. CASE PlayerTo(p, "read") /\ part' = 0 /\ holder' = holder
    <2>1. /\ player' \in [Players -> Replies] /\ player'[p].range = player[p].range /\ player'[p].step = "read"
          /\ \A q \in Players \ {p} : player'[q] = player[q]
        BY <1>4 DEF VideoInv, VideoTypeOK, Replies, PlayerSteps, PlayerTo
    <2> QED BY <1>1, <1>4, <2>1, VideoInvGoesOn DEF Downloads
<1>5. CASE part' = part + 1 /\ UNCHANGED <<holder, player>>
    BY <1>1, <1>5, VideoInvGoesOn DEF VideoInv, VideoTypeOK, Downloads
<1> QED BY <1>2, <1>3, <1>4, <1>5

\* The file appears: nobody has been served yet.
LEMMA VideoInvEnd ==
    ASSUME VideoInv, NEW p \in Players, EndOfBody(p)
    PROVE  VideoInv'
<1>1. /\ player[p].step = "read" /\ cached' = part /\ part' = 0 /\ holder' = NoFile /\ source' = source
      /\ OnlyChanges(p, "serve", player[p].status, player[p].range)
    BY NewStep DEF VideoInv, VideoTypeOK, PlayerSteps, EndOfBody, PlayerAt
<1>2. /\ player[p].range \in Ranges /\ holder = p /\ ~Available /\ part \in Nat
      /\ \A q \in Players \ {p} : player[q].step \notin Downloads
    <2>1. holder = p /\ cached = NoFile /\ source = "remote"
        BY <1>1 DEF VideoInv, LockInv, Downloads
    <2>2. player[p].range \in Ranges /\ part \in Nat
        BY <1>1 DEF VideoInv, VideoTypeOK
    <2>3. \A q \in Players \ {p} : player[q].step \notin Downloads
        BY <2>1 DEF VideoInv, LockInv
    <2> QED BY <2>1, <2>2, <2>3 DEF Available
<1>3. VideoTypeOK'
    <2>1. \A q \in Players : player'[q].step # "idle" => player'[q].range \in Ranges
        BY <1>1, <1>2 DEF OnlyChanges, VideoInv, VideoTypeOK
    <2>2. cached' \in Nat /\ part' \in Nat /\ holder' = NoFile /\ player' \in [Players -> Replies]
        BY <1>1, <1>2 DEF OnlyChanges
    <2> QED BY <2>1, <2>2 DEF VideoTypeOK
<1>4. SourceOK' /\ LockInv' /\ ServedInv'
    <2>1. part \in Nat /\ NoFile \notin Nat
        BY <1>2, NoFileAssumption
    <2>2. Available'
        BY <1>1, <2>1 DEF Available
    <2>3. SourceOK' /\ ServedInv'
        BY <1>1, <2>2 DEF VideoInv, SourceOK, ServedInv
    <2>4. LockInv'
        BY <1>1, <1>2 DEF OnlyChanges, VideoInv, LockInv, Downloads
    <2> QED BY <2>3, <2>4
<1>5. \A q \in Players : ~(player'[q].step = "answered" /\ player'[q].status \in Given)
    BY <1>1, <1>2 DEF OnlyChanges, VideoInv, ServedInv
<1>6. OneFileIsServed'
    BY <1>5 DEF OneFileIsServed, PlayerAt, Given
<1> QED BY <1>3, <1>4, <1>6 DEF VideoInv

LEMMA VideoInvNext == VideoInv /\ [VideoNext]_videoVars => VideoInv'
<1> SUFFICES ASSUME VideoInv, [VideoNext]_videoVars PROVE VideoInv'
    OBVIOUS
<1>1. CASE UNCHANGED videoVars
    BY <1>1 DEF videoVars, VideoInv, VideoTypeOK, LockInv, SourceOK, ServedInv, Available, OneFileIsServed, PlayerAt, Size
<1>2. ASSUME NEW p \in Players, Request(p) \/ PlayerStep(p) PROVE VideoInv'
    BY <1>2, VideoInvAsk, VideoInvLock, VideoInvRead, VideoInvEnd, VideoInvServe DEF PlayerStep
<1> QED BY <1>1, <1>2 DEF OnlyChanges, VideoNext

\* All replies for a video are cut from one file, as they were asked for: for any number
\* of players, any sizes, and any ranges.
THEOREM OneFile == VideoSpec => []OneFileIsServed
<1>1. VideoInv => OneFileIsServed
    BY DEF VideoInv
<1> QED BY <1>1, VideoInvInit, VideoInvNext, PTL DEF VideoSpec

-----------------------------------------------------------------------------
(* The words of a query *)

\* A property of 0 that each number hands on to the next.
LEMMA UpTo ==
    ASSUME NEW N \in Nat, NEW S, 0 \in S, \A n \in 1..N : n - 1 \in S => n \in S
    PROVE  0..N \subseteq S
<1> DEFINE Bad == (0..N) \ S
<1> SUFFICES ASSUME Bad # {} PROVE FALSE
    OBVIOUS
<1>1. Bad \in SUBSET Nat
    OBVIOUS
<1>2. PICK n \in Bad : \A m \in Bad : n <= m
    <2> HIDE DEF Bad
    <2> QED BY <1>1, LeastNumber
<1>3. n \in 1..N /\ n - 1 \in 0..N /\ ~(n <= n - 1)
    BY <1>2
<1>4. n - 1 \in S
    BY <1>2, <1>3
<1> QED BY <1>2, <1>3, <1>4

\* A value for 0, and steps to the next numbers, make a function.
Stepping(step, N, V) == step \in [1..N -> [V -> V]]
Follows(f, base, step, N, V) == f \in [0..N -> V] /\ f[0] = base /\ \A n \in 1..N : f[n] = step[n][f[n - 1]]

LEMMA Recursion ==
    ASSUME NEW N \in Nat, NEW V, NEW base \in V, NEW step, Stepping(step, N, V)
    PROVE  \E f : Follows(f, base, step, N, V)
<1> DEFINE Sol(m, f) == f \in [0..m -> V] /\ f[0] = base /\ \A n \in 1..m : f[n] = step[n][f[n - 1]]
           Good == {m \in 0..N : \E f : Sol(m, f)}
<1>0. step \in [1..N -> [V -> V]]
    BY DEF Stepping
<1>1. 0 \in Good
    <2>1. Sol(0, [i \in 0..0 |-> base])
        OBVIOUS
    <2>2. 0 \in 0..N
        OBVIOUS
    <2> HIDE DEF Sol
    <2> QED BY <2>1, <2>2
<1>2. ASSUME NEW m \in 1..N, m - 1 \in Good
      PROVE  m \in Good
    <2>1. PICK f : Sol(m - 1, f)
        BY <1>2
    <2>2. m - 1 \in 0..(m - 1) /\ f[m - 1] \in V
        BY <2>1
    <2> DEFINE w == step[m][f[m - 1]]
               h == [i \in 0..m |-> IF i = m THEN w ELSE f[i]]
    <2>3. w \in V
        BY <1>0, <2>2
    <2>4. \A i \in 0..m : h[i] = IF i = m THEN w ELSE f[i]
        OBVIOUS
    <2>5. h \in [0..m -> V]
        <3>1. \A i \in 0..m : i # m => i \in 0..(m - 1)
            OBVIOUS
        <3>2. \A i \in 0..m : i # m => f[i] \in V
            BY <2>1, <3>1
        <3> HIDE DEF w
        <3> QED BY <2>3, <3>2
    <2>6. ASSUME NEW n \in 1..m PROVE h[n] = step[n][h[n - 1]]
        <3>0. n - 1 \in 0..m /\ n - 1 # m /\ h[n - 1] = f[n - 1]
            <4>1. n - 1 \in 0..m /\ n - 1 # m
                OBVIOUS
            <4> HIDE DEF h
            <4> QED BY <2>4, <4>1
        <3>1. CASE n = m
            <4> HIDE DEF h
            <4> QED BY <2>4, <3>0, <3>1
        <3>2. CASE n # m
            <4>1. n \in 1..(m - 1)
                BY <3>2
            <4>2. f[n] = step[n][f[n - 1]]
                BY <2>1, <4>1
            <4>3. h[n] = f[n]
                <5> HIDE DEF h
                <5> QED BY <2>4, <3>2
            <4> QED BY <3>0, <4>2, <4>3
        <3> QED BY <3>1, <3>2
    <2>7. h[0] = base
        <3>1. 0 \in 0..m /\ 0 # m
            OBVIOUS
        <3> HIDE DEF h
        <3> QED BY <2>1, <2>4, <3>1
    <2>8. Sol(m, h)
        <3> HIDE DEF h
        <3> QED BY <2>5, <2>6, <2>7
    <2>9. m \in 0..N
        OBVIOUS
    <2> HIDE DEF h, Sol
    <2> QED BY <2>8, <2>9
<1>3. N \in Good
    <2> HIDE DEF Good
    <2>1. 0..N \subseteq Good
        BY <1>1, <1>2, UpTo
    <2> QED BY <2>1
<1> QED BY <1>3 DEF Follows

-----------------------------------------------------------------------------
(* Words at positions *)

\* The words at the positions in I among the first n.
Selection(s, I) ==
    CHOOSE f : f = [n \in 0..Len(s) |-> IF n = 0 THEN <<>> ELSE IF n \in I THEN Append(f[n - 1], s[n]) ELSE f[n - 1]]

Selects(s, I, S, f) ==
    /\ f[0] = <<>>
    /\ \A n \in 1..Len(s) : f[n] = IF n \in I THEN Append(f[n - 1], s[n]) ELSE f[n - 1]
    /\ \A n \in 0..Len(s) : f[n] \in Seq(S)

LEMMA SelectionSelects ==
    ASSUME NEW S, NEW s \in Seq(S), NEW I
    PROVE  WordsAt(s, I) = Selection(s, I)[Len(s)] /\ Selects(s, I, S, Selection(s, I))
<1>1. WordsAt(s, I) = Selection(s, I)[Len(s)]
    BY DEF WordsAt, Selection
<1> DEFINE N == Len(s)
           step == [n \in 1..N |-> [v \in Seq(S) |-> IF n \in I THEN Append(v, s[n]) ELSE v]]
           Body(f) == [n \in 0..N |-> IF n = 0 THEN <<>> ELSE IF n \in I THEN Append(f[n - 1], s[n]) ELSE f[n - 1]]
           g == Selection(s, I)
<1>2. N \in Nat /\ \A n \in 1..N : s[n] \in S
    OBVIOUS
<1>3. \A n \in 1..N : \A v \in Seq(S) : Append(v, s[n]) \in Seq(S)
    BY <1>2
<1>4. step \in [1..N -> [Seq(S) -> Seq(S)]] /\ <<>> \in Seq(S)
    <2> HIDE DEF N
    <2> QED BY <1>3
<1>5. PICK f \in [0..N -> Seq(S)] : f[0] = <<>> /\ \A n \in 1..N : f[n] = step[n][f[n - 1]]
    <2> DEFINE V == Seq(S)
               base == <<>>
    <2> HIDE DEF step, N
    <2>1. base \in V /\ Stepping(step, N, V)
        BY <1>4 DEF Stepping
    <2> HIDE DEF V, base
    <2>2. \E f : Follows(f, base, step, N, V)
        BY <1>2, <2>1, Recursion
    <2> QED BY <2>2 DEF V, base, Follows
<1>6. \A n \in 0..N : n # 0 => n \in 1..N /\ n - 1 \in 0..N
    BY <1>2
<1>7. f = Body(f)
    <2> HIDE DEF N
    <2>1. ASSUME NEW n \in 0..N
          PROVE  f[n] = IF n = 0 THEN <<>> ELSE IF n \in I THEN Append(f[n - 1], s[n]) ELSE f[n - 1]
        <3>1. CASE n = 0
            BY <1>5, <3>1
        <3>2. CASE n # 0
            <4>1. n \in 1..N /\ n - 1 \in 0..N /\ f[n - 1] \in Seq(S)
                BY <1>5, <1>6, <3>2
            <4>2. step[n][f[n - 1]] = IF n \in I THEN Append(f[n - 1], s[n]) ELSE f[n - 1]
                BY <4>1
            <4> HIDE DEF step
            <4> QED BY <1>5, <3>2, <4>1, <4>2
        <3> QED BY <3>1, <3>2
    <2> HIDE DEF step
    <2> QED BY <1>5, <2>1
<1>8. g = Body(g)
    <2> HIDE DEF step
    <2> QED BY <1>7 DEF Selection
<1> HIDE DEF g, N, step
<1>9. g[0] = <<>> /\ \A n \in 1..N : g[n] = IF n \in I THEN Append(g[n - 1], s[n]) ELSE g[n - 1]
    <2> HIDE DEF step
    <2>1. \A n \in 0..N : g[n] = Body(g)[n]
        BY <1>8
    <2>2. \A n \in 0..N : g[n] = IF n = 0 THEN <<>> ELSE IF n \in I THEN Append(g[n - 1], s[n]) ELSE g[n - 1]
        BY <2>1
    <2>3. 0 \in 0..N
        BY <1>2
    <2> HIDE DEF Body
    <2> QED BY <2>2, <2>3, <1>6
<1>10. 0..N \subseteq {n \in 0..N : g[n] \in Seq(S)}
    <2> DEFINE T == {n \in 0..N : g[n] \in Seq(S)}
    <2>1. 0 \in T
        <3>1. 0 \in 0..N
            BY <1>2
        <3> QED BY <1>4, <1>9, <3>1
    <2>2. ASSUME NEW n \in 1..N, n - 1 \in T PROVE n \in T
        <3>1. g[n - 1] \in Seq(S) /\ Append(g[n - 1], s[n]) \in Seq(S)
            BY <1>3, <2>2
        <3>2. g[n] = IF n \in I THEN Append(g[n - 1], s[n]) ELSE g[n - 1]
            BY <1>9
        <3>3. n \in 0..N
            BY <1>2
        <3> QED BY <3>1, <3>2, <3>3
    <2> HIDE DEF T
    <2> QED BY <1>2, <2>1, <2>2, UpTo
<1>11. Selects(s, I, S, g)
    BY <1>9, <1>10 DEF Selects, N
<1> QED BY <1>1, <1>11 DEF g

LEMMA SetOfAppend ==
    ASSUME NEW S, NEW s \in Seq(S), NEW x \in S
    PROVE  ToSet(Append(s, x)) = ToSet(s) \cup {x}
<1>1. /\ Append(s, x) \in Seq(S) /\ Len(Append(s, x)) = Len(s) + 1 /\ Append(s, x)[Len(s) + 1] = x
      /\ \A i \in 1..Len(s) : Append(s, x)[i] = s[i]
      /\ Len(s) \in Nat /\ DOMAIN s = 1..Len(s) /\ DOMAIN Append(s, x) = 1..(Len(s) + 1)
    OBVIOUS
<1>2. 1..(Len(s) + 1) = 1..Len(s) \cup {Len(s) + 1}
    BY <1>1
<1> DEFINE t == Append(s, x)
<1> HIDE DEF t
<1>3. {t[i] : i \in 1..(Len(s) + 1)} = {s[i] : i \in 1..Len(s)} \cup {x}
    BY <1>1, <1>2 DEF t
<1> QED BY <1>1, <1>3 DEF ToSet, t

\* A selection has the words at the positions.
LEMMA SelectedWords ==
    ASSUME NEW S, NEW s \in Seq(S), NEW I
    PROVE  /\ WordsAt(s, I) \in Seq(S)
           /\ ToSet(WordsAt(s, I)) = {s[i] : i \in I \cap DOMAIN s}
<1> DEFINE N == Len(s)
           g == Selection(s, I)
           T == {n \in 0..N : ToSet(g[n]) = {s[i] : i \in I \cap (1..n)}}
<1>1. N \in Nat /\ DOMAIN s = 1..N
    OBVIOUS
<1>2. WordsAt(s, I) = g[N] /\ Selects(s, I, S, g)
    BY SelectionSelects
<1> HIDE DEF g
<1>3. /\ g[0] = <<>>
      /\ \A n \in 1..N : g[n] = IF n \in I THEN Append(g[n - 1], s[n]) ELSE g[n - 1]
      /\ \A n \in 0..N : g[n] \in Seq(S)
    BY <1>2 DEF Selects
<1> HIDE DEF N
<1>4. 0 \in T
    <2>1. ToSet(<<>>) = {}
        BY DEF ToSet
    <2>2. I \cap (1..0) = {}
        OBVIOUS
    <2> QED BY <1>1, <1>3, <2>1, <2>2
<1>5. ASSUME NEW n \in 1..N, n - 1 \in T PROVE n \in T
    <2>1. n \in 0..N /\ n - 1 \in 0..N /\ g[n - 1] \in Seq(S) /\ s[n] \in S
        BY <1>1, <1>3
    <2>2. ToSet(g[n - 1]) = {s[i] : i \in I \cap (1..(n - 1))}
        BY <1>5
    <2>3. CASE n \in I
        <3>1. ToSet(Append(g[n - 1], s[n])) = ToSet(g[n - 1]) \cup {s[n]}
            BY <2>1, SetOfAppend
        <3>2. I \cap (1..n) = (I \cap (1..(n - 1))) \cup {n}
            BY <1>1, <2>3
        <3>3. {s[i] : i \in I \cap (1..n)} = {s[i] : i \in I \cap (1..(n - 1))} \cup {s[n]}
            BY <3>2
        <3> QED BY <1>3, <2>1, <2>2, <2>3, <3>1, <3>3
    <2>4. CASE n \notin I
        <3>1. I \cap (1..n) = I \cap (1..(n - 1))
            BY <1>1, <2>4
        <3> QED BY <1>3, <2>1, <2>2, <2>4, <3>1
    <2> QED BY <2>3, <2>4
<1>6. N \in T
    <2> HIDE DEF T
    <2>1. 0..N \subseteq T
        BY <1>1, <1>4, <1>5, UpTo
    <2> QED BY <1>1, <2>1
<1>7. N \in 0..N
    BY <1>1
<1> QED BY <1>1, <1>2, <1>3, <1>6, <1>7

\* Each word once.
LEMMA DistinctWords ==
    ASSUME NEW S, NEW s \in Seq(S)
    PROVE  Distinct(s) \in Seq(S) /\ ToSet(Distinct(s)) = ToSet(s)
<1> DEFINE I == {i \in DOMAIN s : \A j \in 1..(i - 1) : s[j] # s[i]}
<1>1. Distinct(s) = WordsAt(s, I)
    BY DEF Distinct
<1>2. Distinct(s) \in Seq(S) /\ ToSet(Distinct(s)) = {s[i] : i \in I \cap DOMAIN s}
    <2> HIDE DEF I
    <2> QED BY <1>1, SelectedWords
<1>3. ASSUME NEW k \in DOMAIN s PROVE \E i \in I : s[i] = s[k]
    <2> DEFINE K == {i \in DOMAIN s : s[i] = s[k]}
    <2>1. K \in SUBSET Nat /\ K # {} /\ DOMAIN s = 1..Len(s) /\ Len(s) \in Nat
        OBVIOUS
    <2>2. PICK i \in K : \A j \in K : i <= j
        <3> HIDE DEF K
        <3> QED BY <2>1, LeastNumber
    <2>3. \A j \in 1..(i - 1) : j \in DOMAIN s /\ ~(i <= j)
        BY <2>1, <2>2
    <2>4. \A j \in 1..(i - 1) : s[j] # s[i]
        BY <2>2, <2>3
    <2> QED BY <2>2, <2>4
<1>4. {s[i] : i \in I \cap DOMAIN s} = {s[i] : i \in DOMAIN s}
    <2>1. I \subseteq DOMAIN s
        OBVIOUS
    <2> HIDE DEF I
    <2> QED BY <1>3, <2>1
<1> QED BY <1>2, <1>4 DEF ToSet

LEMMA SetOfConcat ==
    ASSUME NEW S, NEW s \in Seq(S), NEW t \in Seq(S)
    PROVE  s \o t \in Seq(S) /\ ToSet(s \o t) = ToSet(s) \cup ToSet(t)
<1> DEFINE m == Len(s)
           n == Len(t)
           u == s \o t
<1>1. /\ u \in Seq(S) /\ Len(u) = m + n /\ m \in Nat /\ n \in Nat
      /\ DOMAIN s = 1..m /\ DOMAIN t = 1..n /\ DOMAIN u = 1..(m + n)
      /\ \A i \in 1..m : u[i] = s[i]
      /\ \A i \in 1..n : u[m + i] = t[i]
    BY ConcatProperties
<1> HIDE DEF u, m, n
<1>2. \A i \in 1..(m + n) : i \in 1..m \/ (i - m \in 1..n /\ i = m + (i - m))
    BY <1>1
<1>3. \A i \in 1..(m + n) : u[i] \in {s[j] : j \in 1..m} \cup {t[j] : j \in 1..n}
    BY <1>1, <1>2
<1>4. \A i \in 1..m : i \in 1..(m + n)
    BY <1>1
<1>5. \A i \in 1..n : m + i \in 1..(m + n)
    BY <1>1
<1>6. {s[j] : j \in 1..m} \cup {t[j] : j \in 1..n} = {u[i] : i \in 1..(m + n)}
    BY <1>1, <1>3, <1>4, <1>5
<1> QED BY <1>1, <1>6 DEF ToSet, u

LEMMA SetOfTail ==
    ASSUME NEW S, NEW s \in Seq(S), s # <<>>
    PROVE  Tail(s) \in Seq(S) /\ ToSet(s) = ToSet(Tail(s)) \cup {Head(s)}
<1>1. /\ Tail(s) \in Seq(S) /\ Len(Tail(s)) = Len(s) - 1 /\ Head(s) = s[1] /\ Len(s) \in Nat \ {0}
      /\ DOMAIN s = 1..Len(s) /\ DOMAIN Tail(s) = 1..(Len(s) - 1)
      /\ \A i \in 1..(Len(s) - 1) : Tail(s)[i] = s[i + 1]
    OBVIOUS
<1> DEFINE n == Len(s)
           t == Tail(s)
<1> HIDE DEF n, t
<1>2. \A i \in 1..n : i = 1 \/ (i - 1 \in 1..(n - 1) /\ (i - 1) + 1 = i)
    BY <1>1 DEF n
<1>3. \A i \in 1..(n - 1) : i + 1 \in 1..n
    BY <1>1 DEF n
<1>4. 1 \in 1..n /\ \A i \in 1..(n - 1) : t[i] = s[i + 1]
    BY <1>1 DEF n, t
<1>5. {s[i] : i \in 1..n} = {t[i] : i \in 1..(n - 1)} \cup {s[1]}
    BY <1>2, <1>3, <1>4
<1> QED BY <1>1, <1>5 DEF ToSet, n, t

-----------------------------------------------------------------------------
(* Ordinary words *)

OrdinaryAt(q) == {i \in DOMAIN q : Ordinary(q[i])}

LEMMA OrdinarySelects ==
    ASSUME NEW S, NEW s \in Seq(S)
    PROVE  /\ OrdinaryWords(s) = Selection(s, OrdinaryAt(s))[Len(s)] /\ OrdinaryWords(s) \in Seq(S)
           /\ Selects(s, OrdinaryAt(s), S, Selection(s, OrdinaryAt(s)))
           /\ \A n \in 1..Len(s) : n \in OrdinaryAt(s) <=> Ordinary(s[n])
<1>1. OrdinaryWords(s) = WordsAt(s, OrdinaryAt(s))
    BY DEF OrdinaryWords, OrdinaryAt
<1>2. DOMAIN s = 1..Len(s)
    OBVIOUS
<1> QED BY <1>1, <1>2, SelectionSelects, SelectedWords DEF OrdinaryAt

LEMMA OrdinaryOfEmpty == OrdinaryWords(<<>>) = <<>>
<1>1. <<>> \in Seq({}) /\ Len(<<>>) = 0
    OBVIOUS
<1> QED BY <1>1, OrdinarySelects DEF Selects

LEMMA OrdinaryOfAppend ==
    ASSUME NEW S, NEW s \in Seq(S), NEW x \in S
    PROVE  OrdinaryWords(Append(s, x)) = IF Ordinary(x) THEN Append(OrdinaryWords(s), x) ELSE OrdinaryWords(s)
<1> DEFINE t == Append(s, x)
           N == Len(s)
           I == OrdinaryAt(s)
           J == OrdinaryAt(t)
           g == Selection(s, I)
           h == Selection(t, J)
           T == {n \in 0..N : h[n] = g[n]}
<1>1. /\ t \in Seq(S) /\ Len(t) = N + 1 /\ N \in Nat /\ t[N + 1] = x
      /\ \A n \in 1..N : t[n] = s[n]
    OBVIOUS
<1>2. /\ OrdinaryWords(s) = g[N] /\ Selects(s, I, S, g)
      /\ \A n \in 1..N : n \in I <=> Ordinary(s[n])
    BY OrdinarySelects
<1> HIDE DEF t
<1>3. /\ OrdinaryWords(t) = h[N + 1] /\ Selects(t, J, S, h)
      /\ \A n \in 1..(N + 1) : n \in J <=> Ordinary(t[n])
    BY <1>1, OrdinarySelects
<1> HIDE DEF g, h, I, J
<1>4. /\ g[0] = <<>> /\ h[0] = <<>>
      /\ \A n \in 1..N : g[n] = IF n \in I THEN Append(g[n - 1], s[n]) ELSE g[n - 1]
    BY <1>2, <1>3 DEF Selects
<1>5. \A n \in 1..(N + 1) : h[n] = IF n \in J THEN Append(h[n - 1], t[n]) ELSE h[n - 1]
    BY <1>1, <1>3 DEF Selects
<1> HIDE DEF N
<1>6. 0 \in T
    BY <1>1, <1>4
<1>7. ASSUME NEW n \in 1..N, n - 1 \in T PROVE n \in T
    <2>1. n \in 1..(N + 1) /\ n \in 0..N
        BY <1>1
    <2>2. h[n - 1] = g[n - 1]
        BY <1>7
    <2>3. t[n] = s[n] /\ (n \in I <=> n \in J)
        BY <1>1, <1>2, <1>3, <2>1
    <2>4. g[n] = IF n \in I THEN Append(g[n - 1], s[n]) ELSE g[n - 1]
        BY <1>4
    <2>5. h[n] = IF n \in J THEN Append(h[n - 1], t[n]) ELSE h[n - 1]
        BY <1>5, <2>1
    <2> QED BY <2>1, <2>2, <2>3, <2>4, <2>5
<1>8. N \in 0..N /\ N + 1 \in 1..(N + 1) /\ (N + 1) - 1 = N
    BY <1>1
<1>9. N \in T
    <2> HIDE DEF T
    <2>1. 0..N \subseteq T
        BY <1>1, <1>6, <1>7, UpTo
    <2> QED BY <1>8, <2>1
<1>10. h[N] = g[N]
    BY <1>9
<1>11. h[N + 1] = IF N + 1 \in J THEN Append(h[N], x) ELSE h[N]
    BY <1>1, <1>5, <1>8
<1>12. N + 1 \in J <=> Ordinary(x)
    BY <1>1, <1>3, <1>8
<1>13. OrdinaryWords(t) = IF Ordinary(x) THEN Append(OrdinaryWords(s), x) ELSE OrdinaryWords(s)
    BY <1>2, <1>3, <1>10, <1>11, <1>12
<1> QED BY <1>13 DEF t

\* A selection that takes them all has the same ordinary words.
LEMMA OrdinaryOfSelection ==
    ASSUME NEW S, NEW s \in Seq(S), NEW I, OrdinaryAt(s) \subseteq I
    PROVE  OrdinaryWords(WordsAt(s, I)) = OrdinaryWords(s)
<1> DEFINE N == Len(s)
           J == OrdinaryAt(s)
           g == Selection(s, J)
           w == Selection(s, I)
           T == {n \in 0..N : OrdinaryWords(w[n]) = g[n]}
<1>1. N \in Nat /\ \A n \in 1..N : s[n] \in S
    OBVIOUS
<1>2. /\ OrdinaryWords(s) = g[N] /\ Selects(s, J, S, g)
      /\ \A n \in 1..N : n \in J <=> Ordinary(s[n])
    BY OrdinarySelects
<1>3. WordsAt(s, I) = w[N] /\ Selects(s, I, S, w)
    BY SelectionSelects
<1>4. J \subseteq I
    OBVIOUS
<1> HIDE DEF g, w, J
<1>5. /\ g[0] = <<>> /\ w[0] = <<>>
      /\ \A n \in 1..N : g[n] = IF n \in J THEN Append(g[n - 1], s[n]) ELSE g[n - 1]
      /\ \A n \in 1..N : w[n] = IF n \in I THEN Append(w[n - 1], s[n]) ELSE w[n - 1]
      /\ \A n \in 0..N : w[n] \in Seq(S)
    BY <1>2, <1>3 DEF Selects
<1> HIDE DEF N
<1>6. 0 \in T
    BY <1>1, <1>5, OrdinaryOfEmpty
<1>7. ASSUME NEW n \in 1..N, n - 1 \in T PROVE n \in T
    <2>1. n \in 0..N /\ n - 1 \in 0..N /\ OrdinaryWords(w[n - 1]) = g[n - 1]
        BY <1>1, <1>7
    <2>2. w[n - 1] \in Seq(S) /\ s[n] \in S
        BY <1>1, <1>5, <2>1
    <2>3. CASE n \in I
        <3>1. OrdinaryWords(Append(w[n - 1], s[n]))
              = IF Ordinary(s[n]) THEN Append(g[n - 1], s[n]) ELSE g[n - 1]
            BY <2>1, <2>2, OrdinaryOfAppend
        <3>2. OrdinaryWords(w[n]) = g[n]
            BY <1>2, <1>5, <2>3, <3>1
        <3> QED BY <2>1, <3>2
    <2>4. CASE n \notin I
        <3>1. w[n] = w[n - 1] /\ g[n] = g[n - 1]
            BY <1>4, <1>5, <2>4
        <3> QED BY <2>1, <3>1
    <2> QED BY <2>3, <2>4
<1>8. N \in 0..N
    BY <1>1
<1>9. N \in T
    <2> HIDE DEF T
    <2>1. 0..N \subseteq T
        BY <1>1, <1>6, <1>7, UpTo
    <2> QED BY <1>8, <2>1
<1> QED BY <1>2, <1>3, <1>9

-----------------------------------------------------------------------------
(* Sequences one after the other *)

Flattens(ss, S, f) ==
    /\ f[0] = <<>>
    /\ \A n \in 1..Len(ss) : f[n] = f[n - 1] \o ss[n]
    /\ \A n \in 0..Len(ss) : f[n] \in Seq(S)

LEMMA FlattenIs ==
    ASSUME NEW S, NEW ss \in Seq(Seq(S))
    PROVE  \E f : Flattens(ss, S, f) /\ FlattenSeq(ss) = f[Len(ss)]
<1> DEFINE N == Len(ss)
           step == [n \in 1..N |-> [v \in Seq(S) |-> v \o ss[n]]]
           Body(f) == [i \in 1..N |-> IF i = 1 THEN ss[i] ELSE f[i - 1] \o ss[i]]
           g == CHOOSE f : f = Body(f)
<1>1. N \in Nat /\ \A n \in 1..N : ss[n] \in Seq(S)
    OBVIOUS
<1>2. FlattenSeq(ss) = IF N = 0 THEN ss ELSE g[N]
    BY DEF FlattenSeq
<1>3. \A n \in 1..N : \A v \in Seq(S) : v \o ss[n] \in Seq(S)
    BY <1>1
<1>4. <<>> \in Seq(S) /\ \A v \in Seq(S) : <<>> \o v = v
    OBVIOUS
<1>5. PICK f : /\ f[0] = <<>> /\ \A n \in 1..N : f[n] = step[n][f[n - 1]]
               /\ f \in [0..N -> Seq(S)]
    <2> DEFINE V == Seq(S)
               base == <<>>
    <2> HIDE DEF N
    <2>1. base \in V /\ Stepping(step, N, V)
        BY <1>3, <1>4 DEF Stepping
    <2> HIDE DEF V, base, step
    <2>2. \E f : Follows(f, base, step, N, V)
        BY <1>1, <2>1, Recursion
    <2> QED BY <2>2 DEF V, base, Follows
<1> HIDE DEF N
<1>6. \A n \in 1..N : n \in 0..N /\ n - 1 \in 0..N
    BY <1>1
<1>7. \A n \in 0..N : f[n] \in Seq(S)
    BY <1>5
<1>8. ASSUME NEW n \in 1..N PROVE f[n] = f[n - 1] \o ss[n]
    <2>1. f[n - 1] \in Seq(S)
        BY <1>6, <1>7
    <2>2. step[n][f[n - 1]] = f[n - 1] \o ss[n]
        BY <2>1
    <2> HIDE DEF step
    <2> QED BY <1>5, <2>2
<1>9. Flattens(ss, S, f)
    BY <1>5, <1>7, <1>8 DEF Flattens, N
<1>10. CASE N = 0
    <2>1. ss = <<>>
        BY <1>10 DEF N
    <2> QED BY <1>2, <1>5, <1>9, <1>10, <2>1 DEF N
<1>11. CASE N # 0
    <2> DEFINE r == [i \in 1..N |-> f[i]]
               T == {n \in 0..N : n = 0 \/ g[n] = f[n]}
    <2>1. r = Body(r)
        <3>1. ASSUME NEW i \in 1..N PROVE r[i] = IF i = 1 THEN ss[i] ELSE r[i - 1] \o ss[i]
            <4>1. CASE i = 1
                <5>0. i - 1 = 0 /\ ss[i] \in Seq(S)
                    BY <1>1, <4>1
                <5>1. f[i] = f[i - 1] \o ss[i]
                    BY <1>8, Zenon
                <5>2. f[i] = <<>> \o ss[i]
                    BY <1>5, <5>0, <5>1, Zenon
                <5> QED BY <1>4, <4>1, <5>0, <5>2
            <4>2. CASE i # 1
                <5>1. i - 1 \in 1..N
                    BY <1>1, <4>2
                <5> QED BY <1>8, <4>2, <5>1
            <4> QED BY <4>1, <4>2
        <3> DEFINE e(i) == IF i = 1 THEN ss[i] ELSE r[i - 1] \o ss[i]
        <3>2. r = [i \in 1..N |-> r[i]]
            OBVIOUS
        <3>3. \A i \in 1..N : r[i] = e(i)
            BY <3>1
        <3> HIDE DEF r
        <3>4. [i \in 1..N |-> r[i]] = [i \in 1..N |-> e(i)]
            <4> HIDE DEF e
            <4> QED BY <3>3
        <3> QED BY <3>2, <3>4
    <2>2. g = Body(g)
        <3> HIDE DEF r
        <3> QED BY <2>1
    <2> HIDE DEF g
    <2>3. \A n \in 1..N : g[n] = IF n = 1 THEN ss[n] ELSE g[n - 1] \o ss[n]
        <3> DEFINE b == Body(g)
        <3>1. \A n \in 1..N : b[n] = IF n = 1 THEN ss[n] ELSE g[n - 1] \o ss[n]
            OBVIOUS
        <3>2. g = b
            BY <2>2
        <3> HIDE DEF b
        <3> QED BY <3>1, <3>2
    <2>4. 0 \in T
        BY <1>1
    <2>5. ASSUME NEW n \in 1..N, n - 1 \in T PROVE n \in T
        <3>1. CASE n = 1
            <4>0. n - 1 = 0 /\ ss[n] \in Seq(S)
                BY <1>1, <3>1
            <4>1. f[n] = f[n - 1] \o ss[n]
                BY <1>8, Zenon
            <4>2. f[n] = <<>> \o ss[n]
                BY <1>5, <4>0, <4>1, Zenon
            <4>3. f[n] = ss[n]
                BY <1>4, <4>0, <4>2
            <4>4. g[n] = ss[n] /\ n \in 0..N
                BY <1>6, <2>3, <3>1
            <4> QED BY <4>3, <4>4
        <3>2. CASE n # 1
            <4>1. g[n - 1] = f[n - 1] /\ n \in 0..N
                BY <1>6, <2>5, <3>2
            <4>2. f[n] = f[n - 1] \o ss[n] /\ g[n] = g[n - 1] \o ss[n]
                BY <1>8, <2>3, <3>2
            <4> QED BY <4>1, <4>2
        <3> QED BY <3>1, <3>2
    <2>6. N \in T
        <3> HIDE DEF T
        <3>1. 0..N \subseteq T
            BY <1>1, <2>4, <2>5, UpTo
        <3> QED BY <1>1, <3>1
    <2> QED BY <1>2, <1>9, <1>11, <2>6 DEF N
<1> QED BY <1>10, <1>11

\* Where two begin alike, so do they one after the other.
LEMMA FlattenBegins ==
    ASSUME NEW S, NEW ss, NEW tt, NEW f, NEW g, Flattens(ss, S, f), Flattens(tt, S, g),
           NEW n \in Nat, Len(ss) \in Nat, Len(tt) \in Nat, n <= Len(ss), n <= Len(tt),
           \A i \in 1..n : ss[i] = tt[i]
    PROVE  f[n] = g[n]
<1> DEFINE T == {m \in 0..n : f[m] = g[m]}
<1>1. 0 \in T
    BY DEF Flattens
<1>2. ASSUME NEW m \in 1..n, m - 1 \in T PROVE m \in T
    <2>1. m \in 1..Len(ss) /\ m \in 1..Len(tt) /\ m \in 0..n
        OBVIOUS
    <2>2. f[m] = f[m - 1] \o ss[m] /\ g[m] = g[m - 1] \o tt[m]
        BY <2>1 DEF Flattens
    <2> QED BY <1>2, <2>1, <2>2
<1>3. 0..n \subseteq T
    <2> HIDE DEF T
    <2> QED BY <1>1, <1>2, UpTo
<1> QED BY <1>3

LEMMA FlattenOfAppend ==
    ASSUME NEW S, NEW ss \in Seq(Seq(S)), NEW s \in Seq(S)
    PROVE  FlattenSeq(Append(ss, s)) = FlattenSeq(ss) \o s
<1> DEFINE tt == Append(ss, s)
           N == Len(ss)
<1>1. /\ tt \in Seq(Seq(S)) /\ Len(tt) = N + 1 /\ N \in Nat /\ tt[N + 1] = s
      /\ \A n \in 1..N : ss[n] = tt[n]
    OBVIOUS
<1> HIDE DEF tt
<1>2. PICK f : Flattens(ss, S, f) /\ FlattenSeq(ss) = f[N]
    BY FlattenIs
<1>3. PICK g : Flattens(tt, S, g) /\ FlattenSeq(tt) = g[N + 1]
    BY <1>1, FlattenIs
<1>4. f[N] = g[N]
    <2>1. N <= Len(ss) /\ N <= Len(tt) /\ Len(tt) \in Nat /\ Len(ss) \in Nat
        BY <1>1
    <2>2. Flattens(ss, S, f) /\ Flattens(tt, S, g) /\ N \in Nat /\ \A n \in 1..N : ss[n] = tt[n]
        BY <1>1, <1>2, <1>3
    <2> HIDE DEF N
    <2> QED BY <2>1, <2>2, FlattenBegins
<1>5. g[N + 1] = g[(N + 1) - 1] \o tt[N + 1]
    <2>1. N + 1 \in 1..Len(tt)
        BY <1>1
    <2> QED BY <1>3, <2>1 DEF Flattens
<1>6. (N + 1) - 1 = N
    BY <1>1
<1> QED BY <1>1, <1>2, <1>3, <1>4, <1>5, <1>6 DEF tt

\* One more word in the last.
Longer(ss, x) == [ss EXCEPT ![Len(ss)] = Append(@, x)]

LEMMA FlattenOfLonger ==
    ASSUME NEW S, NEW ss \in Seq(Seq(S)), ss # <<>>, NEW x \in S
    PROVE  /\ Longer(ss, x) \in Seq(Seq(S)) /\ Len(Longer(ss, x)) = Len(ss)
           /\ FlattenSeq(Longer(ss, x)) = Append(FlattenSeq(ss), x)
<1> DEFINE N == Len(ss)
           tt == [ss EXCEPT ![N] = Append(@, x)]
<1> DEFINE last == Append(ss[N], x)
<1>1. N \in Nat \ {0} /\ N \in 1..Len(ss) /\ Len(ss) = N
    OBVIOUS
<1>0. \A n \in 1..N : ss[n] \in Seq(S)
    OBVIOUS
<1> HIDE DEF N
<1>2. last \in Seq(S)
    <2>1. ss[N] \in Seq(S)
        BY <1>0, <1>1
    <2> QED BY <2>1
<1>3. /\ tt \in Seq(Seq(S)) /\ Len(tt) = N /\ tt[N] = last
      /\ \A n \in 1..N : n # N => ss[n] = tt[n]
    <2>1. tt = [ss EXCEPT ![N] = last]
        OBVIOUS
    <2> HIDE DEF last, tt
    <2> DEFINE V == Seq(S)
    <2>2. ss \in Seq(V) /\ last \in V
        BY <1>2
    <2> HIDE DEF V
    <2>3. /\ tt \in Seq(V) /\ Len(tt) = Len(ss)
          /\ \A j \in 1..Len(ss) : tt[j] = IF j = N THEN last ELSE ss[j]
        BY <1>1, <2>1, <2>2, ExceptSeq
    <2> QED BY <1>1, <2>3 DEF V
<1> HIDE DEF tt
<1>12. \E f : Flattens(ss, S, f) /\ FlattenSeq(ss) = f[Len(ss)]
    BY FlattenIs
<1>4. PICK f : Flattens(ss, S, f) /\ FlattenSeq(ss) = f[N]
    BY <1>1, <1>12
<1> HIDE DEF last
<1>10. tt \in Seq(Seq(S))
    BY <1>3
<1>11. \E g : Flattens(tt, S, g) /\ FlattenSeq(tt) = g[Len(tt)]
    BY <1>10, FlattenIs
<1>5. PICK g : Flattens(tt, S, g) /\ FlattenSeq(tt) = g[N]
    BY <1>3, <1>11
<1>6. f[N - 1] = g[N - 1]
    <2>1. N - 1 \in Nat /\ N - 1 <= Len(ss) /\ N - 1 <= Len(tt) /\ Len(tt) \in Nat /\ Len(ss) \in Nat
        BY <1>1, <1>3
    <2>2. \A n \in 1..(N - 1) : ss[n] = tt[n]
        BY <1>1, <1>3
    <2> DEFINE m == N - 1
    <2> HIDE DEF m
    <2>3. f[m] = g[m]
        BY <1>4, <1>5, <2>1, <2>2, FlattenBegins DEF m
    <2> QED BY <2>3 DEF m
<1>7. f[N] = f[N - 1] \o ss[N] /\ g[N] = g[N - 1] \o tt[N] /\ f[N - 1] \in Seq(S)
    <2>1. N - 1 \in 0..N
        BY <1>1
    <2> QED BY <1>1, <1>3, <1>4, <1>5, <2>1 DEF Flattens
<1>8. f[N - 1] \o last = Append(f[N - 1] \o ss[N], x)
    <2>1. ASSUME NEW a \in Seq(S), NEW b \in Seq(S) PROVE a \o Append(b, x) = Append(a \o b, x)
        <3>1. <<x>> \in Seq(S) /\ a \o b \in Seq(S)
            OBVIOUS
        <3>2. (a \o b) \o <<x>> = a \o (b \o <<x>>)
            BY <3>1, ConcatAssociative
        <3>3. Append(b, x) = b \o <<x>>
            BY AppendIsConcat
        <3>4. Append(a \o b, x) = (a \o b) \o <<x>>
            BY <3>1, AppendIsConcat
        <3> QED BY <3>2, <3>3, <3>4
    <2>2. ss[N] \in Seq(S)
        BY <1>0, <1>1
    <2> QED BY <1>7, <2>1, <2>2 DEF last
<1>9. FlattenSeq(tt) = Append(FlattenSeq(ss), x)
    BY <1>3, <1>4, <1>5, <1>6, <1>7, <1>8, Zenon
<1> QED BY <1>1, <1>3, <1>9 DEF tt, N, Longer

-----------------------------------------------------------------------------
(* Pieces *)

\* The pieces of the first n words.
Cut(q, marks) ==
    CHOOSE f : f = [n \in 0..Len(q) |->
        IF n = 0 THEN <<>>
        ELSE IF n \in marks THEN f[n - 1]
        ELSE IF n = 1 \/ n - 1 \in marks THEN Append(f[n - 1], <<q[n]>>)
        ELSE [f[n - 1] EXCEPT ![Len(f[n - 1])] = Append(@, q[n])]]

CutStep(q, marks, n, v) ==
    IF n \in marks THEN v
    ELSE IF n = 1 \/ n - 1 \in marks THEN Append(v, <<q[n]>>)
    ELSE Longer(v, q[n])

LEMMA CutStepType ==
    ASSUME NEW S, NEW q \in Seq(S), NEW marks, NEW n \in 1..Len(q), NEW v \in Seq(Seq(S))
    PROVE  CutStep(q, marks, n, v) \in Seq(Seq(S))
<1>1. q[n] \in S /\ <<q[n]>> \in Seq(S)
    OBVIOUS
<1>2. CASE n \in marks
    BY <1>2 DEF CutStep
<1>3. CASE n \notin marks /\ (n = 1 \/ n - 1 \in marks)
    <2>1. CutStep(q, marks, n, v) = Append(v, <<q[n]>>)
        BY <1>3 DEF CutStep
    <2> QED BY <1>1, <2>1
<1>4. CASE n \notin marks /\ ~(n = 1 \/ n - 1 \in marks)
    <2>1. CutStep(q, marks, n, v) = Longer(v, q[n])
        BY <1>4 DEF CutStep
    <2>2. CASE v = <<>>
        <3>1. Len(v) \notin DOMAIN v
            BY <2>2
        <3>2. Longer(v, q[n]) = v
            BY <3>1 DEF Longer
        <3> QED BY <2>1, <3>2
    <2>3. CASE v # <<>>
        BY <1>1, <2>1, <2>3, FlattenOfLonger
    <2> QED BY <2>2, <2>3
<1> QED BY <1>2, <1>3, <1>4

CutsUp(q, marks, S, f) ==
    /\ f[0] = <<>>
    /\ \A n \in 1..Len(q) : f[n] = CutStep(q, marks, n, f[n - 1])
    /\ \A n \in 0..Len(q) : f[n] \in Seq(Seq(S))

LEMMA CutIs ==
    ASSUME NEW S, NEW q \in Seq(S), NEW marks
    PROVE  Pieces(q, marks) = Cut(q, marks)[Len(q)] /\ CutsUp(q, marks, S, Cut(q, marks))
<1>1. Pieces(q, marks) = Cut(q, marks)[Len(q)]
    BY DEF Pieces, Cut
<1> DEFINE N == Len(q)
           V == Seq(Seq(S))
           step == [n \in 1..N |-> [v \in V |-> CutStep(q, marks, n, v)]]
           Body(f) == [n \in 0..N |-> IF n = 0 THEN <<>> ELSE CutStep(q, marks, n, f[n - 1])]
           g == Cut(q, marks)
<1>2. N \in Nat /\ <<>> \in V
    OBVIOUS
<1>3. \A n \in 1..N : \A v \in V : CutStep(q, marks, n, v) \in V
    BY CutStepType
<1>4. Stepping(step, N, V)
    <2> HIDE DEF N, V
    <2> QED BY <1>3 DEF Stepping
<1> HIDE DEF V
<1>5. PICK f : f \in [0..N -> V] /\ f[0] = <<>> /\ \A n \in 1..N : f[n] = step[n][f[n - 1]]
    <2> DEFINE base == <<>>
    <2>1. base \in V
        BY <1>2
    <2> HIDE DEF step, N, base
    <2>2. \E f : Follows(f, base, step, N, V)
        BY <1>2, <1>4, <2>1, Recursion
    <2> QED BY <2>2 DEF base, Follows
<1>6. \A n \in 0..N : n # 0 => n \in 1..N /\ n - 1 \in 0..N
    BY <1>2
<1> HIDE DEF N
<1>7. f = Body(f)
    <2>1. ASSUME NEW n \in 0..N
          PROVE  f[n] = IF n = 0 THEN <<>> ELSE CutStep(q, marks, n, f[n - 1])
        <3>1. CASE n = 0
            BY <1>5, <3>1
        <3>2. CASE n # 0
            <4>1. n \in 1..N /\ n - 1 \in 0..N /\ f[n - 1] \in V
                BY <1>5, <1>6, <3>2
            <4>2. step[n][f[n - 1]] = CutStep(q, marks, n, f[n - 1])
                BY <4>1
            <4> HIDE DEF step
            <4> QED BY <1>5, <3>2, <4>1, <4>2
        <3> QED BY <3>1, <3>2
    <2> HIDE DEF step
    <2> QED BY <1>5, <2>1
<1>8. g = Body(g)
    <2>1. g = CHOOSE f_1 : f_1 = Body(f_1)
        BY DEF Cut, CutStep, Longer, N
    <2> HIDE DEF step, g
    <2> QED BY <1>7, <2>1
<1> HIDE DEF g, step
<1>9. g[0] = <<>> /\ \A n \in 1..N : g[n] = CutStep(q, marks, n, g[n - 1])
    <2>1. \A n \in 0..N : g[n] = Body(g)[n]
        BY <1>8
    <2>2. \A n \in 0..N : g[n] = IF n = 0 THEN <<>> ELSE CutStep(q, marks, n, g[n - 1])
        BY <2>1
    <2>3. 0 \in 0..N /\ \A n \in 1..N : n \in 0..N /\ n # 0
        BY <1>2
    <2> HIDE DEF Body
    <2> QED BY <2>2, <2>3
<1>10. 0..N \subseteq {n \in 0..N : g[n] \in V}
    <2> DEFINE T == {n \in 0..N : g[n] \in V}
    <2>1. 0 \in T
        BY <1>2, <1>9
    <2>2. ASSUME NEW n \in 1..N, n - 1 \in T PROVE n \in T
        <3>1. g[n - 1] \in V
            BY <2>2
        <3>2. CutStep(q, marks, n, g[n - 1]) \in V
            BY <1>3, <3>1
        <3>3. n \in 0..N
            BY <1>2
        <3> QED BY <1>9, <3>2, <3>3
    <2>3. 0..N \subseteq T
        <3> HIDE DEF T
        <3> QED BY <1>2, <2>1, <2>2, UpTo
    <2> QED BY <2>3
<1>11. CutsUp(q, marks, S, g)
    BY <1>9, <1>10 DEF CutsUp, N, V
<1> QED BY <1>1, <1>11 DEF g

\* The pieces hold the words that are not marks, in their order.
LEMMA PiecesHoldTheWords ==
    ASSUME NEW S, NEW q \in Seq(S), NEW marks
    PROVE  /\ Pieces(q, marks) \in Seq(Seq(S))
           /\ FlattenSeq(Pieces(q, marks)) = WordsAt(q, DOMAIN q \ marks)
<1> DEFINE N == Len(q)
           I == DOMAIN q \ marks
           g == Cut(q, marks)
           w == Selection(q, I)
           Good(n) == /\ n # 0 /\ n \notin marks => g[n] # <<>>
                      /\ FlattenSeq(g[n]) = w[n]
           T == {n \in 0..N : Good(n)}
<1>1. N \in Nat /\ DOMAIN q = 1..N /\ \A n \in 1..N : q[n] \in S
    OBVIOUS
<1>2. /\ Pieces(q, marks) = g[N] /\ CutsUp(q, marks, S, g)
      /\ WordsAt(q, I) = w[N] /\ Selects(q, I, S, w)
    BY CutIs, SelectionSelects
<1>3. \A n \in 1..N : n \in I <=> n \notin marks
    BY <1>1
<1> HIDE DEF g, w, I
<1>4. /\ g[0] = <<>> /\ w[0] = <<>>
      /\ \A n \in 1..N : g[n] = CutStep(q, marks, n, g[n - 1])
      /\ \A n \in 0..N : g[n] \in Seq(Seq(S))
      /\ \A n \in 1..N : w[n] = IF n \in I THEN Append(w[n - 1], q[n]) ELSE w[n - 1]
      /\ \A n \in 0..N : w[n] \in Seq(S)
    BY <1>2 DEF CutsUp, Selects
<1> HIDE DEF N
<1>5. 0 \in T
    <2>1. FlattenSeq(<<>>) = <<>>
        BY DEF FlattenSeq
    <2> QED BY <1>1, <1>4, <2>1
<1>6. ASSUME NEW n \in 1..N, n - 1 \in T PROVE n \in T
    <2> DEFINE v == g[n - 1]
    <2>1. n \in 0..N /\ n - 1 \in 0..N /\ n # 0 /\ (n # 1 => n - 1 # 0)
        BY <1>1
    <2>2. Good(n - 1)
        BY <1>6
    <2>3. v \in Seq(Seq(S)) /\ g[n] = CutStep(q, marks, n, v) /\ FlattenSeq(v) = w[n - 1] /\ w[n - 1] \in Seq(S)
        BY <1>4, <2>1, <2>2
    <2>4. q[n] \in S /\ <<q[n]>> \in Seq(S)
        BY <1>1
    <2>5. w[n] = IF n \notin marks THEN Append(w[n - 1], q[n]) ELSE w[n - 1]
        BY <1>3, <1>4
    <2>6. n - 1 # 0 /\ n - 1 \notin marks => v # <<>>
        BY <2>2
    <2> HIDE DEF v
    <2>7. CASE n \in marks
        <3>1. g[n] = v /\ w[n] = w[n - 1]
            BY <2>3, <2>5, <2>7 DEF CutStep
        <3> QED BY <2>1, <2>3, <2>7, <3>1
    <2>8. CASE n \notin marks /\ (n = 1 \/ n - 1 \in marks)
        <3>1. g[n] = Append(v, <<q[n]>>)
            BY <2>3, <2>8 DEF CutStep
        <3>2. FlattenSeq(g[n]) = FlattenSeq(v) \o <<q[n]>>
            BY <2>3, <2>4, <3>1, FlattenOfAppend
        <3>3. w[n - 1] \o <<q[n]>> = Append(w[n - 1], q[n])
            BY <2>3, <2>4, AppendIsConcat
        <3>4. FlattenSeq(g[n]) = w[n]
            <4>1. w[n] = Append(w[n - 1], q[n])
                BY <2>5, <2>8
            <4>2. FlattenSeq(v) \o <<q[n]>> = w[n - 1] \o <<q[n]>>
                BY <2>3
            <4> QED BY <3>2, <3>3, <4>1, <4>2
        <3>5. g[n] # <<>>
            <4> DEFINE x == <<q[n]>>
                       V == Seq(S)
            <4>1. v \in Seq(V) /\ x \in V
                BY <2>3, <2>4
            <4> HIDE DEF x, V
            <4>2. Append(v, x) # <<>>
                BY <4>1, AppendProperties
            <4> QED BY <3>1, <4>2 DEF x
        <3> QED BY <2>1, <3>4, <3>5
    <2>9. CASE n \notin marks /\ ~(n = 1 \/ n - 1 \in marks)
        <3>1. g[n] = Longer(v, q[n])
            BY <2>3, <2>9 DEF CutStep
        <3>2. v # <<>>
            BY <2>1, <2>6, <2>9
        <3>3. g[n] \in Seq(Seq(S)) /\ Len(g[n]) = Len(v) /\ FlattenSeq(g[n]) = Append(FlattenSeq(v), q[n])
            <4> DEFINE x == q[n]
            <4>1. v \in Seq(Seq(S)) /\ x \in S /\ v # <<>>
                BY <2>3, <2>4, <3>2
            <4> HIDE DEF x
            <4>2. /\ Longer(v, x) \in Seq(Seq(S)) /\ Len(Longer(v, x)) = Len(v)
                  /\ FlattenSeq(Longer(v, x)) = Append(FlattenSeq(v), x)
                BY <4>1, FlattenOfLonger
            <4> QED BY <3>1, <4>2, Zenon DEF x
        <3>4. FlattenSeq(g[n]) = w[n]
            <4>1. w[n] = Append(w[n - 1], q[n])
                BY <2>5, <2>9
            <4> QED BY <2>3, <3>3, <4>1
        <3>5. g[n] # <<>>
            <4>1. Len(v) # 0
                BY <2>3, <3>2
            <4>2. \A x : x = <<>> => Len(x) = 0
                OBVIOUS
            <4> QED BY <3>3, <4>1, <4>2
        <3> QED BY <2>1, <3>4, <3>5
    <2> QED BY <2>7, <2>8, <2>9
<1>7. N \in T
    <2> HIDE DEF T
    <2>1. 0..N \subseteq T
        BY <1>1, <1>5, <1>6, UpTo
    <2> QED BY <1>1, <2>1
<1>8. g[N] \in Seq(Seq(S)) /\ FlattenSeq(g[N]) = w[N]
    BY <1>1, <1>4, <1>7
<1> QED BY <1>2, <1>8 DEF I

\* Without marks there is one piece.
LEMMA OnePiece ==
    ASSUME NEW S, NEW q \in Seq(S), q # <<>>
    PROVE  Len(Pieces(q, {})) = 1
<1> DEFINE N == Len(q)
           g == Cut(q, {})
           T == {n \in 0..N : n # 0 => Len(g[n]) = 1}
<1>1. N \in Nat \ {0}
    OBVIOUS
<1>2. Pieces(q, {}) = g[N] /\ CutsUp(q, {}, S, g)
    BY CutIs
<1> HIDE DEF g
<1>3. /\ g[0] = <<>>
      /\ \A n \in 1..N : g[n] = CutStep(q, {}, n, g[n - 1])
      /\ \A n \in 0..N : g[n] \in Seq(Seq(S))
    BY <1>2 DEF CutsUp
<1>4. \A n \in 1..N : q[n] \in S /\ <<q[n]>> \in Seq(S)
    OBVIOUS
<1> HIDE DEF N
<1>5. 0 \in T
    BY <1>1
<1>6. ASSUME NEW n \in 1..N, n - 1 \in T PROVE n \in T
    <2>1. n \in 0..N /\ n - 1 \in 0..N /\ g[n - 1] \in Seq(Seq(S))
        BY <1>1, <1>3
    <2>2. CASE n = 1
        <3>1. g[n] = CutStep(q, {}, n, g[n - 1]) /\ n - 1 = 0
            BY <1>3, <2>2
        <3>4. CutStep(q, {}, n, g[n - 1]) = Append(g[n - 1], <<q[n]>>)
            BY <2>2 DEF CutStep
        <3>5. g[n - 1] = <<>>
            BY <1>3, <3>1
        <3>2. g[n] = Append(<<>>, <<q[n]>>)
            BY <3>1, <3>4, <3>5, Zenon
        <3>3. Len(Append(<<>>, <<q[n]>>)) = 1
            OBVIOUS
        <3> QED BY <2>1, <3>2, <3>3
    <2>3. CASE n # 1
        <3>1. g[n] = Longer(g[n - 1], q[n])
            BY <1>3, <2>3 DEF CutStep
        <3>2. Len(g[n - 1]) = 1
            BY <1>6, <2>3
        <3>3. g[n - 1] # <<>>
            <4>1. \A x : x = <<>> => Len(x) = 0
                OBVIOUS
            <4>2. 0 # 1
                OBVIOUS
            <4> QED BY <3>2, <4>1, <4>2, Zenon
        <3>4. Len(g[n]) = Len(g[n - 1])
            <4> DEFINE x == q[n]
                       v == g[n - 1]
            <4>1. v \in Seq(Seq(S)) /\ x \in S /\ v # <<>>
                BY <1>4, <2>1, <3>3
            <4> HIDE DEF x, v
            <4>2. Len(Longer(v, x)) = Len(v)
                BY <4>1, FlattenOfLonger
            <4> QED BY <3>1, <4>2, Zenon DEF x, v
        <3> QED BY <2>1, <3>2, <3>4
    <2> QED BY <2>2, <2>3
<1>7. N \in T
    <2> HIDE DEF T
    <2>1. 0..N \subseteq T
        <3>1. N \in Nat
            BY <1>1
        <3> QED BY <1>5, <1>6, <3>1, UpTo
    <2> QED BY <1>1, <2>1
<1> QED BY <1>1, <1>2, <1>7

LEMMA EmptyPieces == Pieces(<<>>, {}) = <<>>
<1>1. <<>> \in Seq({}) /\ Len(<<>>) = 0
    OBVIOUS
<1> QED BY <1>1, CutIs DEF CutsUp

\* One sequence is what it is.
LEMMA FlattenOfOne ==
    ASSUME NEW S, NEW ss \in Seq(Seq(S)), Len(ss) = 1
    PROVE  FlattenSeq(ss) = ss[1]
<1>1. PICK f : Flattens(ss, S, f) /\ FlattenSeq(ss) = f[Len(ss)]
    BY FlattenIs
<1>2. f[0] = <<>> /\ f[1] = f[1 - 1] \o ss[1]
    <2>1. 1 \in 1..Len(ss)
        OBVIOUS
    <2> QED BY <1>1, <2>1 DEF Flattens
<1>3. ss[1] \in Seq(S)
    OBVIOUS
<1>4. 1 - 1 = 0
    OBVIOUS
<1>5. f[1] = <<>> \o ss[1]
    BY <1>2, <1>4
<1>6. <<>> \o ss[1] = ss[1]
    BY <1>3
<1> QED BY <1>1, <1>5, <1>6

-----------------------------------------------------------------------------
(* The parser *)

LEMMA WordsOfKind ==
    ASSUME NEW S, NEW q \in Seq(S), NEW kind
    PROVE  /\ Matching(q, kind) \in Seq(S) /\ ToSet(Matching(q, kind)) = {w \in ToSet(q) : kind \in w.kinds}
           /\ Without(q, kind) \in Seq(S) /\ ToSet(Without(q, kind)) = {w \in ToSet(q) : kind \notin w.kinds}
<1> DEFINE I == {i \in DOMAIN q : Is(q[i], kind)}
           J == {i \in DOMAIN q : ~Is(q[i], kind)}
<1>1. Matching(q, kind) = WordsAt(q, I) /\ Without(q, kind) = WordsAt(q, J)
    BY DEF Matching, Without
<1>2. /\ {q[i] : i \in I \cap DOMAIN q} = {w \in ToSet(q) : kind \in w.kinds}
      /\ {q[i] : i \in J \cap DOMAIN q} = {w \in ToSet(q) : kind \notin w.kinds}
    BY DEF ToSet, Is
<1> HIDE DEF I, J
<1> QED BY <1>1, <1>2, SelectedWords

\* The words of S and what is made of them.
Cleaned(S) == S \cup {Bare(w) : w \in S}

LEMMA InCleaned ==
    ASSUME NEW S, NEW s \in Seq(S)
    PROVE  s \in Seq(Cleaned(S))
<1> DEFINE T == Cleaned(S)
<1>1. S \subseteq T
    BY DEF Cleaned
<1> HIDE DEF T
<1>2. Len(s) \in Nat /\ s \in [1..Len(s) -> S]
    OBVIOUS
<1>3. s \in [1..Len(s) -> T]
    BY <1>1, <1>2
<1>4. s \in Seq(T)
    BY <1>2, <1>3
<1> QED BY <1>4 DEF T

LEMMA CleanedWords ==
    ASSUME NEW S, NEW s \in Seq(S)
    PROVE  BareWords(s) \in Seq(Cleaned(S)) /\ ToSet(BareWords(s)) = {Bare(w) : w \in ToSet(s)}
<1> DEFINE T == Cleaned(S)
           b == BareWords(s)
<1>1. DOMAIN s = 1..Len(s) /\ Len(s) \in Nat /\ \A i \in DOMAIN s : s[i] \in S
    OBVIOUS
<1>2. b = [i \in DOMAIN s |-> Bare(s[i])]
    BY DEF BareWords
<1>3. \A i \in DOMAIN s : Bare(s[i]) \in T
    BY <1>1 DEF Cleaned
<1> HIDE DEF b, T
<1>4. b \in [1..Len(s) -> T]
    BY <1>1, <1>2, <1>3
<1>5. b \in Seq(T)
    BY <1>1, <1>4
<1>6. ToSet(b) = {Bare(w) : w \in ToSet(s)}
    BY <1>1, <1>2 DEF ToSet
<1> QED BY <1>5, <1>6 DEF b, T

LEMMA ExactIsExact ==
    ASSUME NEW S, NEW q \in Seq(S)
    PROVE  Exact(q) \in Seq(Cleaned(S)) /\ ToSet(Exact(q)) = ExactWords(q)
<1> DEFINE a == Matching(q, "quoted")
           b == Matching(q, "plate")
           c == Matching(q, "code")
           d == Matching(q, "measure")
           u == Matching(q, "upper")
           e == BareWords(u)
           T == Cleaned(S)
<1>1. a \in Seq(T) /\ b \in Seq(T) /\ c \in Seq(T) /\ d \in Seq(T) /\ e \in Seq(T)
    <2>1. a \in Seq(S) /\ b \in Seq(S) /\ c \in Seq(S) /\ d \in Seq(S) /\ u \in Seq(S)
        BY WordsOfKind
    <2> HIDE DEF a, b, c, d, u, T
    <2> QED BY <2>1, InCleaned, CleanedWords DEF T
<1>2. /\ ToSet(a) = {w \in ToSet(q) : "quoted" \in w.kinds}
      /\ ToSet(b) = {w \in ToSet(q) : "plate" \in w.kinds}
      /\ ToSet(c) = {w \in ToSet(q) : "code" \in w.kinds}
      /\ ToSet(d) = {w \in ToSet(q) : "measure" \in w.kinds}
      /\ ToSet(e) = {Bare(w) : w \in {w \in ToSet(q) : "upper" \in w.kinds}}
    <2>1. /\ ToSet(a) = {w \in ToSet(q) : "quoted" \in w.kinds}
          /\ ToSet(b) = {w \in ToSet(q) : "plate" \in w.kinds}
          /\ ToSet(c) = {w \in ToSet(q) : "code" \in w.kinds}
          /\ ToSet(d) = {w \in ToSet(q) : "measure" \in w.kinds}
          /\ ToSet(u) = {w \in ToSet(q) : "upper" \in w.kinds} /\ u \in Seq(S)
        BY WordsOfKind
    <2> HIDE DEF u
    <2>2. ToSet(e) = {Bare(w) : w \in ToSet(u)}
        BY <2>1, CleanedWords
    <2> QED BY <2>1, <2>2
<1>3. Exact(q) = Distinct((((a \o b) \o c) \o d) \o e)
    BY DEF Exact
<1> HIDE DEF a, b, c, d, e, T
<1>4. a \o b \in Seq(T) /\ ToSet(a \o b) = ToSet(a) \cup ToSet(b)
    BY <1>1, SetOfConcat
<1> DEFINE ab == a \o b
<1>11. ab \in Seq(T)
    BY <1>4
<1> HIDE DEF ab
<1>5. ab \o c \in Seq(T) /\ ToSet(ab \o c) = ToSet(ab) \cup ToSet(c)
    BY <1>1, <1>11, SetOfConcat
<1> DEFINE abc == ab \o c
<1>12. abc \in Seq(T)
    BY <1>5
<1> HIDE DEF abc
<1>6. abc \o d \in Seq(T) /\ ToSet(abc \o d) = ToSet(abc) \cup ToSet(d)
    BY <1>1, <1>12, SetOfConcat
<1> DEFINE abcd == abc \o d
<1>13. abcd \in Seq(T)
    BY <1>6
<1> HIDE DEF abcd
<1>7. abcd \o e \in Seq(T) /\ ToSet(abcd \o e) = ToSet(abcd) \cup ToSet(e)
    BY <1>1, <1>13, SetOfConcat
<1> DEFINE all == abcd \o e
<1>8. Exact(q) = Distinct(all)
    BY <1>3 DEF ab, abc, abcd
<1>9. ToSet(all) = ExactWords(q)
    <2>1. ToSet(all) = ToSet(a) \cup ToSet(b) \cup ToSet(c) \cup ToSet(d) \cup ToSet(e)
        BY <1>4, <1>5, <1>6, <1>7 DEF ab, abc, abcd
    <2> HIDE DEF all
    <2> QED BY <1>2, <2>1 DEF ExactWords
<1>10. all \in Seq(T)
    BY <1>7
<1> HIDE DEF all
<1>14. Distinct(all) \in Seq(T) /\ ToSet(Distinct(all)) = ToSet(all)
    BY <1>10, DistinctWords
<1> QED BY <1>8, <1>9, <1>14 DEF T

LEMMA LexicalHasExact ==
    ASSUME NEW S, NEW q \in Seq(S)
    PROVE  /\ Kept(q) \in Seq(Cleaned(S)) /\ Lexical(q) \in Seq(Cleaned(S))
           /\ ExactWords(q) \subseteq ToSet(Lexical(q))
<1> DEFINE a == Matching(q, "name")
           b == IF q = <<>> THEN <<>> ELSE BareWords(Matching(Tail(q), "capital"))
           c == Matching(q, "cultural")
           T == Cleaned(S)
<1>1. a \in Seq(T) /\ c \in Seq(T)
    <2>1. a \in Seq(S) /\ c \in Seq(S)
        BY WordsOfKind
    <2> HIDE DEF a, c, T
    <2> QED BY <2>1, InCleaned DEF T
<1>2. b \in Seq(T)
    <2>1. q # <<>> => Tail(q) \in Seq(S)
        OBVIOUS
    <2>2. q # <<>> => Matching(Tail(q), "capital") \in Seq(S)
        BY <2>1, WordsOfKind
    <2>3. <<>> \in Seq(T)
        OBVIOUS
    <2>4. q # <<>> => BareWords(Matching(Tail(q), "capital")) \in Seq(T)
        BY <2>2, CleanedWords
    <2> HIDE DEF T
    <2> QED BY <2>3, <2>4
<1>3. Kept(q) = Distinct((a \o b) \o c)
    BY DEF Kept
<1> HIDE DEF a, b, c, T
<1>4. (a \o b) \o c \in Seq(T)
    BY <1>1, <1>2
<1>5. Kept(q) \in Seq(T)
    BY <1>3, <1>4, DistinctWords
<1> DEFINE e == Exact(q)
           k == Kept(q)
<1>6. e \in Seq(T) /\ k \in Seq(T) /\ ToSet(e) = ExactWords(q)
    BY <1>5, ExactIsExact DEF T
<1>7. Lexical(q) = Distinct(e \o k)
    BY DEF Lexical
<1> HIDE DEF e, k
<1>8. e \o k \in Seq(T) /\ ToSet(e \o k) = ToSet(e) \cup ToSet(k)
    BY <1>6, SetOfConcat
<1>9. Distinct(e \o k) \in Seq(T) /\ ToSet(Distinct(e \o k)) = ToSet(e \o k)
    BY <1>8, DistinctWords
<1> QED BY <1>5, <1>6, <1>7, <1>8, <1>9 DEF T

LEMMA TextsOfExact ==
    ASSUME NEW S, NEW q \in Seq(S)
    PROVE  ToSet(Texts(Exact(q))) = ExactTexts(q)
<1> DEFINE e == Exact(q)
<1>1. e \in Seq(Cleaned(S)) /\ ToSet(e) = ExactWords(q)
    BY ExactIsExact
<1> HIDE DEF e
<1>2. DOMAIN Texts(e) = DOMAIN e /\ \A i \in DOMAIN e : Texts(e)[i] = e[i].text
    BY DEF Texts
<1>3. ToSet(Texts(e)) = {w.text : w \in ToSet(e)}
    BY <1>1, <1>2 DEF ToSet
<1> QED BY <1>1, <1>3 DEF e, ExactTexts

\* The caption, step by step.
Free(q) ==
    WordsAt(q, {i \in DOMAIN q : /\ q[i].text \notin ToSet(Texts(Exact(q)))
                                 /\ ~(Is(q[i], "label") /\ i < Len(q) /\ q[i + 1].text \in ToSet(Texts(Exact(q))))})
Bound(q) ==
    LET free == Free(q)
    IN  IF ToSet(Texts(Exact(q))) = {} THEN free
        ELSE WordsAt(free, {i \in DOMAIN free : ~(Is(free[i], "label") /\ (i = Len(free) \/ Is(free[i + 1], "comma")))})
Seen(q) == IF Bound(q) # <<>> /\ Is(Head(Bound(q)), "intent") THEN Tail(Bound(q)) ELSE Bound(q)

LEMMA CaptionIs ==
    ASSUME NEW q
    PROVE  Caption(q) = IF \A i \in DOMAIN Seen(q) : Is(Seen(q)[i], "comma") THEN q ELSE Seen(q)
    BY DEF Caption, Seen, Bound, Free

Meaningless == {"quoted", "plate", "code", "measure", "upper", "label", "intent", "comma"}

\* No word is in both ways.
LEMMA OrdinaryHasNoOther ==
    ASSUME NEW w, Ordinary(w), NEW kind \in Meaningless
    PROVE  ~Is(w, kind)
    BY DEF Ordinary, Is, Meaningless

\* An ordinary word that says no exact string.
Lasting(w, q) == Ordinary(w) /\ w.text \notin ExactTexts(q)
TextsIn(s) == {w.text : w \in ToSet(s)}

LEMMA SeenKeeps ==
    ASSUME NEW S, NEW q \in Seq(S)
    PROVE  /\ Seen(q) \in Seq(S) /\ TextsIn(Seen(q)) \cap ExactTexts(q) = {}
           /\ {w \in ToSet(q) : Lasting(w, q)} \subseteq ToSet(Seen(q))
<1> DEFINE exact == ToSet(Texts(Exact(q)))
           I == {i \in DOMAIN q : /\ q[i].text \notin exact
                                  /\ ~(Is(q[i], "label") /\ i < Len(q) /\ q[i + 1].text \in exact)}
           free == Free(q)
           J == {i \in DOMAIN free : ~(Is(free[i], "label") /\ (i = Len(free) \/ Is(free[i + 1], "comma")))}
<1>1. exact = ExactTexts(q)
    BY TextsOfExact
<1>2. free = WordsAt(q, I)
    BY DEF Free
<1>3. free \in Seq(S) /\ ToSet(free) = {q[i] : i \in I \cap DOMAIN q}
    <2> HIDE DEF I, free
    <2> QED BY <1>2, SelectedWords
<1>4. \A w : Lasting(w, q) => w.text \notin exact /\ ~Is(w, "label") /\ ~Is(w, "intent")
    <2>1. \A w : Ordinary(w) => ~Is(w, "label") /\ ~Is(w, "intent")
        BY OrdinaryHasNoOther DEF Meaningless
    <2> QED BY <1>1, <2>1 DEF Lasting
<1>5. /\ \A w \in ToSet(free) : w.text \notin exact
      /\ \A w \in ToSet(q) : Lasting(w, q) => w \in ToSet(free)
    <2> HIDE DEF exact
    <2>1. \A i \in I \cap DOMAIN q : q[i].text \notin exact
        OBVIOUS
    <2>2. \A i \in DOMAIN q : Lasting(q[i], q) => i \in I
        BY <1>4
    <2>3. \A w \in {q[i] : i \in I \cap DOMAIN q} : w.text \notin exact
        BY <2>1
    <2>4. \A w \in ToSet(q) : Lasting(w, q) => w \in {q[i] : i \in I \cap DOMAIN q}
        BY <2>2 DEF ToSet
    <2> HIDE DEF I, free
    <2> QED BY <1>3, <2>3, <2>4
<1>6. Bound(q) = IF exact = {} THEN free ELSE WordsAt(free, J)
    BY DEF Bound
<1> HIDE DEF free, exact
<1> DEFINE bound == Bound(q)
<1>7. bound \in Seq(S) /\ ToSet(bound) \subseteq ToSet(free) /\ \A w \in ToSet(free) : Lasting(w, q) => w \in ToSet(bound)
    <2>1. CASE exact = {}
        BY <1>3, <1>6, <2>1
    <2>2. CASE exact # {}
        <3>1. WordsAt(free, J) \in Seq(S) /\ ToSet(WordsAt(free, J)) = {free[i] : i \in J \cap DOMAIN free}
            <4> HIDE DEF J
            <4> QED BY <1>3, SelectedWords
        <3>2. \A i \in DOMAIN free : Lasting(free[i], q) => i \in J
            BY <1>4
        <3>3. {free[i] : i \in J \cap DOMAIN free} \subseteq ToSet(free)
            BY DEF ToSet
        <3>4. \A w \in ToSet(free) : Lasting(w, q) => w \in {free[i] : i \in J \cap DOMAIN free}
            BY <3>2 DEF ToSet
        <3> HIDE DEF J
        <3> QED BY <1>6, <2>2, <3>1, <3>3, <3>4
    <2> QED BY <2>1, <2>2
<1>8. Seen(q) = IF bound # <<>> /\ Is(Head(bound), "intent") THEN Tail(bound) ELSE bound
    BY DEF Seen
<1> HIDE DEF bound
<1> DEFINE seen == Seen(q)
<1>9. seen \in Seq(S) /\ ToSet(seen) \subseteq ToSet(bound) /\ \A w \in ToSet(bound) : Lasting(w, q) => w \in ToSet(seen)
    <2>1. CASE bound # <<>> /\ Is(Head(bound), "intent")
        <3>1. seen = Tail(bound)
            BY <1>8, <2>1
        <3>2. /\ Tail(bound) \in Seq(S) /\ ToSet(bound) = ToSet(Tail(bound)) \cup {Head(bound)}
            BY <1>7, <2>1, SetOfTail
        <3>3. ~Lasting(Head(bound), q)
            BY <1>4, <2>1
        <3> HIDE DEF seen
        <3> QED BY <3>1, <3>2, <3>3
    <2>2. CASE ~(bound # <<>> /\ Is(Head(bound), "intent"))
        <3>1. seen = bound
            BY <1>8, <2>2
        <3> HIDE DEF seen
        <3> QED BY <1>7, <3>1
    <2> QED BY <2>1, <2>2
<1> HIDE DEF seen
<1>10. ToSet(seen) \subseteq ToSet(free)
    BY <1>7, <1>9
<1>11. TextsIn(seen) \cap exact = {}
    BY <1>5, <1>10 DEF TextsIn
<1>12. \A w \in ToSet(q) : Lasting(w, q) => w \in ToSet(seen)
    BY <1>5, <1>7, <1>9
<1> QED BY <1>1, <1>9, <1>11, <1>12 DEF seen

\* A caption has every ordinary word that says no exact string, and says exact strings only
\* if it is the query.
LEMMA CaptionKeeps ==
    ASSUME NEW S, NEW q \in Seq(S)
    PROVE  /\ Caption(q) # q => ExactTexts(q) \cap TextsIn(Caption(q)) = {}
           /\ {w \in ToSet(q) : Lasting(w, q)} \subseteq ToSet(Caption(q))
<1>1. /\ TextsIn(Seen(q)) \cap ExactTexts(q) = {}
      /\ {w \in ToSet(q) : Lasting(w, q)} \subseteq ToSet(Seen(q))
    BY SeenKeeps
<1> QED BY <1>1, CaptionIs

\* An object has a place that is no part of a longer one's, nor of a phrase in which it
\* means something else.
LEMMA ObjectsStandAlone ==
    ASSUME NEW S, NEW q \in Seq(S), NEW o \in Objects(q)
    PROVE  \E s \in Spans(q, o) :
               \A p \in Objects(q) \cup UNION {Excluded[t] : t \in DOMAIN Excluded \cap {o}} :
                   \A t \in Spans(q, p) : Within(s, t) => s = t
<1>1. PICK s \in Found(q) : /\ \A t \in Found(q) : Within(s, t) => s = t
                            /\ o = SubSeq(Texts(q), s.from, s.to)
    BY DEF Objects
<1>2. \A s1 \in Found(q) : \E term \in ObjectTerms :
          /\ s1 \in Spans(q, term)
          /\ term \in DOMAIN Excluded => \A t \in UNION {Spans(q, p) : p \in Excluded[term]} : ~Overlap(s1, t)
    BY DEF Found
<1>3. PICK term \in ObjectTerms :
          /\ s \in Spans(q, term)
          /\ term \in DOMAIN Excluded => \A t \in UNION {Spans(q, p) : p \in Excluded[term]} : ~Overlap(s, t)
    BY <1>2
<1>4. term = o /\ s \in Spans(q, o)
    BY <1>1, <1>3 DEF Spans
<1>5. DOMAIN q = 1..Len(q) /\ Len(q) \in Nat
    OBVIOUS
<1>6. s.from \in 1..Len(q) /\ s.to \in 1..Len(q)
    BY <1>4, <1>5 DEF Spans
<1>7. s.from <= s.to
    <2>1. o # <<>>
        BY <1>4, QueryAssumption
    <2>2. \A a, b \in Nat : ~(a <= b) => SubSeq(Texts(q), a, b) = <<>>
        OBVIOUS
    <2> QED BY <1>1, <1>6, <2>1, <2>2
<1>8. ASSUME NEW p \in Objects(q), NEW t \in Spans(q, p), Within(s, t)
      PROVE  s = t
    <2>1. CASE t \in Found(q)
        BY <1>1, <1>8, <2>1
    <2>2. CASE t \notin Found(q)
        <3>1. p \in ObjectTerms
            <4>1. PICK u \in Found(q) : p = SubSeq(Texts(q), u.from, u.to)
                BY DEF Objects
            <4>2. PICK other \in ObjectTerms : u \in Spans(q, other)
                BY <1>2
            <4> QED BY <4>1, <4>2 DEF Spans
        <3>2. p \in DOMAIN Excluded
            BY <2>2, <3>1 DEF Found
        <3>3. Len(p) = 1
            BY <3>2, QueryAssumption
        <3>4. t \in [from : 1..Len(q), to : 1..Len(q)] /\ SubSeq(Texts(q), t.from, t.to) = p
            BY <1>5 DEF Spans
        <3>5. t.from <= t.to
            BY <1>7, <1>6, <3>4, <1>8 DEF Within
        <3>6. Len(SubSeq(Texts(q), t.from, t.to)) = t.to - t.from + 1
            <4>1. Texts(q) \in Seq({q[i].text : i \in DOMAIN q}) /\ Len(Texts(q)) = Len(q)
                BY <1>5 DEF Texts
            <4> QED BY <3>4, <3>5, <4>1, SubSeqProperties
        <3>7. t.from = t.to
            BY <3>3, <3>4, <3>6
        <3>8. s.from = t.from /\ s.to = t.to
            BY <1>6, <1>7, <1>8, <3>4, <3>7 DEF Within
        <3>9. s \in [from : 1..Len(q), to : 1..Len(q)]
            BY <1>4, <1>5 DEF Spans
        <3> QED BY <3>4, <3>8, <3>9
    <2> QED BY <2>1, <2>2
<1>9. ASSUME o \in DOMAIN Excluded, NEW p \in Excluded[o], NEW t \in Spans(q, p), Within(s, t)
      PROVE  FALSE
    <2>1. ~Overlap(s, t)
        BY <1>3, <1>4, <1>9
    <2>2. t.from \in 1..Len(q) /\ t.to \in 1..Len(q)
        BY <1>5 DEF Spans
    <2> QED BY <1>6, <1>7, <1>9, <2>1, <2>2 DEF Overlap, Within
<1>10. \A p \in UNION {Excluded[t] : t \in DOMAIN Excluded \cap {o}} : o \in DOMAIN Excluded /\ p \in Excluded[o]
    OBVIOUS
<1>11. \A p \in Objects(q) : \A t \in Spans(q, p) : Within(s, t) => s = t
    BY <1>8
<1>12. \A p \in UNION {Excluded[t] : t \in DOMAIN Excluded \cap {o}} : \A t \in Spans(q, p) : ~Within(s, t)
    BY <1>9, <1>10
<1> QED BY <1>4, <1>11, <1>12

\* The stages say the ordinary words in their order.
LEMMA StagesHoldTheWords ==
    ASSUME NEW S, NEW q \in Seq(S)
    PROVE  Stages(q) \in Seq(Seq(S)) /\ OrdinaryWords(FlattenSeq(Stages(q))) = OrdinaryWords(q)
<1> DEFINE marks == StageMarks(q)
           pieces == Pieces(q, marks)
<1>1. Stages(q) = IF pieces = <<>> THEN <<q>> ELSE pieces
    BY DEF Stages
<1>2. OrdinaryAt(q) \subseteq DOMAIN q \ marks
    BY DEF OrdinaryAt, Ordinary, StageMarks, Is
<1> HIDE DEF marks
<1>3. pieces \in Seq(Seq(S)) /\ FlattenSeq(pieces) = WordsAt(q, DOMAIN q \ marks)
    BY PiecesHoldTheWords
<1> HIDE DEF pieces
<1>4. CASE pieces = <<>>
    <2> DEFINE one == <<q>>
    <2>1. one \in Seq(Seq(S)) /\ Len(one) = 1 /\ one[1] = q
        OBVIOUS
    <2>2. Stages(q) = one
        BY <1>1, <1>4
    <2> HIDE DEF one
    <2>3. FlattenSeq(one) = q
        BY <2>1, FlattenOfOne
    <2> QED BY <2>1, <2>2, <2>3
<1>5. CASE pieces # <<>>
    <2> DEFINE I == DOMAIN q \ marks
    <2>1. OrdinaryAt(q) \subseteq I
        BY <1>2
    <2> HIDE DEF I
    <2>2. OrdinaryWords(WordsAt(q, I)) = OrdinaryWords(q)
        BY <2>1, OrdinaryOfSelection
    <2> QED BY <1>1, <1>3, <1>5, <2>2 DEF I
<1> QED BY <1>4, <1>5

StagePlans(q) ==
    [k \in DOMAIN Stages(q) |->
        [text |-> Stages(q)[k], exact |-> Said(Exact(q), Stages(q)[k]), kept |-> Heard(Kept(q), Stages(q)[k])]]

LEMMA ParseFields ==
    ASSUME NEW q, NEW task
    PROVE  /\ Parse(q, task).task = task /\ Parse(q, task).query = q
           /\ Parse(q, task).visual = Variants(<<Visual("vi", Caption(q))>>)
           /\ Parse(q, task).exact = Exact(q) /\ Parse(q, task).lexical = Lexical(q)
           /\ Parse(q, task).objects = Objects(q) /\ Parse(q, task).backend = "deterministic"
           /\ Parse(q, task).stages \in {<<>>, StagePlans(q)}
           /\ task = "trake" => Parse(q, task).stages = StagePlans(q)
<1>1. Parse(q, task).stages = IF task = "trake" \/ Matching(q, "bar") # <<>> THEN StagePlans(q) ELSE <<>>
    BY DEF Parse, StagePlans
<1> QED BY <1>1 DEF Parse

\* One caption: the parser's.
LEMMA ParseVisual ==
    ASSUME NEW q, NEW task
    PROVE  Parse(q, task).visual = <<Visual("vi", Caption(q))>>
<1> DEFINE v == Visual("vi", Caption(q))
<1>1. Parse(q, task).visual = Variants(<<v>>)
    BY ParseFields
<1> HIDE DEF v
<1>2. Len(<<v>>) = 1
    OBVIOUS
<1>3. Variants(<<v>>) = SubSeq(<<v>>, 1, 1)
    BY <1>2, QueryAssumption DEF Variants
<1>4. SubSeq(<<v>>, 1, 1) = <<v>>
    <2>1. <<v>> \in Seq({v}) /\ \A i \in 1..1 : <<v>>[i] = v
        OBVIOUS
    <2>2. /\ SubSeq(<<v>>, 1, 1) \in Seq({v})
          /\ Len(SubSeq(<<v>>, 1, 1)) = IF 1 <= 1 THEN 1 - 1 + 1 ELSE 0
          /\ \A i \in 1..(1 - 1 + 1) : SubSeq(<<v>>, 1, 1)[i] = <<v>>[1 + i - 1]
        BY <2>1, SubSeqProperties
    <2> DEFINE s == SubSeq(<<v>>, 1, 1)
    <2>3. s \in Seq({v}) /\ Len(s) = 1 /\ s[1] = v
        BY <2>1, <2>2
    <2> HIDE DEF s
    <2>4. s = <<v>>
        BY <2>3
    <2> QED BY <2>4 DEF s
<1> QED BY <1>1, <1>3, <1>4 DEF v

LEMMA ParserKeepsTheQuery ==
    ASSUME NEW S, NEW q \in Seq(S), NEW task
    PROVE  LET plan == Parse(q, task)
           IN  KeepsTexts(plan) /\ KeepsCaption(plan) /\ KeepsObjects(plan) /\ KeepsStages(plan)
<1> DEFINE plan == Parse(q, task)
           v == Visual("vi", Caption(q))
<1>1. /\ plan.query = q /\ plan.visual = <<v>> /\ plan.exact = Exact(q) /\ plan.lexical = Lexical(q)
      /\ plan.objects = Objects(q) /\ plan.stages \in {<<>>, StagePlans(q)}
    BY ParseFields, ParseVisual
<1>2. v.language = "vi" /\ v.text = Caption(q)
    BY DEF Visual
<1> HIDE DEF plan, v
<1>3. DOMAIN plan.visual = {1} /\ plan.visual[1] = v
    BY <1>1
<1>4. KeepsTexts(plan)
    <2>1. ExactWords(q) = ToSet(plan.exact) /\ ExactWords(q) \subseteq ToSet(plan.lexical)
        BY <1>1, ExactIsExact, LexicalHasExact
    <2>2. {plan.visual[i].text : i \in DOMAIN plan.visual} = {Caption(q)}
        BY <1>2, <1>3
    <2>3. \A text \in {Caption(q)} \ {q} : ExactTexts(q) \cap {w.text : w \in ToSet(text)} = {}
        BY CaptionKeeps DEF TextsIn
    <2> QED BY <1>1, <2>1, <2>2, <2>3 DEF KeepsTexts
<1>5. KeepsCaption(plan)
    <2>1. {i \in DOMAIN plan.visual : plan.visual[i].language = "vi"} = {1}
        BY <1>2, <1>3
    <2>2. UNION {ToSet(plan.visual[i].text) : i \in {i \in DOMAIN plan.visual : plan.visual[i].language = "vi"}}
          = ToSet(Caption(q))
        BY <1>2, <1>3, <2>1
    <2>3. {w \in ToSet(q) : Ordinary(w) /\ w.text \notin ExactTexts(q)} \subseteq ToSet(Caption(q))
        BY CaptionKeeps DEF Lasting
    <2> QED BY <1>1, <2>2, <2>3 DEF KeepsCaption
<1>6. KeepsObjects(plan)
    BY <1>1, ObjectsStandAlone DEF KeepsObjects
<1>7. KeepsStages(plan)
    <2>1. SUFFICES ASSUME plan.stages # <<>>
                   PROVE  OrdinaryWords(FlattenSeq([k \in DOMAIN plan.stages |-> plan.stages[k].text])) = OrdinaryWords(q)
        BY <1>1 DEF KeepsStages
    <2>2. plan.stages = StagePlans(q)
        BY <1>1, <2>1
    <2>3. DOMAIN StagePlans(q) = DOMAIN Stages(q) /\ \A k \in DOMAIN Stages(q) : StagePlans(q)[k].text = Stages(q)[k]
        BY DEF StagePlans
    <2>4. [k \in DOMAIN Stages(q) |-> StagePlans(q)[k].text] = [k \in DOMAIN Stages(q) |-> Stages(q)[k]]
        BY <2>3
    <2>5. [k \in DOMAIN Stages(q) |-> Stages(q)[k]] = Stages(q)
        BY StagesHoldTheWords
    <2> QED BY <2>2, <2>3, <2>4, <2>5, StagesHoldTheWords
<1> QED BY <1>4, <1>5, <1>6, <1>7 DEF plan

\* The captions after those of the model are put beside them.
WithVi(plan, response) ==
    IF response.vi = <<>> \/ \E i \in DOMAIN plan.visual : plan.visual[i] = Visual("vi", response.vi)
    THEN plan.visual ELSE <<Visual("vi", response.vi)>> \o plan.visual
WithEn(plan, response) ==
    LET vi == WithVi(plan, response)
    IN  IF ~English(response.en) \/ \E i \in DOMAIN vi : vi[i] = Visual("en", response.en) THEN vi
        ELSE Append(vi, Visual("en", response.en))

LEMMA RefinedFields ==
    ASSUME NEW q, NEW task, NEW r
    PROVE  LET plan == Parse(q, task)
               refined == Refined(plan, r)
           IN  /\ refined.query = q /\ refined.exact = plan.exact /\ refined.objects = plan.objects
               /\ refined.visual = Variants(WithEn(plan, r)) /\ refined.backend = "local_llm"
               /\ refined.lexical = Distinct(plan.lexical \o r.kept)
<1> DEFINE plan == Parse(q, task)
           visual == Variants(WithEn(plan, r))
           lexical == Distinct(plan.lexical \o r.kept)
           kept_ == Distinct(plan.kept \o r.kept)
           stages == IF r.stages = <<>> THEN plan.stages
                     ELSE [k \in DOMAIN r.stages |-> [text |-> r.stages[k], exact |-> <<>>, kept |-> <<>>]]
<1>1. Refined(plan, r) = [plan EXCEPT !.visual = visual, !.lexical = lexical, !.kept = kept_, !.stages = stages,
                                      !.backend = "local_llm"]
    BY DEF Refined, WithEn, WithVi
<1>2. ASSUME NEW a, NEW b, NEW c, NEW d
      PROVE  LET p == [Parse(q, task) EXCEPT !.visual = a, !.lexical = b, !.kept = c, !.stages = d, !.backend = "local_llm"]
             IN  /\ p.query = Parse(q, task).query /\ p.exact = Parse(q, task).exact /\ p.objects = Parse(q, task).objects
                 /\ p.visual = a /\ p.lexical = b /\ p.backend = "local_llm"
    BY DEF Parse
<1> HIDE DEF visual, lexical, kept_, stages
<1>3. /\ Refined(plan, r).query = plan.query /\ Refined(plan, r).exact = plan.exact
      /\ Refined(plan, r).objects = plan.objects /\ Refined(plan, r).visual = visual
      /\ Refined(plan, r).lexical = lexical /\ Refined(plan, r).backend = "local_llm"
    BY <1>1, <1>2
<1>4. plan.query = q
    BY ParseFields
<1> QED BY <1>3, <1>4 DEF visual, lexical

\* The parser's caption stays among the first, if there is room for two.
LEMMA RefinedVisual ==
    ASSUME NEW q, NEW task, NEW r, MaxVariants > 1
    PROVE  \E i \in DOMAIN Refined(Parse(q, task), r).visual :
               Refined(Parse(q, task), r).visual[i] = Visual("vi", Caption(q))
<1> DEFINE plan == Parse(q, task)
           v == Visual("vi", Caption(q))
           x == Visual("vi", r.vi)
           y == Visual("en", r.en)
           V == {v, x, y}
           vi == WithVi(plan, r)
           en == WithEn(plan, r)
<1>1. plan.visual = <<v>>
    BY ParseVisual
<1>2. vi \in {<<v>>, <<x>> \o <<v>>}
    BY <1>1 DEF WithVi
<1>3. en \in {vi, Append(vi, y)}
    BY DEF WithEn
<1>4. v \in V /\ x \in V /\ y \in V
    OBVIOUS
<1>5. Refined(plan, r).visual = Variants(en)
    BY RefinedFields
<1> HIDE DEF v, x, y, V, vi, en
<1>6. \A a, b \in V : /\ <<a>> \in Seq(V) /\ Len(<<a>>) = 1 /\ <<a>>[1] = a
                       /\ <<b>> \o <<a>> \in Seq(V) /\ Len(<<b>> \o <<a>>) = 2 /\ (<<b>> \o <<a>>)[2] = a
    OBVIOUS
<1>7. vi \in Seq(V) /\ Len(vi) \in {1, 2} /\ vi[Len(vi)] = v
    <2>1. CASE vi = <<v>>
        BY <1>4, <1>6, <2>1
    <2>2. CASE vi = <<x>> \o <<v>>
        BY <1>4, <1>6, <2>2
    <2> QED BY <1>2, <2>1, <2>2
<1> DEFINE i == Len(vi)
<1>8. en \in Seq(V) /\ Len(en) \in Nat /\ i <= Len(en) /\ en[i] = v /\ i \in {1, 2}
    <2>1. CASE en = vi
        BY <1>7, <2>1
    <2>2. CASE en = Append(vi, y)
        <3>1. /\ Append(vi, y) \in Seq(V) /\ Len(Append(vi, y)) = Len(vi) + 1
              /\ \A j \in 1..Len(vi) : Append(vi, y)[j] = vi[j]
            BY <1>4, <1>7, AppendProperties
        <3> QED BY <1>7, <2>2, <3>1
    <2> QED BY <1>3, <2>1, <2>2
<1> HIDE DEF i
<1> DEFINE n == IF Len(en) < MaxVariants THEN Len(en) ELSE MaxVariants
<1>9. n \in 0..Len(en) /\ i \in 1..n
    BY <1>8, QueryAssumption
<1>10. Variants(en) = SubSeq(en, 1, n)
    BY DEF Variants
<1> HIDE DEF n
<1>11. DOMAIN SubSeq(en, 1, n) = 1..n /\ \A j \in 1..n : SubSeq(en, 1, n)[j] = en[j]
    BY <1>8, <1>9
<1> QED BY <1>5, <1>8, <1>9, <1>10, <1>11 DEF v, plan

LEMMA ModelKeepsTheQuery ==
    ASSUME NEW S, NEW q \in Seq(S), NEW task, NEW r, r.kept \in Seq(S)
    PROVE  LET plan == Refined(Parse(q, task), r)
           IN  KeepsTexts(plan) /\ KeepsCaption(plan) /\ KeepsObjects(plan) /\ KeepsStages(plan)
<1> DEFINE plan == Refined(Parse(q, task), r)
<1>1. /\ plan.query = q /\ plan.exact = Exact(q) /\ plan.objects = Objects(q) /\ plan.backend = "local_llm"
      /\ plan.lexical = Distinct(Lexical(q) \o r.kept)
    <2> DEFINE base == Parse(q, task)
    <2>1. /\ Refined(base, r).query = q /\ Refined(base, r).exact = base.exact
          /\ Refined(base, r).objects = base.objects /\ Refined(base, r).visual = Variants(WithEn(base, r))
          /\ Refined(base, r).backend = "local_llm" /\ Refined(base, r).lexical = Distinct(base.lexical \o r.kept)
        BY RefinedFields
    <2>2. base.exact = Exact(q) /\ base.lexical = Lexical(q) /\ base.objects = Objects(q)
        BY ParseFields, Zenon
    <2> HIDE DEF base
    <2> QED BY <2>1, <2>2 DEF base
<1>2. MaxVariants > 1 => \E i \in DOMAIN plan.visual : plan.visual[i] = Visual("vi", Caption(q))
    BY RefinedVisual
<1> HIDE DEF plan
<1>3. KeepsTexts(plan)
    <2> DEFINE a == Lexical(q)
               b == r.kept
               T == Cleaned(S)
    <2>1. a \in Seq(T) /\ b \in Seq(T) /\ ExactWords(q) \subseteq ToSet(a) /\ ExactWords(q) = ToSet(Exact(q))
        <3>1. b \in Seq(T)
            BY InCleaned
        <3> QED BY <3>1, LexicalHasExact, ExactIsExact
    <2> HIDE DEF a, b, T
    <2>2. a \o b \in Seq(T) /\ ToSet(a \o b) = ToSet(a) \cup ToSet(b)
        BY <2>1, SetOfConcat
    <2> DEFINE c == a \o b
    <2>3. c \in Seq(T)
        BY <2>2
    <2> HIDE DEF c
    <2>4. ToSet(Distinct(c)) = ToSet(c)
        BY <2>3, DistinctWords
    <2>5. plan.lexical = Distinct(c)
        BY <1>1 DEF a, b, c
    <2>6. ToSet(c) = ToSet(a) \cup ToSet(b)
        BY <2>2 DEF c
    <2> QED BY <1>1, <2>1, <2>4, <2>5, <2>6 DEF KeepsTexts
<1>4. KeepsCaption(plan)
    <2> SUFFICES ASSUME MaxVariants > 1
                 PROVE  {w \in ToSet(q) : Ordinary(w) /\ w.text \notin ExactTexts(q)}
                            \subseteq UNION {ToSet(plan.visual[i].text) :
                                               i \in {i \in DOMAIN plan.visual : plan.visual[i].language = "vi"}}
        BY <1>1 DEF KeepsCaption
    <2>1. PICK i \in DOMAIN plan.visual : plan.visual[i] = Visual("vi", Caption(q))
        BY <1>2
    <2>2. plan.visual[i].language = "vi" /\ plan.visual[i].text = Caption(q)
        BY <2>1 DEF Visual
    <2>3. {w \in ToSet(q) : Ordinary(w) /\ w.text \notin ExactTexts(q)} \subseteq ToSet(Caption(q))
        BY CaptionKeeps DEF Lasting
    <2> QED BY <2>1, <2>2, <2>3
<1>5. KeepsObjects(plan)
    BY <1>1, ObjectsStandAlone DEF KeepsObjects
<1>6. KeepsStages(plan)
    BY <1>1 DEF KeepsStages
<1> QED BY <1>3, <1>4, <1>5, <1>6 DEF plan

-----------------------------------------------------------------------------
(* The events *)

LEMMA RawEventsAre ==
    ASSUME NEW S, NEW q \in Seq(S)
    PROVE  RawEvents(q) \in Seq(Seq(S)) /\ <<q>> \in Seq(Seq(S))
<1>1. Pieces(q, {i \in DOMAIN q : Is(q[i], "bar")}) \in Seq(Seq(S))
    BY PiecesHoldTheWords, Zenon
<1> DEFINE V == Seq(S)
<1>2. q \in V
    OBVIOUS
<1> HIDE DEF V
<1>3. <<q>> \in Seq(V)
    BY <1>2
<1> QED BY <1>1, <1>3, Zenon DEF RawEvents, V

\* One for one.
LEMMA AsManyEvents ==
    ASSUME NEW V, NEW events \in Seq(V), NEW plan
    PROVE  Len(EventQueries(events, plan)) = Len(events) /\ DOMAIN EventQueries(events, plan) = DOMAIN events
<1> DEFINE texts == [k \in DOMAIN events |-> plan.stages[k].text]
           n == Len(events)
<1>1. n \in Nat /\ DOMAIN events = 1..n
    OBVIOUS
<1>2. DOMAIN texts = 1..n
    BY <1>1
<1>3. Len(texts) = n
    BY <1>1, <1>2
<1> HIDE DEF texts
<1>4. EventQueries(events, plan) \in {texts, events}
    BY DEF EventQueries, texts
<1> QED BY <1>1, <1>2, <1>3, <1>4

\* A plan for this query: each stage says its event's ordinary words.
LEMMA ParserKeepsEvents ==
    ASSUME NEW S, NEW q \in Seq(S), NEW task, NEW events \in {<<>>, RawEvents(q), <<q>>},
           NEW k \in DOMAIN EventQueries(events, Parse(q, task))
    PROVE  OrdinaryWords(EventQueries(events, Parse(q, task))[k]) = OrdinaryWords(events[k])
<1> DEFINE plan == Parse(q, task)
           asked == EventQueries(events, plan)
<1>0. events \in Seq(Seq(S))
    <2> DEFINE V == Seq(S)
    <2>1. RawEvents(q) \in Seq(V) /\ <<q>> \in Seq(V)
        BY RawEventsAre
    <2> HIDE DEF V
    <2>2. <<>> \in Seq(V)
        OBVIOUS
    <2>3. events \in Seq(V)
        BY <2>1, <2>2, Zenon
    <2> QED BY <2>3 DEF V
<1>1. k \in DOMAIN events /\ DOMAIN events = 1..Len(events) /\ Len(events) \in Nat /\ events # <<>>
    BY <1>0, AsManyEvents
<1>2. plan.stages \in {<<>>, StagePlans(q)}
    BY ParseFields
<1> HIDE DEF plan
<1>3. CASE Len(plan.stages) # Len(events)
    BY <1>3 DEF EventQueries, plan
<1>4. CASE Len(plan.stages) = Len(events)
    <2>1. asked[k] = plan.stages[k].text
        BY <1>1, <1>4 DEF EventQueries
    <2>2. plan.stages = StagePlans(q)
        <3>1. Len(<<>>) = 0
            OBVIOUS
        <3>2. Len(events) # 0
            BY <1>1
        <3> QED BY <1>2, <1>4, <3>1, <3>2
    <2>3. Stages(q) \in Seq(Seq(S)) /\ OrdinaryWords(FlattenSeq(Stages(q))) = OrdinaryWords(q)
        BY StagesHoldTheWords
    <2>4. DOMAIN Stages(q) = 1..Len(Stages(q)) /\ Len(Stages(q)) \in Nat
        BY <2>3
    <2>5. DOMAIN StagePlans(q) = DOMAIN Stages(q) /\ Len(StagePlans(q)) = Len(Stages(q))
          /\ \A j \in DOMAIN Stages(q) : StagePlans(q)[j].text = Stages(q)[j]
        BY <2>4 DEF StagePlans
    <2>6. Len(Stages(q)) = Len(events) /\ asked[k] = Stages(q)[k]
        BY <1>1, <1>4, <2>1, <2>2, <2>4, <2>5
    <2>7. ASSUME Len(events) = 1, OrdinaryWords(events[1]) = OrdinaryWords(q)
          PROVE  OrdinaryWords(Stages(q)[k]) = OrdinaryWords(events[k])
        <3>1. k = 1
            BY <1>1, <2>7
        <3>2. FlattenSeq(Stages(q)) = Stages(q)[1]
            BY <2>3, <2>6, <2>7, FlattenOfOne
        <3> QED BY <2>3, <2>7, <3>1, <3>2
    <2>8. CASE events = <<q>>
        <3>1. Len(events) = 1 /\ events[1] = q
            BY <2>8
        <3> QED BY <2>6, <2>7, <3>1 DEF plan
    <2>9. CASE events = RawEvents(q)
        <3> DEFINE bars == {i \in DOMAIN q : Is(q[i], "bar")}
        <3>1. RawEvents(q) = Pieces(q, bars)
            BY DEF RawEvents
        <3>2. CASE bars # {}
            <4>1. StageMarks(q) = bars
                BY <3>2 DEF StageMarks
            <4>2. Stages(q) = Pieces(q, bars)
                BY <1>1, <2>9, <3>1, <4>1 DEF Stages
            <4> QED BY <2>6, <2>9, <3>1, <4>2 DEF plan
        <3>3. CASE bars = {}
            <4>1. events = Pieces(q, {})
                BY <2>9, <3>1, <3>3
            <4>2. FlattenSeq(events) = WordsAt(q, DOMAIN q \ {})
                BY <4>1, PiecesHoldTheWords
            <4>3. OrdinaryWords(WordsAt(q, DOMAIN q \ {})) = OrdinaryWords(q)
                <5> DEFINE I == DOMAIN q \ {}
                <5>1. OrdinaryAt(q) \subseteq I
                    BY DEF OrdinaryAt
                <5> HIDE DEF I
                <5>2. OrdinaryWords(WordsAt(q, I)) = OrdinaryWords(q)
                    BY <5>1, OrdinaryOfSelection
                <5> QED BY <5>2 DEF I
            <4>4. Len(events) = 1
                <5>1. q # <<>> => Len(Pieces(q, {})) = 1
                    BY OnePiece
                <5>2. q = <<>> => Pieces(q, {}) = <<>>
                    BY EmptyPieces
                <5> QED BY <1>1, <4>1, <5>1, <5>2
            <4>5. FlattenSeq(events) = events[1]
                BY <1>0, <4>4, FlattenOfOne
            <4> QED BY <2>6, <2>7, <4>2, <4>3, <4>4, <4>5 DEF plan
        <3> QED BY <3>2, <3>3
    <2> QED BY <1>1, <2>8, <2>9
<1> QED BY <1>3, <1>4

-----------------------------------------------------------------------------
(* QueryPlans *)

PlanSteps == {"idle", "done", "refiner", "make", "take", "memory", "disk", "remember", "parse", "store", "save",
              "model", "lock", "load", "generate"}
Planning == {"model", "lock", "load", "generate"}
Keeping == {"remember", "store", "save"}
WithRefiner == {"memory", "disk", "parse"} \cup Planning \cup Keeping

Plans == {PlanOf[q][t] : q \in Asked, t \in Tasks} \cup {RefinedPlan[q][t][r] : q \in Asked, t \in Tasks, r \in Responses}
Unrefined == {Passthrough(q, t) : q \in Asked, t \in Tasks}
EventsOf(q) == {<<>>, RawEvents(q), <<q>>}
EventLists == {<<>>} \cup UNION {{RawEvents(q), <<q>>} : q \in Asked}

\* A plan for the text and the task of a key.
Fits(key, plan) ==
    /\ plan \in Plans /\ Texts(plan.query) = key[1]
    /\ \/ plan = PlanOf[plan.query][key[2]]
       \/ \E r \in Responses : plan = RefinedPlan[plan.query][key[2]][r]

Keys == {Key(q, t) : q \in Asked, t \in Tasks}
Entries == {e \in [key : Keys, plan : Plans] : Fits(e.key, e.plan)}
ClientRecords == [step : PlanSteps, mine : Refiners \cup {None}, query : Asked \cup {<<>>}, task : Tasks \cup {None},
                  events : EventLists, plan : Plans \cup Unrefined \cup {None}]
Models == [loaded : BOOLEAN, failed : BOOLEAN, holder : Clients \cup {None}, loads : Nat]

RefinerInv == workload \in Workloads /\ made \in 0..MaxRefiners /\ refiner \in Refiners \cup {None}

Unique(entries) == \A i, j \in 1..Len(entries) : entries[i].key = entries[j].key => i = j
MemoryInv ==
    /\ memory \in [Refiners -> Seq(Entries)]
    /\ \A r \in Refiners : Len(memory[r]) <= MaxMemory /\ Unique(memory[r])

ModelInv ==
    /\ model \in [Refiners -> Models]
    /\ \A r \in Refiners : model[r].loads <= 1 /\ (model[r].loaded = FALSE => model[r].loads = 0)

DiskInv == \A k \in DOMAIN disk : Fits(k, disk[k])

\* Whoever loads a model holds its lock, and nobody has loaded it before.
Sound(c) ==
    /\ client[c].step # "idle" =>
           client[c].query \in Asked /\ client[c].task \in Tasks /\ client[c].events \in EventsOf(client[c].query)
    /\ client[c].step = "take" => refiner \in Refiners
    /\ client[c].step \in WithRefiner => client[c].mine \in Refiners
    /\ client[c].step \in Planning => client[c].plan = PlanOf[client[c].query][client[c].task]
    /\ client[c].step \in Keeping => Fits(KeyOf(c), client[c].plan)
    /\ client[c].step = "done" =>
           \/ Fits(KeyOf(c), client[c].plan)
           \/ workload.backend = "off" /\ client[c].plan = Passthrough(client[c].query, client[c].task)
    /\ client[c].step = "load" => model[client[c].mine].holder = c /\ model[client[c].mine].loaded = FALSE

ClientType == client \in [Clients -> ClientRecords]
ClientInv == \A c \in Clients : Sound(c)

PlanInv == RefinerInv /\ MemoryInv /\ ModelInv /\ DiskInv /\ ClientType /\ ClientInv

LEMMA PlanInvInit == PlanInit => PlanInv
<1> SUFFICES ASSUME PlanInit PROVE PlanInv
    OBVIOUS
<1>1. RefinerInv
    BY PlanAssumption DEF PlanInit, RefinerInv
<1>2. MemoryInv
    BY PlanAssumption DEF PlanInit, MemoryInv, Unique
<1>3. ModelInv
    <2>1. NoModel \in Models /\ NoModel.loads = 0
        BY DEF NoModel, Models
    <2> QED BY <2>1 DEF PlanInit, ModelInv
<1>4. DiskInv
    BY DEF PlanInit, DiskInv
<1>5. Idle \in ClientRecords /\ Idle.step = "idle"
    BY DEF Idle, ClientRecords, PlanSteps, EventLists
<1>6. ClientType
    BY <1>5 DEF PlanInit, ClientType
<1>7. ClientInv
    BY <1>5 DEF PlanInit, ClientInv, Sound, WithRefiner, Planning, Keeping
<1> QED BY <1>1, <1>2, <1>3, <1>4, <1>6, <1>7 DEF PlanInv

\* The parser and the model write a plan for the text they are given.
LEMMA PlanQueries ==
    ASSUME NEW q \in Asked, NEW t \in Tasks
    PROVE  /\ PlanOf[q][t].query = q /\ Fits(Key(q, t), PlanOf[q][t])
           /\ \A r \in Responses : Fits(Key(q, t), RefinedPlan[q][t][r])
           /\ Passthrough(q, t).query = q
<1>1. PlanOf[q][t] = Parse(q, t)
    BY DEF PlanOf
<1>2. Parse(q, t).query = q
    BY DEF Parse
<1>3. ASSUME NEW r \in Responses
      PROVE  RefinedPlan[q][t][r].query = q
    <2>1. RefinedPlan[q][t][r] = Refined(Parse(q, t), r)
        BY <1>1 DEF RefinedPlan
    <2>2. ASSUME NEW visual, NEW lexical, NEW texts, NEW stages
          PROVE  [Parse(q, t) EXCEPT !.visual = visual, !.lexical = lexical, !.kept = texts, !.stages = stages,
                                     !.backend = "local_llm"].query = Parse(q, t).query
        BY DEF Parse
    <2>3. Refined(Parse(q, t), r).query = Parse(q, t).query
        BY <2>2 DEF Refined
    <2> QED BY <1>2, <2>1, <2>3
<1>4. PlanOf[q][t] \in Plans /\ \A r \in Responses : RefinedPlan[q][t][r] \in Plans
    BY DEF Plans
<1> QED BY <1>1, <1>2, <1>3, <1>4 DEF Fits, Key, Passthrough

\* A memory keeps its entries apart.
LEMMA TailKeeps ==
    ASSUME NEW entries \in Seq(Entries), Unique(entries), entries # <<>>
    PROVE  Tail(entries) \in Seq(Entries) /\ Unique(Tail(entries)) /\ Len(Tail(entries)) = Len(entries) - 1
<1>1. /\ Tail(entries) \in Seq(Entries) /\ Len(Tail(entries)) = Len(entries) - 1 /\ Len(entries) \in Nat
      /\ \A i \in 1..Len(Tail(entries)) : Tail(entries)[i] = entries[i + 1]
    OBVIOUS
<1>2. ASSUME NEW i \in 1..Len(Tail(entries)), NEW j \in 1..Len(Tail(entries)),
             Tail(entries)[i].key = Tail(entries)[j].key
      PROVE  i = j
    <2>1. i + 1 \in 1..Len(entries) /\ j + 1 \in 1..Len(entries)
        BY <1>1
    <2>2. i + 1 = j + 1
        BY <1>1, <1>2, <2>1 DEF Unique
    <2> QED BY <1>1, <2>2
<1> QED BY <1>1, <1>2 DEF Unique

LEMMA WithKeeps ==
    ASSUME NEW entries \in Seq(Entries), Unique(entries), NEW e \in Entries
    PROVE  With(entries, e) \in Seq(Entries) /\ Unique(With(entries, e)) /\ Len(With(entries, e)) \in 0..(Len(entries) + 1)
<1>0. DOMAIN entries = 1..Len(entries) /\ Len(entries) \in Nat
    OBVIOUS
<1>1. CASE \E i \in DOMAIN entries : entries[i].key = e.key
    <2> DEFINE new == [i \in DOMAIN entries |-> IF entries[i].key = e.key THEN e ELSE entries[i]]
    <2>1. With(entries, e) = new
        BY <1>1 DEF With
    <2>2. new \in Seq(Entries) /\ Len(new) = Len(entries)
        BY <1>0
    <2>3. \A i \in 1..Len(entries) : new[i].key = entries[i].key
        BY <1>0
    <2>4. Unique(new)
        BY <1>0, <2>2, <2>3 DEF Unique
    <2> HIDE DEF new
    <2> QED BY <1>0, <2>1, <2>2, <2>4
<1>2. CASE ~\E i \in DOMAIN entries : entries[i].key = e.key
    <2>1. With(entries, e) = Append(entries, e)
        BY <1>2 DEF With
    <2>2. Append(entries, e) \in Seq(Entries) /\ Len(Append(entries, e)) = Len(entries) + 1
          /\ Append(entries, e)[Len(entries) + 1] = e
          /\ \A i \in 1..Len(entries) : Append(entries, e)[i] = entries[i]
        OBVIOUS
    <2>3. Unique(Append(entries, e))
        BY <1>0, <1>2, <2>2 DEF Unique
    <2> QED BY <1>0, <2>1, <2>2, <2>3
<1> QED BY <1>1, <1>2

\* Only c's record changes.
ClientMoves(c) ==
    /\ client' \in [Clients -> ClientRecords]
    /\ \A d \in Clients \ {c} : client'[d] = client[d]

SetTo(c, step, plan) ==
    /\ ClientMoves(c)
    /\ client'[c].step = step /\ client'[c].plan = plan
    /\ client'[c].mine = client[c].mine /\ client'[c].query = client[c].query /\ client'[c].task = client[c].task
    /\ client'[c].events = client[c].events

LEMMA SetMoves ==
    ASSUME ClientType, NEW c \in Clients, NEW step \in PlanSteps, NEW plan \in Plans \cup Unrefined \cup {None},
           Set(c, step, plan)
    PROVE  SetTo(c, step, plan)
<1> DEFINE v == [client[c] EXCEPT !.step = step, !.plan = plan]
<1>1. client[c] \in ClientRecords
    BY DEF ClientType
<1>2. /\ v \in ClientRecords /\ v.step = step /\ v.plan = plan
      /\ v.mine = client[c].mine /\ v.query = client[c].query /\ v.task = client[c].task
      /\ v.events = client[c].events
    BY <1>1 DEF ClientRecords
<1>3. client' = [client EXCEPT ![c] = v]
    BY DEF Set
<1> HIDE DEF v
<1> QED BY <1>2, <1>3 DEF ClientType, SetTo, ClientMoves

LEMMA StepMoves ==
    ASSUME ClientType, NEW c \in Clients, NEW step \in PlanSteps, Step(c, step)
    PROVE  SetTo(c, step, client[c].plan)
<1>1. client[c].plan \in Plans \cup Unrefined \cup {None}
    BY DEF ClientType, ClientRecords
<1> QED BY <1>1, SetMoves DEF Step

\* The locks of the others stay theirs.
LEMMA OthersStay ==
    ASSUME PlanInv, NEW c \in Clients, ClientMoves(c), Sound(c)', refiner' = refiner \/ refiner' \in Refiners,
           UNCHANGED workload,
           \A r \in Refiners, d \in Clients \ {c} :
               model[r].holder = d /\ model[r].loaded = FALSE => model'[r].holder = d /\ model'[r].loaded = FALSE
    PROVE  ClientType' /\ ClientInv'
<1>1. ASSUME NEW d \in Clients \ {c}
      PROVE  Sound(d)'
    <2>1. Sound(d) /\ client'[d] = client[d]
        BY DEF PlanInv, ClientInv, ClientMoves
    <2>2. client[d].step = "load" => client[d].mine \in Refiners
        BY <2>1 DEF Sound, WithRefiner, Planning
    <2> QED BY <2>1, <2>2 DEF Sound, KeyOf
<1> QED BY <1>1 DEF ClientType, ClientInv, ClientMoves

\* A step that changes nothing but the client.
LEMMA ClientOnly ==
    ASSUME PlanInv, NEW c \in Clients, ClientMoves(c), Sound(c)',
           UNCHANGED <<workload, refiner, made, memory, model, disk>>
    PROVE  PlanInv'
<1>1. ClientType' /\ ClientInv'
    BY OthersStay
<1> QED BY <1>1 DEF PlanInv, RefinerInv, MemoryInv, ModelInv, DiskInv

LEMMA PlanSearch ==
    ASSUME PlanInv, NEW c \in Clients, Search(c)
    PROVE  PlanInv'
<1>1. PICK q \in workload.queries, kind \in workload.kinds :
           \E events \in IF kind = "trake" THEN {RawEvents(q), <<q>>} \ {<<>>} ELSE {<<>>} :
               client' = [client EXCEPT ![c] = [Idle EXCEPT !.step = "refiner", !.task = TaskOf(kind), !.events = events,
                                                            !.query = IF kind = "qa" THEN Decompose(q) ELSE q]]
    BY DEF Search
<1>2. PICK events \in IF kind = "trake" THEN {RawEvents(q), <<q>>} \ {<<>>} ELSE {<<>>} :
               client' = [client EXCEPT ![c] = [Idle EXCEPT !.step = "refiner", !.task = TaskOf(kind), !.events = events,
                                                            !.query = IF kind = "qa" THEN Decompose(q) ELSE q]]
    BY <1>1
<1> DEFINE query == IF kind = "qa" THEN Decompose(q) ELSE q
           v == [Idle EXCEPT !.step = "refiner", !.task = TaskOf(kind), !.events = events, !.query = query]
<1>3. workload \in Workloads
    BY DEF PlanInv, RefinerInv
<1>4. q \in Asked /\ Decompose(q) \in Asked /\ TaskOf(kind) \in Tasks
    BY <1>3 DEF Asked, Tasks
<1>5. query \in Asked /\ events \in EventLists /\ events \in EventsOf(query)
    BY <1>4 DEF EventLists, EventsOf
<1>6. client' = [client EXCEPT ![c] = v]
    BY <1>2
<1> HIDE DEF query
<1>7. v \in ClientRecords /\ v.step = "refiner" /\ v.query = query /\ v.events = events /\ v.task \in Tasks
    BY <1>4, <1>5 DEF Idle, ClientRecords, PlanSteps
<1> HIDE DEF v
<1>8. ClientMoves(c) /\ client'[c] = v
    BY <1>6, <1>7 DEF PlanInv, ClientType, ClientMoves
<1>9. Sound(c)'
    BY <1>5, <1>7, <1>8 DEF Sound, WithRefiner, Planning, Keeping
<1> QED BY <1>8, <1>9, ClientOnly DEF Search

\* A step by which c takes no plan.
LEMMA PlanLooks ==
    ASSUME PlanInv, NEW c \in Clients, LookForRefiner(c) \/ LookForModel(c)
    PROVE  PlanInv'
<1>0. ClientType /\ Sound(c)
    BY DEF PlanInv, ClientInv
<1>1. CASE LookForRefiner(c)
    <2>1. PICK step \in {"make", "take"} : Step(c, step) /\ (step = "take" => refiner # None)
        BY <1>1 DEF LookForRefiner
    <2>2. SetTo(c, step, client[c].plan) /\ client[c].step = "refiner"
        BY <1>0, <1>1, <2>1, StepMoves DEF PlanSteps, LookForRefiner, At
    <2>3. Sound(c)'
        BY <1>0, <1>1, <2>1, <2>2 DEF LookForRefiner, Sound, SetTo, WithRefiner, Planning, Keeping, PlanInv, RefinerInv
    <2> QED BY <1>1, <2>2, <2>3, ClientOnly DEF SetTo, LookForRefiner
<1>2. CASE LookForModel(c)
    <2>1. PICK step \in {"generate", "store", "lock"} : Step(c, step)
        BY <1>2 DEF LookForModel
    <2>2. SetTo(c, step, client[c].plan) /\ client[c].step = "model"
        BY <1>0, <1>2, <2>1, StepMoves DEF PlanSteps, LookForModel, At
    <2>3. client[c].query \in Asked /\ client[c].task \in Tasks /\ Fits(KeyOf(c), client[c].plan)
        BY <1>0, <2>2, PlanQueries DEF Sound, Planning, KeyOf
    <2>4. Sound(c)'
        BY <1>0, <2>2, <2>3 DEF Sound, SetTo, WithRefiner, Planning, Keeping, KeyOf
    <2> QED BY <1>2, <2>2, <2>4, ClientOnly DEF SetTo, LookForModel
<1> QED BY <1>1, <1>2

LEMMA PlanMakes ==
    ASSUME PlanInv, NEW c \in Clients, MakeRefiner(c)
    PROVE  PlanInv'
<1>0. ClientType /\ Sound(c) /\ RefinerInv
    BY DEF PlanInv, ClientInv
<1>1. SetTo(c, "take", client[c].plan) /\ client[c].step = "make"
    BY <1>0, StepMoves DEF PlanSteps, MakeRefiner, At
<1>2. made' = made + 1 /\ made' \in 0..MaxRefiners /\ refiner' = made' /\ refiner' \in Refiners
      /\ UNCHANGED <<workload, memory, model, disk>>
    BY <1>0, PlanAssumption DEF MakeRefiner, RefinerInv, Refiners
<1>3. Sound(c)'
    BY <1>0, <1>1, <1>2 DEF Sound, SetTo, WithRefiner, Planning, Keeping
<1>4. ClientType' /\ ClientInv'
    BY <1>1, <1>2, <1>3, OthersStay DEF SetTo
<1> QED BY <1>2, <1>4 DEF PlanInv, RefinerInv, MemoryInv, ModelInv, DiskInv

\* Off: the query is its own plan.
LEMMA PlanTakes ==
    ASSUME PlanInv, NEW c \in Clients, TakeRefiner(c)
    PROVE  PlanInv'
<1>0. ClientType /\ Sound(c) /\ client[c].step = "take" /\ refiner \in Refiners
      /\ client[c] \in ClientRecords /\ client[c].query \in Asked /\ client[c].task \in Tasks
    BY DEF PlanInv, ClientInv, ClientType, TakeRefiner, At, Sound
<1> DEFINE off == workload.backend = "off"
           step == IF off THEN "done" ELSE "memory"
           plan == IF off THEN Passthrough(client[c].query, client[c].task) ELSE None
           v == [client[c] EXCEPT !.mine = refiner, !.step = step, !.plan = plan]
<1>1. client' = [client EXCEPT ![c] = v]
    BY <1>0 DEF TakeRefiner
<1>2. plan \in Unrefined \cup {None} /\ step \in PlanSteps
    BY <1>0 DEF Unrefined, PlanSteps
<1>3. v \in ClientRecords /\ v.step = step /\ v.plan = plan /\ v.mine = refiner
      /\ v.query = client[c].query /\ v.task = client[c].task /\ v.events = client[c].events
    <2> HIDE DEF plan, step
    <2> QED BY <1>0, <1>2 DEF ClientRecords
<1>4. (step = "done" /\ workload.backend = "off" /\ plan = Passthrough(client[c].query, client[c].task)) \/ step = "memory"
    OBVIOUS
<1> HIDE DEF v, plan, step
<1>5. ClientMoves(c) /\ client'[c] = v
    BY <1>0, <1>1, <1>3 DEF ClientType, ClientMoves
<1>6. Sound(c)'
    <2>1. client[c].events \in EventsOf(client[c].query) /\ workload' = workload
        BY <1>0 DEF Sound, TakeRefiner
    <2> QED BY <1>0, <1>3, <1>4, <1>5, <2>1 DEF Sound, WithRefiner, Planning, Keeping
<1> QED BY <1>5, <1>6, ClientOnly DEF TakeRefiner

\* What c finds in a cache, or gets from the parser or the model, fits its key.
LEMMA PlanFinds ==
    ASSUME PlanInv, NEW c \in Clients, LookInMemory(c) \/ ReadDisk(c) \/ ParseQuery(c) \/ Generate(c)
    PROVE  PlanInv'
<1>0. ClientType /\ Sound(c) /\ client[c].plan \in Plans \cup Unrefined \cup {None}
    BY DEF PlanInv, ClientInv, ClientType, ClientRecords
<1>1. /\ client[c].step \in {"memory", "disk", "parse", "generate"}
      /\ client[c].query \in Asked /\ client[c].task \in Tasks /\ client[c].mine \in Refiners
      /\ client[c].events \in EventsOf(client[c].query)
    BY <1>0 DEF LookInMemory, ReadDisk, ParseQuery, Generate, At, Sound, WithRefiner, Planning
<1>2. UNCHANGED <<workload, refiner, made, memory, model, disk>>
    BY DEF LookInMemory, ReadDisk, ParseQuery, Generate
<1>3. \E step \in PlanSteps, plan \in Plans \cup Unrefined \cup {None} :
          /\ Set(c, step, plan)
          /\ \/ step \in {"disk", "parse"}
             \/ step \in {"done", "remember", "store"} /\ Fits(KeyOf(c), plan)
             \/ step = "model" /\ plan = PlanOf[client[c].query][client[c].task]
    <2>1. CASE LookInMemory(c)
        <3>1. CASE Remembered(Mine(c), KeyOf(c)) = {}
            BY <1>0, <2>1, <3>1 DEF LookInMemory, Step, PlanSteps
        <3>2. CASE Remembered(Mine(c), KeyOf(c)) # {}
            <4>1. PICK i \in Remembered(Mine(c), KeyOf(c)) : Set(c, "done", memory[Mine(c)][i].plan)
                BY <2>1, <3>2 DEF LookInMemory
            <4>2. memory[Mine(c)] \in Seq(Entries) /\ i \in DOMAIN memory[Mine(c)]
                BY <1>1, <4>1 DEF PlanInv, MemoryInv, Mine, Remembered
            <4>3. memory[Mine(c)][i] \in Entries /\ memory[Mine(c)][i].key = KeyOf(c)
                BY <4>1, <4>2 DEF Remembered
            <4>4. Fits(KeyOf(c), memory[Mine(c)][i].plan)
                BY <4>3 DEF Entries
            <4> QED BY <4>1, <4>4 DEF Fits, PlanSteps
        <3> QED BY <3>1, <3>2
    <2>2. CASE ReadDisk(c)
        <3>1. CASE KeyOf(c) \in DOMAIN disk /\ Set(c, "remember", disk[KeyOf(c)])
            <4>1. Fits(KeyOf(c), disk[KeyOf(c)])
                BY <3>1 DEF PlanInv, DiskInv
            <4> QED BY <3>1, <4>1 DEF Fits, PlanSteps
        <3>2. CASE Step(c, "parse")
            BY <1>0, <3>2 DEF Step, PlanSteps
        <3> QED BY <2>2, <3>1, <3>2 DEF ReadDisk
    <2>3. CASE ParseQuery(c)
        <3>1. PICK step \in {"model", "store"} : Set(c, step, PlanOf[client[c].query][client[c].task])
            BY <2>3 DEF ParseQuery
        <3>2. Fits(KeyOf(c), PlanOf[client[c].query][client[c].task])
            BY <1>1, PlanQueries DEF KeyOf
        <3> QED BY <3>1, <3>2 DEF Fits, PlanSteps
    <2>4. CASE Generate(c)
        <3>1. CASE Step(c, "store")
            <4>1. Fits(KeyOf(c), client[c].plan)
                BY <1>0, <1>1, <2>4, PlanQueries DEF Sound, Planning, KeyOf, Generate, At
            <4> QED BY <1>0, <3>1, <4>1 DEF Step, PlanSteps
        <3>2. CASE \E r \in Responses : Set(c, "store", RefinedPlan[client[c].query][client[c].task][r])
            <4>1. PICK r \in Responses : Set(c, "store", RefinedPlan[client[c].query][client[c].task][r])
                BY <3>2
            <4>2. Fits(KeyOf(c), RefinedPlan[client[c].query][client[c].task][r])
                BY <1>1, PlanQueries DEF KeyOf
            <4> QED BY <4>1, <4>2 DEF Fits, PlanSteps
        <3> QED BY <2>4, <3>1, <3>2 DEF Generate
    <2> QED BY <2>1, <2>2, <2>3, <2>4
<1>4. PICK step \in PlanSteps, plan \in Plans \cup Unrefined \cup {None} :
          /\ Set(c, step, plan)
          /\ \/ step \in {"disk", "parse"}
             \/ step \in {"done", "remember", "store"} /\ Fits(KeyOf(c), plan)
             \/ step = "model" /\ plan = PlanOf[client[c].query][client[c].task]
    BY <1>3
<1>5. SetTo(c, step, plan)
    BY <1>0, <1>4, SetMoves
<1>6. Sound(c)'
    BY <1>1, <1>4, <1>5 DEF Sound, SetTo, WithRefiner, Planning, Keeping, KeyOf
<1> QED BY <1>2, <1>5, <1>6, ClientOnly DEF SetTo

\* Room is made before a plan is kept.
LEMMA PlanKeeps ==
    ASSUME PlanInv, NEW c \in Clients, Remember(c) \/ Store(c)
    PROVE  PlanInv'
<1>0. /\ ClientType /\ Sound(c) /\ client[c].step \in {"remember", "store"}
      /\ client[c].query \in Asked /\ client[c].task \in Tasks /\ client[c].mine \in Refiners
      /\ Fits(KeyOf(c), client[c].plan)
      /\ UNCHANGED <<workload, refiner, made, model, disk>>
    <2>1. ClientType /\ Sound(c) /\ client[c].step \in {"remember", "store"}
        BY DEF PlanInv, ClientInv, Remember, Store, At
    <2>2. UNCHANGED <<workload, refiner, made, model, disk>>
        BY DEF Remember, Store
    <2> QED BY <2>1, <2>2 DEF Sound, WithRefiner, Keeping
<1>1. Entry(c) \in Entries
    <2>1. KeyOf(c) \in Keys /\ client[c].plan \in Plans
        BY <1>0 DEF Keys, KeyOf, Fits
    <2>2. Entry(c) \in [key : Keys, plan : Plans] /\ Entry(c).key = KeyOf(c) /\ Entry(c).plan = client[c].plan
        BY <2>1 DEF Entry
    <2> QED BY <1>0, <2>2 DEF Entries
<1> DEFINE r == client[c].mine
<1>2. memory \in [Refiners -> Seq(Entries)] /\ memory[r] \in Seq(Entries) /\ Len(memory[r]) <= MaxMemory /\ Unique(memory[r])
      /\ MaxMemory \in Nat /\ MaxMemory > 0 /\ Len(memory[r]) \in Nat
    BY <1>0, PlanAssumption DEF PlanInv, MemoryInv
<1>3. ASSUME NEW entries \in Seq(Entries), Unique(entries), Len(entries) < MaxMemory,
             memory' = [memory EXCEPT ![r] = With(entries, Entry(c))]
      PROVE  MemoryInv'
    <2> DEFINE new == With(entries, Entry(c))
    <2>1. new \in Seq(Entries) /\ Unique(new) /\ Len(new) \in 0..(Len(entries) + 1) /\ Len(entries) \in Nat
        BY <1>1, <1>3, WithKeeps
    <2>2. Len(new) <= MaxMemory
        BY <1>2, <1>3, <2>1
    <2> HIDE DEF new
    <2>3. memory' = [memory EXCEPT ![r] = new]
        BY <1>3 DEF new
    <2> QED BY <1>0, <1>2, <2>1, <2>2, <2>3 DEF PlanInv, MemoryInv
<1>4. CASE Remember(c)
    <2>1. SetTo(c, "done", client[c].plan)
        BY <1>0, <1>4, StepMoves DEF PlanSteps, Remember
    <2>2. MemoryInv'
        <3>1. CASE Len(memory[r]) < MaxMemory
            <4>1. memory' = [memory EXCEPT ![r] = With(memory[r], Entry(c))]
                BY <1>4, <3>1 DEF Remember, Mine
            <4> QED BY <1>2, <1>3, <3>1, <4>1
        <3>2. CASE ~(Len(memory[r]) < MaxMemory)
            <4>1. memory' = memory
                BY <1>4, <3>2 DEF Remember, Mine
            <4> QED BY <4>1 DEF PlanInv, MemoryInv
        <3> QED BY <3>1, <3>2
    <2>3. Sound(c)'
        BY <1>0, <2>1 DEF Sound, SetTo, WithRefiner, Planning, Keeping, KeyOf
    <2>4. ClientType' /\ ClientInv'
        BY <1>0, <2>1, <2>3, OthersStay DEF SetTo
    <2> QED BY <1>0, <2>2, <2>4 DEF PlanInv, RefinerInv, ModelInv, DiskInv
<1>5. CASE Store(c)
    <2>1. SetTo(c, "save", client[c].plan)
        BY <1>0, <1>5, StepMoves DEF PlanSteps, Store
    <2>2. MemoryInv'
        <3> DEFINE room == IF Len(memory[r]) >= MaxMemory THEN Tail(memory[r]) ELSE memory[r]
        <3>1. memory' = [memory EXCEPT ![r] = With(room, Entry(c))]
            BY <1>5 DEF Store, Mine
        <3>2. room \in Seq(Entries) /\ Unique(room) /\ Len(room) < MaxMemory
            <4>1. CASE Len(memory[r]) >= MaxMemory
                <5>1. memory[r] # <<>> /\ room = Tail(memory[r])
                    BY <1>2, <4>1
                <5>2. Tail(memory[r]) \in Seq(Entries) /\ Unique(Tail(memory[r])) /\ Len(Tail(memory[r])) = Len(memory[r]) - 1
                    BY <1>2, <5>1, TailKeeps
                <5> QED BY <1>2, <5>1, <5>2
            <4>2. CASE ~(Len(memory[r]) >= MaxMemory)
                BY <1>2, <4>2
            <4> QED BY <4>1, <4>2
        <3> HIDE DEF room
        <3> QED BY <1>3, <3>1, <3>2
    <2>3. Sound(c)'
        BY <1>0, <2>1 DEF Sound, SetTo, WithRefiner, Planning, Keeping, KeyOf
    <2>4. ClientType' /\ ClientInv'
        BY <1>0, <2>1, <2>3, OthersStay DEF SetTo
    <2> QED BY <1>0, <2>2, <2>4 DEF PlanInv, RefinerInv, ModelInv, DiskInv
<1> QED BY <1>4, <1>5

LEMMA PlanSaves ==
    ASSUME PlanInv, NEW c \in Clients, Save(c)
    PROVE  PlanInv'
<1>0. ClientType /\ Sound(c) /\ client[c].step = "save" /\ Fits(KeyOf(c), client[c].plan)
      /\ client[c].query \in Asked /\ client[c].task \in Tasks
      /\ UNCHANGED <<workload, refiner, made, memory, model>>
    BY DEF PlanInv, ClientInv, Save, At, Sound, Keeping
<1>1. SetTo(c, "done", client[c].plan)
    BY <1>0, StepMoves DEF PlanSteps, Save
<1>2. DiskInv'
    <2>1. CASE disk' = disk
        BY <2>1 DEF PlanInv, DiskInv
    <2>2. CASE disk' = [k \in DOMAIN disk \cup {KeyOf(c)} |-> IF k = KeyOf(c) THEN client[c].plan ELSE disk[k]]
        BY <1>0, <2>2 DEF PlanInv, DiskInv
    <2> QED BY <2>1, <2>2 DEF Save
<1>3. Sound(c)'
    BY <1>0, <1>1 DEF Sound, SetTo, WithRefiner, Planning, Keeping, KeyOf
<1>4. ClientType' /\ ClientInv'
    BY <1>0, <1>1, <1>3, OthersStay DEF SetTo
<1> QED BY <1>0, <1>2, <1>4 DEF PlanInv, RefinerInv, MemoryInv, ModelInv

\* The lock is free: nobody loads.
LEMMA PlanLocks ==
    ASSUME PlanInv, NEW c \in Clients, LockModel(c)
    PROVE  PlanInv'
<1>0. /\ ClientType /\ Sound(c) /\ client[c].step = "lock" /\ client[c].mine \in Refiners
      /\ client[c].query \in Asked /\ client[c].task \in Tasks
      /\ client[c].plan = PlanOf[client[c].query][client[c].task]
      /\ UNCHANGED <<workload, refiner, made, memory, disk>>
      /\ model \in [Refiners -> Models] /\ model[client[c].mine].holder = None
    BY DEF PlanInv, ClientInv, LockModel, At, Sound, WithRefiner, Planning, ModelInv, Model, Mine
<1> DEFINE r == client[c].mine
<1>1. CASE model[r].loaded
    <2>1. SetTo(c, "generate", client[c].plan) /\ model' = model
        BY <1>0, <1>1, StepMoves DEF PlanSteps, LockModel, Model, Mine
    <2>2. Sound(c)'
        BY <1>0, <2>1 DEF Sound, SetTo, WithRefiner, Planning, Keeping
    <2> QED BY <1>0, <2>1, <2>2, ClientOnly DEF SetTo
<1>2. CASE ~model[r].loaded
    <2>1. SetTo(c, "load", client[c].plan) /\ model' = [model EXCEPT ![r].holder = c]
        BY <1>0, <1>2, StepMoves DEF PlanSteps, LockModel, Model, Mine
    <2> DEFINE v == [model[r] EXCEPT !.holder = c]
    <2>2. v \in Models /\ v.holder = c /\ v.loaded = FALSE /\ v.loads = model[r].loads
        BY <1>0, <1>2 DEF Models
    <2>3. model' = [model EXCEPT ![r] = v]
        BY <2>1
    <2> HIDE DEF v
    <2>4. model' \in [Refiners -> Models] /\ model'[r] = v /\ \A s \in Refiners \ {r} : model'[s] = model[s]
        BY <1>0, <2>2, <2>3
    <2>5. model[r].loaded = FALSE
        BY <1>0, <1>2 DEF Models
    <2>6. ModelInv'
        BY <2>2, <2>4, <2>5 DEF PlanInv, ModelInv
    <2>7. Sound(c)'
        BY <1>0, <2>1, <2>2, <2>4 DEF Sound, SetTo, WithRefiner, Planning, Keeping
    <2>8. \A s \in Refiners, d \in Clients \ {c} :
              model[s].holder = d /\ model[s].loaded = FALSE => model'[s].holder = d /\ model'[s].loaded = FALSE
        BY <1>0, <2>4, PlanAssumption
    <2>9. ClientType' /\ ClientInv'
        BY <1>0, <2>1, <2>7, <2>8, OthersStay DEF SetTo
    <2> QED BY <1>0, <2>6, <2>9 DEF PlanInv, RefinerInv, MemoryInv, DiskInv
<1> QED BY <1>1, <1>2

LEMMA ModelFields ==
    ASSUME NEW m \in Models, m.loads = 0
    PROVE  /\ Loaded(m) \in Models /\ Loaded(m).loads <= 1 /\ Loaded(m).loaded = TRUE
           /\ GivenUp(m) \in Models /\ GivenUp(m).loads = 0 /\ GivenUp(m).loads <= 1
<1>1. m.loads + 1 = 1 /\ 1 \in Nat
    OBVIOUS
<1>2. [m EXCEPT !.loaded = TRUE, !.holder = None, !.loads = 1] \in Models
    BY DEF Models
<1>3. [m EXCEPT !.loaded = TRUE, !.holder = None, !.loads = 1].loads = 1
      /\ [m EXCEPT !.loaded = TRUE, !.holder = None, !.loads = 1].loaded = TRUE
    BY DEF Models
<1>4. Loaded(m) = [m EXCEPT !.loaded = TRUE, !.holder = None, !.loads = 1]
    BY <1>1 DEF Loaded
<1>5. GivenUp(m) \in Models /\ GivenUp(m).loads = 0
    BY DEF Models, GivenUp
<1> QED BY <1>2, <1>3, <1>4, <1>5

\* Whoever loads holds the lock alone.
LEMMA ModelIsLetGo ==
    ASSUME PlanInv, NEW c \in Clients, client[c].step = "load",
           NEW v \in Models, NEW step \in {"generate", "store"},
           model' = [model EXCEPT ![client[c].mine] = v], Step(c, step),
           v.loads <= 1, v.loaded = FALSE => v.loads = 0,
           UNCHANGED <<workload, refiner, made, memory, disk>>
    PROVE  PlanInv'
<1>0. /\ ClientType /\ Sound(c) /\ client[c].mine \in Refiners
      /\ client[c].query \in Asked /\ client[c].task \in Tasks
      /\ client[c].plan = PlanOf[client[c].query][client[c].task]
      /\ model \in [Refiners -> Models] /\ model[client[c].mine].holder = c
    BY DEF PlanInv, ClientInv, Sound, WithRefiner, Planning, ModelInv
<1> DEFINE r == client[c].mine
<1>2. SetTo(c, step, client[c].plan)
    BY <1>0, StepMoves DEF PlanSteps
<1>3. model' \in [Refiners -> Models] /\ model'[r] = v /\ \A s \in Refiners \ {r} : model'[s] = model[s]
    BY <1>0
<1>4. ModelInv'
    BY <1>3 DEF PlanInv, ModelInv
<1>5. Fits(KeyOf(c), client[c].plan)
    BY <1>0, PlanQueries DEF KeyOf
<1>6. Sound(c)'
    BY <1>0, <1>2, <1>5 DEF Sound, SetTo, WithRefiner, Planning, Keeping, KeyOf
<1>7. \A s \in Refiners, d \in Clients \ {c} :
          model[s].holder = d /\ model[s].loaded = FALSE => model'[s].holder = d /\ model'[s].loaded = FALSE
    BY <1>0, <1>3
<1>8. ClientType' /\ ClientInv'
    BY <1>2, <1>6, <1>7, OthersStay DEF SetTo
<1> QED BY <1>4, <1>8 DEF PlanInv, RefinerInv, MemoryInv, DiskInv

LEMMA PlanLoads ==
    ASSUME PlanInv, NEW c \in Clients, LoadModel(c)
    PROVE  PlanInv'
<1>1. client[c].step = "load" /\ UNCHANGED <<workload, refiner, made, memory, disk>>
    BY DEF LoadModel, At
<1> DEFINE m == model[client[c].mine]
<1>2. m \in Models /\ m.loads = 0
    BY <1>1 DEF PlanInv, ModelInv, ClientInv, Sound, WithRefiner, Planning
<1>3. CASE model' = [model EXCEPT ![client[c].mine] = Loaded(m)] /\ Step(c, "generate")
    <2>1. Loaded(m) \in Models /\ Loaded(m).loads <= 1 /\ (Loaded(m).loaded = FALSE => Loaded(m).loads = 0)
        BY <1>2, ModelFields
    <2> QED BY <1>1, <1>3, <2>1, ModelIsLetGo
<1>4. CASE model' = [model EXCEPT ![client[c].mine] = GivenUp(m)] /\ Step(c, "store")
    <2>1. GivenUp(m) \in Models /\ GivenUp(m).loads = 0 /\ GivenUp(m).loads <= 1
        BY <1>2, ModelFields
    <2>2. GivenUp(m).loaded = FALSE => GivenUp(m).loads = 0
        BY <2>1
    <2> QED BY <1>1, <1>4, <2>1, <2>2, ModelIsLetGo
<1>5. \/ model' = [model EXCEPT ![client[c].mine] = Loaded(m)] /\ Step(c, "generate")
      \/ model' = [model EXCEPT ![client[c].mine] = GivenUp(m)] /\ Step(c, "store")
    BY DEF LoadModel, Mine
<1> QED BY <1>3, <1>4, <1>5

LEMMA PlanRestarts ==
    ASSUME PlanInv, RestartPlans
    PROVE  PlanInv'
<1>1. Idle \in ClientRecords /\ Idle.step = "idle"
    BY DEF Idle, ClientRecords, PlanSteps, EventLists
<1>2. client' = [c \in Clients |-> Idle] /\ refiner' = None /\ UNCHANGED <<workload, made, memory, model, disk>>
    BY DEF RestartPlans
<1>3. ClientType' /\ ClientInv'
    BY <1>1, <1>2 DEF ClientType, ClientInv, Sound, WithRefiner, Planning, Keeping
<1> QED BY <1>2, <1>3 DEF PlanInv, RefinerInv, MemoryInv, ModelInv, DiskInv

LEMMA PlanInvNext == PlanInv /\ [PlanNext]_planVars => PlanInv'
<1> SUFFICES ASSUME PlanInv, [PlanNext]_planVars PROVE PlanInv'
    OBVIOUS
<1>1. CASE UNCHANGED planVars
    BY <1>1 DEF planVars, PlanInv, RefinerInv, MemoryInv, ModelInv, DiskInv, ClientType, ClientInv, Sound, KeyOf
<1>2. ASSUME NEW c \in Clients, Search(c) \/ ClientStep(c) PROVE PlanInv'
    BY <1>2, PlanSearch, PlanLooks, PlanMakes, PlanTakes, PlanFinds, PlanKeeps, PlanSaves, PlanLocks, PlanLoads
       DEF ClientStep
<1> QED BY <1>1, <1>2, PlanRestarts DEF PlanNext

\* Without its copulas at the end.
LEMMA TrimmedIsSeq ==
    ASSUME NEW S, NEW q \in Seq(S)
    PROVE  TrimCopulas(q) \in Seq(S)
<1> DEFINE said == {i \in DOMAIN q : ~Is(q[i], "copula")}
           last == CHOOSE i \in DOMAIN q : ~Is(q[i], "copula") /\ \A j \in (i + 1)..Len(q) : Is(q[j], "copula")
           n == IF \A i \in DOMAIN q : Is(q[i], "copula") THEN 0 ELSE last
<1>1. DOMAIN q = 1..Len(q) /\ Len(q) \in Nat
    OBVIOUS
<1>2. n \in 0..Len(q)
    <2>1. CASE said = {}
        BY <1>1, <2>1
    <2>2. CASE said # {}
        <3>1. said \in SUBSET Nat /\ \A m \in said : m <= Len(q)
            BY <1>1
        <3> DEFINE i == Max(said)
        <3>2. i \in said /\ \A m \in said : m <= i
            <4> HIDE DEF said
            <4> QED BY <1>1, <2>2, <3>1, MaxOfNumbers
        <3> HIDE DEF i
        <3>3. ASSUME NEW j \in (i + 1)..Len(q) PROVE Is(q[j], "copula")
            <4>1. j \in DOMAIN q /\ ~(j <= i)
                BY <1>1, <3>2
            <4> QED BY <3>2, <4>1
        <3>4. \E k \in DOMAIN q : ~Is(q[k], "copula") /\ \A j \in (k + 1)..Len(q) : Is(q[j], "copula")
            BY <3>2, <3>3
        <3>5. last \in DOMAIN q
            BY <3>4
        <3> QED BY <1>1, <2>2, <3>5
    <2> QED BY <2>1, <2>2
<1>3. TrimCopulas(q) = SubSeq(q, 1, n)
    BY DEF TrimCopulas
<1> HIDE DEF n
<1>4. \A i \in 1..n : q[i] \in S
    BY <1>1, <1>2
<1>5. n \in Int /\ 1 \in Int
    BY <1>1, <1>2
<1>6. SubSeq(q, 1, n) \in Seq(S)
    BY <1>4, <1>5, SubSeqProperties
<1> QED BY <1>3, <1>6

\* A question loses words and gets none.
LEMMA DecomposedIsSeq ==
    ASSUME NEW S, NEW q \in Seq(S)
    PROVE  Decompose(q) \in Seq(S)
<1> DEFINE IsName(i) == Is(q[i], "capital") /\ i < Len(q) /\ Is(q[i + 1], "capital")
           slots == {i \in DOMAIN q : Is(q[i], "unknown") \/ (Is(q[i], "wh") /\ ~IsName(i))}
           phrase == \E i \in slots : Is(q[i], "unknown")
           open == WordsAt(q, {i \in DOMAIN q \ slots : ~(phrase /\ Is(q[i], "doing"))})
           aux == IF open # <<>> /\ Is(Head(open), "auxiliary") THEN Tail(open) ELSE open
           rest == IF slots = {} THEN q ELSE TrimCopulas(aux)
<1>1. Decompose(q) = IF rest = <<>> THEN q ELSE rest
    BY DEF Decompose
<1>2. open \in Seq(S)
    BY SelectedWords
<1>3. aux \in Seq(S)
    <2> HIDE DEF open
    <2> QED BY <1>2, SetOfTail
<1>4. rest \in Seq(S)
    <2> HIDE DEF aux, slots
    <2> QED BY <1>3, TrimmedIsSeq
<1> HIDE DEF rest
<1> QED BY <1>1, <1>4

LEMMA AskedAreSeqs ==
    ASSUME NEW q \in Asked
    PROVE  \E S : q \in Seq(S)
<1>1. PICK w \in Workloads : q \in w.queries \cup {Decompose(p) : p \in w.queries}
    BY DEF Asked
<1>2. PICK p \in w.queries : q = p \/ q = Decompose(p)
    BY <1>1
<1>3. p \in Seq(ToSet(p))
    BY QueryAssumption
<1>4. Decompose(p) \in Seq(ToSet(p))
    BY <1>3, DecomposedIsSeq
<1> QED BY <1>2, <1>3, <1>4

KeepsWords(plan) == KeepsTexts(plan) /\ KeepsCaption(plan) /\ KeepsObjects(plan) /\ KeepsStages(plan)

LEMMA PlansKeepWords ==
    ASSUME NEW q \in Asked, NEW t \in Tasks
    PROVE  KeepsWords(PlanOf[q][t]) /\ \A r \in Responses : KeepsWords(RefinedPlan[q][t][r])
<1>1. PICK S : q \in Seq(S)
    BY AskedAreSeqs
<1>2. PlanOf[q][t] = Parse(q, t)
    BY DEF PlanOf
<1>3. KeepsWords(Parse(q, t))
    BY <1>1, ParserKeepsTheQuery DEF KeepsWords
<1>4. ASSUME NEW r \in Responses
      PROVE  KeepsWords(RefinedPlan[q][t][r])
    <2>1. RefinedPlan[q][t][r] = Refined(Parse(q, t), r)
        BY <1>2 DEF RefinedPlan
    <2> DEFINE R == ToSet(r.kept)
               T == S \cup R
    <2>2. r.kept \in Seq(R)
        BY QueryAssumption
    <2> HIDE DEF R
    <2>3. S \subseteq T /\ R \subseteq T
        OBVIOUS
    <2> HIDE DEF T
    <2>4. q \in Seq(T) /\ r.kept \in Seq(T)
        BY <1>1, <2>2, <2>3, SeqMonotonic
    <2>5. KeepsWords(Refined(Parse(q, t), r))
        BY <2>4, ModelKeepsTheQuery DEF KeepsWords
    <2> QED BY <2>1, <2>5
<1> QED BY <1>2, <1>3, <1>4

\* The plan of the same spelling, one event for one.
LEMMA PlansKeepEvents ==
    ASSUME NEW q \in Asked, NEW plan, NEW events \in EventsOf(q), NEW t \in Tasks,
           plan = PlanOf[plan.query][t] \/ \E r \in Responses : plan = RefinedPlan[plan.query][t][r],
           plan.query \in Asked
    PROVE  KeepsEvents(plan, q, events)
<1>1. PICK S : q \in Seq(S)
    BY AskedAreSeqs
<1>2. Len(EventQueries(events, plan)) = Len(events)
    <2> DEFINE V == Seq(S)
    <2>1. RawEvents(q) \in Seq(V) /\ <<q>> \in Seq(V)
        BY <1>1, RawEventsAre
    <2> HIDE DEF V
    <2>2. <<>> \in Seq(V)
        OBVIOUS
    <2>3. events \in Seq(V)
        BY <2>1, <2>2, Zenon DEF EventsOf
    <2> QED BY <2>3, AsManyEvents
<1>3. ASSUME plan.backend = "deterministic", plan.query = q, NEW k \in DOMAIN EventQueries(events, plan)
      PROVE  OrdinaryWords(EventQueries(events, plan)[k]) = OrdinaryWords(events[k])
    <2>1. plan = Parse(q, t)
        <3>1. ASSUME NEW r \in Responses, plan = RefinedPlan[q][t][r] PROVE FALSE
            <4>1. plan = Refined(Parse(q, t), r)
                BY <3>1 DEF RefinedPlan, PlanOf
            <4>2. Refined(Parse(q, t), r).backend = "local_llm"
                BY RefinedFields
            <4> QED BY <1>3, <4>1, <4>2
        <3>2. plan = PlanOf[q][t]
            BY <1>3, <3>1
        <3> QED BY <3>2 DEF PlanOf
    <2>2. events \in {<<>>, RawEvents(q), <<q>>}
        BY DEF EventsOf
    <2>3. k \in DOMAIN EventQueries(events, Parse(q, t))
        BY <2>1
    <2>4. OrdinaryWords(EventQueries(events, Parse(q, t))[k]) = OrdinaryWords(events[k])
        BY <1>1, <2>2, <2>3, ParserKeepsEvents
    <2> QED BY <2>1, <2>4
<1> QED BY <1>2, <1>3 DEF KeepsEvents

LEMMA PlanInvKeeps == PlanInv => PlanKeepsTheQuery
<1> SUFFICES ASSUME PlanInv, NEW c \in Clients, At(c, "done"), workload.backend # "off"
             PROVE  KeepsWords(client[c].plan) /\ KeepsEvents(client[c].plan, client[c].query, client[c].events)
    BY DEF PlanKeepsTheQuery, KeepsWords
<1> DEFINE plan == client[c].plan
           q == plan.query
           t == client[c].task
<1>1. /\ client[c].query \in Asked /\ t \in Tasks /\ client[c].events \in EventsOf(client[c].query)
      /\ Fits(KeyOf(c), plan)
    BY DEF PlanInv, ClientInv, Sound, At
<1>2. plan \in Plans /\ (plan = PlanOf[q][t] \/ \E r \in Responses : plan = RefinedPlan[q][t][r])
    BY <1>1 DEF Fits, KeyOf, Key
<1>3. q \in Asked
    <2>1. \E p \in Asked, u \in Tasks : plan = PlanOf[p][u] \/ \E r \in Responses : plan = RefinedPlan[p][u][r]
        BY <1>2 DEF Plans
    <2>2. PICK p \in Asked, u \in Tasks : plan = PlanOf[p][u] \/ \E r \in Responses : plan = RefinedPlan[p][u][r]
        BY <2>1
    <2>3. \A r \in Responses : RefinedPlan[p][u][r].query = p
        <3>1. \A r \in Responses : RefinedPlan[p][u][r] = Refined(Parse(p, u), r)
            BY DEF RefinedPlan, PlanOf
        <3>2. \A r \in Responses : Refined(Parse(p, u), r).query = p
            BY RefinedFields
        <3> QED BY <3>1, <3>2
    <2> QED BY <2>2, <2>3, PlanQueries
<1> HIDE DEF q, t
<1>4. KeepsWords(plan)
    BY <1>1, <1>2, <1>3, PlansKeepWords
<1>5. KeepsEvents(plan, client[c].query, client[c].events)
    BY <1>1, <1>2, <1>3, PlansKeepEvents DEF q
<1> QED BY <1>4, <1>5

LEMMA PlanInvIsSound == PlanInv => PlanCacheIsSound
<1> SUFFICES ASSUME PlanInv PROVE PlanCacheIsSound
    OBVIOUS
<1>1. ASSUME NEW r \in Refiners
      PROVE  /\ Len(memory[r]) <= MaxMemory /\ model[r].loads <= 1
             /\ \A i, j \in DOMAIN memory[r] : memory[r][i].key = memory[r][j].key => i = j
    BY DEF PlanInv, MemoryInv, ModelInv, Unique
<1>2. ASSUME NEW c \in Clients, At(c, "done")
      PROVE  /\ Texts(client[c].plan.query) = Texts(client[c].query)
             /\ \/ client[c].plan = Passthrough(client[c].query, client[c].task)
                \/ client[c].plan = PlanOf[client[c].plan.query][client[c].task]
                \/ \E r \in Responses : client[c].plan = RefinedPlan[client[c].plan.query][client[c].task][r]
    <2>1. Sound(c) /\ client[c].step = "done" /\ client[c].query \in Asked /\ client[c].task \in Tasks
        BY <1>2 DEF PlanInv, ClientInv, At, Sound
    <2>2. CASE client[c].plan = Passthrough(client[c].query, client[c].task)
        BY <2>1, <2>2, PlanQueries
    <2>3. CASE Fits(KeyOf(c), client[c].plan)
        BY <2>3 DEF Fits, KeyOf, Key
    <2> QED BY <2>1, <2>2, <2>3 DEF Sound
<1> QED BY <1>1, <1>2 DEF PlanCacheIsSound

-----------------------------------------------------------------------------
(* AdaptiveOcr *)

Attempts == [first : Readings \cup {"skipped"}, raised : BOOLEAN]
OcrTexts == [engine : {"primary", "fallback"}, reading : Readings]

OcrTypeOK ==
    /\ reader \in Readers
    /\ breaker \in [failures : Nat, tripped : BOOLEAN]
    /\ output \in Seq(OcrTexts) /\ attempts \in Seq(Attempts)

\* The count is that of the last images, as long as it counts.
CountInv ==
    breaker.tripped = FALSE =>
        /\ breaker.failures <= Len(attempts)
        /\ \A m \in (Len(attempts) - breaker.failures + 1)..Len(attempts) : attempts[m].raised = TRUE
        /\ \A m \in (Len(attempts) - breaker.failures + 2)..Len(attempts) : attempts[m].first = "raised"

\* The images that have tripped the breaker.
TrippedInv ==
    breaker.tripped = TRUE =>
        \E n \in DOMAIN attempts :
            /\ n >= reader.threshold
            /\ \A m \in (n - reader.threshold + 1)..n : attempts[m].raised = TRUE
            /\ \A m \in (n - reader.threshold + 2)..n : attempts[m].first = "raised"

\* The texts of the video are of the last images.
OutputInv ==
    /\ Len(output) <= Len(attempts)
    /\ \A i \in 1..Len(output) : output[i].engine = "fallback" =>
           attempts[Len(attempts) - Len(output) + i].first # "text"

OcrInv == OcrTypeOK /\ CountInv /\ TrippedInv /\ OutputInv

LEMMA OcrInvInit == OcrInit => OcrInv
    BY DEF OcrInit, OcrInv, OcrTypeOK, CountInv, TrippedInv, OutputInv

\* One more image.
OneMore(first, raised) ==
    /\ attempts' = Append(attempts, [first |-> first, raised |-> raised])
    /\ reader' = reader

LEMMA OutputStep ==
    ASSUME OcrTypeOK, OutputInv, NEW first \in Readings \cup {"skipped"}, NEW raised \in BOOLEAN,
           OneMore(first, raised),
           \/ output' = <<>>
           \/ \E text \in OcrTexts : output' = Append(output, text) /\ (first = "text" => text.engine # "fallback")
    PROVE  OutputInv' /\ output' \in Seq(OcrTexts) /\ attempts' \in Seq(Attempts)
<1>1. attempts' \in Seq(Attempts) /\ Len(attempts') = Len(attempts) + 1
      /\ attempts'[Len(attempts) + 1].first = first
      /\ \A m \in 1..Len(attempts) : attempts'[m] = attempts[m]
    BY DEF OcrTypeOK, OneMore, Attempts
<1>2. CASE output' = <<>>
    BY <1>1, <1>2 DEF OcrTypeOK, OutputInv
<1>3. ASSUME NEW text \in OcrTexts, output' = Append(output, text), first = "text" => text.engine # "fallback"
      PROVE  OutputInv' /\ output' \in Seq(OcrTexts)
    <2>1. output' \in Seq(OcrTexts) /\ Len(output') = Len(output) + 1 /\ output'[Len(output) + 1] = text
          /\ \A i \in 1..Len(output) : output'[i] = output[i]
        BY <1>3 DEF OcrTypeOK
    <2>2. ASSUME NEW i \in 1..Len(output'), output'[i].engine = "fallback"
          PROVE  attempts'[Len(attempts') - Len(output') + i].first # "text"
        <3>1. CASE i = Len(output) + 1
            BY <1>1, <1>3, <2>1, <2>2, <3>1 DEF OcrTypeOK
        <3>2. CASE i \in 1..Len(output)
            <4>1. Len(attempts') - Len(output') + i = Len(attempts) - Len(output) + i
                BY <1>1, <2>1, <3>2 DEF OcrTypeOK
            <4>2. Len(attempts) - Len(output) + i \in 1..Len(attempts)
                BY <3>2 DEF OcrTypeOK, OutputInv
            <4> QED BY <1>1, <2>1, <2>2, <3>2, <4>1, <4>2 DEF OutputInv
        <3> QED BY <2>1, <3>1, <3>2 DEF OcrTypeOK
    <2>3. Len(output') <= Len(attempts')
        BY <1>1, <2>1 DEF OcrTypeOK, OutputInv
    <2> QED BY <2>1, <2>2, <2>3 DEF OutputInv
<1> QED BY <1>1, <1>2, <1>3

\* What the images have earned stays theirs.
LEMMA TrippedStays ==
    ASSUME OcrTypeOK, TrippedInv, breaker.tripped = TRUE, NEW first, NEW raised, OneMore(first, raised)
    PROVE  TrippedInv'
<1>1. PICK n \in DOMAIN attempts :
            /\ n >= reader.threshold
            /\ \A m \in (n - reader.threshold + 1)..n : attempts[m].raised = TRUE
            /\ \A m \in (n - reader.threshold + 2)..n : attempts[m].first = "raised"
    BY DEF TrippedInv
<1>2. n \in 1..Len(attempts) /\ n \in DOMAIN attempts' /\ reader.threshold \in Nat /\ reader' = reader
      /\ \A m \in 1..Len(attempts) : attempts'[m] = attempts[m]
    BY ReaderAssumption DEF OcrTypeOK, OneMore
<1>3. \A m \in (n - reader.threshold + 1)..n : m \in 1..Len(attempts)
    BY <1>1, <1>2 DEF OcrTypeOK
<1>4. \A m \in (n - reader.threshold + 2)..n : m \in 1..Len(attempts)
    BY <1>1, <1>2 DEF OcrTypeOK
<1> QED BY <1>1, <1>2, <1>3, <1>4 DEF TrippedInv

LEMMA OcrInvTripped ==
    ASSUME OcrInv, NEW second \in Readings, ReadTripped(second)
    PROVE  OcrInv'
<1>1. breaker.tripped = TRUE /\ breaker' = breaker /\ OneMore("skipped", FALSE)
    BY DEF OcrInv, OcrTypeOK, ReadTripped, Tried, OneMore
<1>2. \/ output' = <<>>
      \/ \E text \in OcrTexts : output' = Append(output, text) /\ ("skipped" = "text" => text.engine # "fallback")
    BY DEF ReadTripped, RaiseOcr, Read, Text, OcrTexts
<1>3. OutputInv' /\ output' \in Seq(OcrTexts) /\ attempts' \in Seq(Attempts)
    BY <1>1, <1>2, OutputStep DEF OcrInv
<1>4. TrippedInv'
    BY <1>1, TrippedStays DEF OcrInv
<1> QED BY <1>1, <1>3, <1>4 DEF OcrInv, OcrTypeOK, CountInv, OneMore

LEMMA OcrInvPrimary ==
    ASSUME OcrInv, NEW first \in Readings, NEW second \in Readings, ReadPrimary(first, second)
    PROVE  OcrInv'
<1>1. breaker.tripped = FALSE /\ OneMore(first, FALSE) /\ breaker' = [failures |-> 0, tripped |-> FALSE]
    BY DEF OcrInv, OcrTypeOK, ReadPrimary, Succeed, Tried, OneMore
<1>2. \E text \in OcrTexts : output' = Append(output, text) /\ (first = "text" => text.engine # "fallback")
    BY DEF ReadPrimary, Preferred, Read, Text, OcrTexts
<1>3. OutputInv' /\ output' \in Seq(OcrTexts) /\ attempts' \in Seq(Attempts)
    BY <1>1, <1>2, OutputStep DEF OcrInv
<1>4. CountInv'
    BY <1>1, <1>3 DEF CountInv
<1> QED BY <1>1, <1>3, <1>4 DEF OcrInv, OcrTypeOK, TrippedInv, OneMore

\* One failure more: the count is still that of the last images, and so is what trips.
LEMMA OcrInvError ==
    ASSUME OcrInv, NEW first \in Readings, NEW second \in Readings, NEW again \in Readings,
           ReadAfterError(first, second, again)
    PROVE  OcrInv'
<1> DEFINE old == IF first = "raised" THEN breaker.failures ELSE 0
<1>1. /\ breaker.tripped = FALSE /\ OneMore(first, TRUE) /\ old \in Nat /\ reader \in Readers
      /\ breaker' = [failures |-> old + 1, tripped |-> (old + 1 >= reader.threshold)]
    BY DEF OcrInv, OcrTypeOK, ReadAfterError, FailAfter, Tried, OneMore
<1>2. \/ output' = <<>>
      \/ \E text \in OcrTexts : output' = Append(output, text) /\ (first = "text" => text.engine # "fallback")
    BY DEF ReadAfterError, AskedFor, RaiseOcr, Read, Text, OcrTexts
<1>3. OutputInv' /\ output' \in Seq(OcrTexts) /\ attempts' \in Seq(Attempts)
    BY <1>1, <1>2, OutputStep DEF OcrInv
<1>4. /\ Len(attempts) \in Nat /\ Len(attempts') = Len(attempts) + 1
      /\ attempts'[Len(attempts) + 1].raised = TRUE /\ attempts'[Len(attempts) + 1].first = first
      /\ \A m \in 1..Len(attempts) : attempts'[m] = attempts[m]
    BY <1>1 DEF OcrInv, OcrTypeOK, OneMore, Attempts
<1>5. /\ old <= Len(attempts)
      /\ \A m \in (Len(attempts) - old + 1)..Len(attempts) : attempts[m].raised = TRUE
      /\ \A m \in (Len(attempts) - old + 2)..Len(attempts) : attempts[m].first = "raised"
      /\ old > 0 => first = "raised"
    BY <1>1, <1>4 DEF OcrInv, OcrTypeOK, CountInv
<1> HIDE DEF old
<1>6. /\ old + 1 <= Len(attempts')
      /\ \A m \in (Len(attempts') - old)..Len(attempts') : attempts'[m].raised = TRUE
      /\ \A m \in (Len(attempts') - old + 1)..Len(attempts') : attempts'[m].first = "raised"
    <2>1. ASSUME NEW m \in (Len(attempts') - old)..Len(attempts')
          PROVE  attempts'[m].raised = TRUE
        <3>1. m = Len(attempts) + 1 \/ m \in (Len(attempts) - old + 1)..Len(attempts)
            BY <1>1, <1>4
        <3>2. (Len(attempts) - old + 1)..Len(attempts) \subseteq 1..Len(attempts)
            BY <1>1, <1>4, <1>5
        <3> QED BY <1>4, <1>5, <3>1, <3>2
    <2>2. ASSUME NEW m \in (Len(attempts') - old + 1)..Len(attempts')
          PROVE  attempts'[m].first = "raised"
        <3>1. (m = Len(attempts) + 1 /\ old > 0) \/ m \in (Len(attempts) - old + 2)..Len(attempts)
            BY <1>1, <1>4
        <3>2. (Len(attempts) - old + 2)..Len(attempts) \subseteq 1..Len(attempts)
            BY <1>1, <1>4, <1>5
        <3> QED BY <1>4, <1>5, <3>1, <3>2
    <2> QED BY <1>1, <1>4, <1>5, <2>1, <2>2
<1>7. CountInv'
    <2>1. breaker'.failures = old + 1 /\ Len(attempts') \in Nat
        BY <1>1, <1>4
    <2>2. Len(attempts') - (old + 1) + 1 = Len(attempts') - old /\ Len(attempts') - (old + 1) + 2 = Len(attempts') - old + 1
        BY <1>1, <2>1
    <2> QED BY <1>6, <2>1, <2>2 DEF CountInv
\* With a threshold of none, any image will do.
<1>8. TrippedInv'
    <2> SUFFICES ASSUME breaker'.tripped = TRUE
                 PROVE  /\ Len(attempts') \in DOMAIN attempts'
                        /\ Len(attempts') >= reader.threshold
                        /\ \A m \in (Len(attempts') - reader.threshold + 1)..Len(attempts') : attempts'[m].raised = TRUE
                        /\ \A m \in (Len(attempts') - reader.threshold + 2)..Len(attempts') : attempts'[m].first = "raised"
        BY <1>1 DEF TrippedInv, OneMore
    <2>1. reader.threshold \in Nat /\ old + 1 >= reader.threshold
        BY <1>1, ReaderAssumption
    <2>2. /\ (Len(attempts') - reader.threshold + 1)..Len(attempts') \subseteq (Len(attempts') - old)..Len(attempts')
          /\ (Len(attempts') - reader.threshold + 2)..Len(attempts') \subseteq (Len(attempts') - old + 1)..Len(attempts')
          /\ Len(attempts') >= reader.threshold
        BY <1>1, <1>4, <1>6, <2>1
    <2>3. Len(attempts') \in DOMAIN attempts'
        BY <1>3, <1>4
    <2> QED BY <1>6, <2>2, <2>3
<1> QED BY <1>1, <1>3, <1>7, <1>8 DEF OcrInv, OcrTypeOK, OneMore

LEMMA OcrInvNext == OcrInv /\ [OcrNext]_ocrVars => OcrInv'
<1> SUFFICES ASSUME OcrInv, [OcrNext]_ocrVars PROVE OcrInv'
    OBVIOUS
<1>1. CASE UNCHANGED ocrVars
    BY <1>1 DEF ocrVars, OcrInv, OcrTypeOK, CountInv, TrippedInv, OutputInv
<1>2. CASE NextVideo
    <2>1. output' = <<>> /\ UNCHANGED <<reader, breaker, attempts>> /\ attempts \in Seq(Attempts)
        BY <1>2 DEF NextVideo, OcrInv, OcrTypeOK
    <2>2. OutputInv'
        BY <2>1 DEF OutputInv
    <2> QED BY <2>1, <2>2 DEF OcrInv, OcrTypeOK, CountInv, TrippedInv
<1>3. ASSUME NEW first \in Readings, NEW second \in Readings, NEW again \in Readings,
             ReadTripped(second) \/ ReadPrimary(first, second) \/ ReadAfterError(first, second, again)
      PROVE  OcrInv'
    BY <1>3, OcrInvTripped, OcrInvPrimary, OcrInvError
<1> QED BY <1>1, <1>2, <1>3 DEF OcrNext

LEMMA OcrInvIsEarned == OcrInv => BreakerIsEarned
<1> SUFFICES ASSUME OcrInv PROVE BreakerIsEarned
    OBVIOUS
<1>1. breaker.tripped \in BOOLEAN /\ DOMAIN output = 1..Len(output)
    BY DEF OcrInv, OcrTypeOK
<1> QED BY <1>1 DEF OcrInv, TrippedInv, OutputInv, BreakerIsEarned

-----------------------------------------------------------------------------
(* DevServer.  A signal reaches leader and uvicorn together, so uvicorn    *)
(* runs on only if its leader went first; and main is past its page when   *)
(* it stops the backend, unless Ctrl+C has come outside of the loop.       *)

Stopping == {"stop", "wait for backend", "kill"}

\* The processes end together, unless the leader ended by itself.
GroupInv ==
    /\ main = "spawn" => group.leader = "none" /\ group.server = "none"
    /\ group.leader = "stopping" => group.server # "running"
    /\ group.leader = "ended" /\ missed = FALSE => group.server # "running"

\* The socket of the page is open from Bind to Close.
PageInv ==
    /\ main \in {"spawn", "bind"} => page.bound = FALSE
    /\ main \in Stopping /\ interrupts \subseteq {"poll"} => page.bound = FALSE

DevTypeOK ==
    /\ group \in [leader : {"none", "running", "stopping", "ended"}, server : {"none", "running", "stopping", "ended"}]
    /\ page \in [bound : BOOLEAN, loop : {"none", "created", "serving", "over"}, asked : BOOLEAN]
    /\ missed \in BOOLEAN

DevInv == DevTypeOK /\ GroupInv /\ PageInv /\ SupervisorCleansUp

DevSpec == DevInit /\ [][DevNext]_devVars

LEMMA DevInvInit == DevInit => DevInv
<1> SUFFICES ASSUME DevInit PROVE DevInv
    OBVIOUS
<1>1. DevTypeOK
    BY DEF DevInit, DevTypeOK
<1>2. GroupInv /\ PageInv /\ SupervisorCleansUp
    BY DEF DevInit, GroupInv, PageInv, Stopping, SupervisorCleansUp
<1> QED BY <1>1, <1>2 DEF DevInv

-----------------------------------------------------------------------------

LEMMA DevTypeStep == DevTypeOK /\ [DevNext]_devVars => DevTypeOK'
<1> SUFFICES ASSUME DevTypeOK, [DevNext]_devVars PROVE DevTypeOK'
    OBVIOUS
<1> USE DEF DevTypeOK
<1>1. CASE UNCHANGED devVars
    BY <1>1 DEF devVars
<1>2. CASE EndServer \/ EndLeader \/ Interrupt
    BY <1>2 DEF EndServer, EndLeader, Interrupt
<1>3. CASE Spawn \/ WaitForBackend \/ Kill
    <2>1. /\ page' = page /\ missed' = missed
          /\ \/ group' = group
             \/ group' = [leader |-> "running", server |-> "running"]
             \/ group' = [leader |-> "ended", server |-> "ended"]
        BY <1>3 DEF Spawn, WaitForBackend, Kill
    <2> QED BY <2>1
<1>7. CASE StopBackend
    <2>1. \/ group' = group
          \/ group' = [leader |-> "stopping", server |-> group.server]
          \/ group' = [leader |-> "stopping", server |-> "stopping"]
        BY <1>7 DEF StopBackend
    <2>2. page' = page /\ missed' = missed
        BY <1>7 DEF StopBackend
    <2> QED BY <2>1, <2>2
<1>4. CASE Bind \/ StartThread \/ Poll \/ AskToEnd \/ Close
    BY <1>4 DEF Bind, StartThread, Poll, AskToEnd, Close
<1>5. CASE BeginLoop \/ EndLoop
    BY <1>5 DEF BeginLoop, EndLoop
<1>6. ASSUME NEW b \in Browsers, AcceptCall(b) \/ Handle(b) PROVE DevTypeOK'
    BY <1>6 DEF AcceptCall, Handle, ReadBody, ConnectOrFail, FailBeforeHead, SendHead, SendBody, Truncate, Becomes
<1> QED BY <1>1, <1>2, <1>3, <1>4, <1>5, <1>6, <1>7 DEF DevNext, DevStep, MainStep

\* A step of the backend's processes never starts one.
LEMMA DevInvProcesses ==
    ASSUME DevInv, DevTypeOK', EndServer \/ EndLeader
    PROVE  DevInv'
<1>1. CASE EndServer
    BY <1>1 DEF EndServer, DevInv, DevTypeOK, GroupInv, PageInv, SupervisorCleansUp
<1>2. CASE EndLeader
    BY <1>2 DEF EndLeader, DevInv, DevTypeOK, GroupInv, PageInv, SupervisorCleansUp
<1> QED BY <1>1, <1>2

\* main, while it serves the page.
LEMMA DevInvServes ==
    ASSUME DevInv, DevTypeOK', Bind \/ StartThread \/ Poll \/ AskToEnd \/ Close
    PROVE  DevInv'
<1>1. CASE Bind \/ StartThread
    BY <1>1 DEF Bind, StartThread, Main, DevInv, DevTypeOK, GroupInv, PageInv, Stopping, SupervisorCleansUp
<1>2. CASE Poll \/ AskToEnd \/ Close
    BY <1>2 DEF Poll, AskToEnd, Close, Main, DevInv, DevTypeOK, GroupInv, PageInv, Stopping, SupervisorCleansUp
<1> QED BY <1>1, <1>2

\* main, when it starts or stops the backend.
LEMMA DevInvStops ==
    ASSUME DevInv, DevTypeOK', Spawn \/ StopBackend \/ WaitForBackend \/ Kill
    PROVE  DevInv'
<1>0. UNCHANGED <<interrupts, page, missed>>
    BY DEF Spawn, StopBackend, WaitForBackend, Kill
<1>1. CASE Spawn
    <2>1. /\ main = "spawn" /\ page.bound = FALSE
          /\ \/ main' = "ended" /\ group' = group /\ group.server = "none" /\ group.leader = "none"
             \/ main' = "bind" /\ group'.leader = "running"
        BY <1>1 DEF Spawn, Main, EndMain, DevInv, GroupInv, PageInv
    <2> QED BY <1>0, <2>1 DEF DevInv, DevTypeOK, GroupInv, PageInv, Stopping, SupervisorCleansUp
<1>2. CASE StopBackend
    <2>1. /\ main = "stop"
          /\ \/ main' = "ended" /\ group' = group /\ group.leader = "ended"
             \/ main' = "wait for backend" /\ group'.leader = "stopping" /\ group'.server # "running"
        <3>1. CASE group.leader = "ended"
            BY <1>2, <3>1 DEF StopBackend, EndMain, Main
        <3>2. CASE group.leader # "ended"
            <4>1. main = "stop" /\ main' = "wait for backend"
                BY <1>2, <3>2 DEF StopBackend, Main
            <4>2. group' = [leader |-> "stopping",
                            server |-> IF group.server = "running" THEN "stopping" ELSE group.server]
                BY <1>2, <3>2 DEF StopBackend
            <4> QED BY <4>1, <4>2
        <3> QED BY <3>1, <3>2
    <2>2. missed \in BOOLEAN
        BY DEF DevInv, DevTypeOK
    <2>3. GroupInv' /\ PageInv'
        BY <1>0, <2>1 DEF DevInv, GroupInv, PageInv, Stopping
    <2>4. SupervisorCleansUp'
        BY <1>0, <2>1, <2>2 DEF DevInv, GroupInv, PageInv, Stopping, SupervisorCleansUp
    <2> QED BY <2>3, <2>4 DEF DevInv
<1>3. CASE WaitForBackend
    <2>1. /\ main = "wait for backend" /\ group' = group
          /\ \/ main' = "ended" /\ group.leader = "ended"
             \/ main' = "kill"
        BY <1>3 DEF WaitForBackend, Main, EndMain
    <2>2. GroupInv' /\ PageInv'
        BY <1>0, <2>1 DEF DevInv, GroupInv, PageInv, Stopping
    <2>3. SupervisorCleansUp'
        BY <1>0, <2>1 DEF DevInv, DevTypeOK, GroupInv, PageInv, Stopping, SupervisorCleansUp
    <2> QED BY <2>2, <2>3 DEF DevInv
<1>4. CASE Kill
    <2>1. main = "kill" /\ main' = "ended" /\ group'.leader = "ended" /\ group'.server = "ended"
        BY <1>4 DEF Kill, Main, EndMain
    <2>2. GroupInv'
        BY <2>1 DEF GroupInv
    <2>3. PageInv'
        BY <2>1 DEF PageInv, Stopping
    <2>4. SupervisorCleansUp'
        BY <1>0, <2>1 DEF DevInv, PageInv, Stopping, SupervisorCleansUp
    <2> QED BY <2>2, <2>3, <2>4 DEF DevInv
<1> QED BY <1>1, <1>2, <1>3, <1>4

\* A Ctrl+C that ends main at once has not come while main polled.
LEMMA DevInvInterrupt ==
    ASSUME DevInv, DevTypeOK', Interrupt
    PROVE  DevInv'
<1>1. interrupts' = interrupts \cup {main} /\ UNCHANGED <<page, group, missed>> /\ main' # "spawn"
    BY DEF Interrupt, Main, EndMain
<1>2. interrupts' \subseteq {"poll"} => main = "poll" /\ main' = "shutdown"
    BY <1>1 DEF Interrupt, Main
<1>3. main' # "bind"
    BY DEF Interrupt, Main, EndMain
<1> QED BY <1>1, <1>2, <1>3 DEF DevInv, GroupInv, PageInv, Stopping, SupervisorCleansUp

\* The page's thread and its requests leave socket and processes alone.
LEMMA DevInvPage ==
    ASSUME DevInv, DevTypeOK', UNCHANGED <<main, interrupts, group, missed, page.bound>>
    PROVE  DevInv'
    BY DEF DevInv, GroupInv, PageInv, SupervisorCleansUp

LEMMA DevInvNext == DevInv /\ [DevNext]_devVars => DevInv'
<1> SUFFICES ASSUME DevInv, [DevNext]_devVars PROVE DevInv'
    OBVIOUS
<1>0. DevTypeOK'
    BY DevTypeStep DEF DevInv
<1>1. CASE UNCHANGED devVars
    BY <1>0, <1>1, DevInvPage DEF devVars
<1>2. CASE EndServer \/ EndLeader \/ Interrupt \/ MainStep
    BY <1>0, <1>2, DevInvProcesses, DevInvServes, DevInvStops, DevInvInterrupt DEF MainStep
<1>3. CASE BeginLoop \/ EndLoop
    <2>1. UNCHANGED <<main, interrupts, group, missed, page.bound>>
        BY <1>3 DEF BeginLoop, EndLoop, DevInv, DevTypeOK
    <2> QED BY <1>0, <2>1, DevInvPage
<1>4. ASSUME NEW b \in Browsers, AcceptCall(b) \/ Handle(b) PROVE DevInv'
    <2>1. UNCHANGED <<main, interrupts, group, missed, page>>
        BY <1>4 DEF AcceptCall, Handle, ReadBody, ConnectOrFail, FailBeforeHead, SendHead, SendBody, Truncate, Becomes
    <2> QED BY <1>0, <2>1, DevInvPage
<1> QED BY <1>1, <1>2, <1>3, <1>4 DEF DevNext, DevStep

\* However often Ctrl+C is pressed and however the processes end: when main is over, it has
\* left its socket closed and no uvicorn untold, as SupervisorCleansUp says.
THEOREM CleansUp == DevSpec => []SupervisorCleansUp
<1>1. DevInv => SupervisorCleansUp
    BY DEF DevInv
<1> QED BY <1>1, DevInvInit, DevInvNext, PTL DEF DevSpec

-----------------------------------------------------------------------------
(* DevicePolicy.  A component stays as it was made.                         *)

Raw(device) == device = Unset \/ device \in DeviceNames

DeviceInv ==
    /\ site \in Sites
    /\ DOMAIN hosted = Components
    /\ \A c \in Components : Made(c) => hosted[c] = HostOf(c)
    /\ Made("search_encoder") => Made("search")

\* What a component uses depends on the site alone.
LEMMA HostsStay ==
    ASSUME UNCHANGED site
    PROVE  \A c \in Components : HostOf(c)' = HostOf(c)
    BY DEF HostOf, OcrHost, Host, HostReader, ResolveDevice, IngestRequest, EncoderRequest, OcrRequest,
        AsrRequest, VisualRequest, DeviceRequest, Variable, Option

LEMMA DeviceInvMake ==
    ASSUME DeviceInv, NEW c \in Components, Make(c)
    PROVE  DeviceInv'
<1>1. UNCHANGED site /\ hosted' = [hosted EXCEPT ![c] = HostOf(c)]
    BY DEF Make
<1>2. \A d \in Components : HostOf(d)' = HostOf(d)
    BY <1>1, HostsStay
<1> QED BY <1>1, <1>2 DEF DeviceInv, Made, Make

\* A request is for a device, if all that is given is.
LEMMA RequestIsDevice ==
    ASSUME site \in Sites, NEW option, Raw(option), NEW compatible, Raw(compatible), NEW component, Raw(component)
    PROVE  DeviceRequest(option, compatible, component) \in DeviceNames
<1>1. Raw(Variable("COMPUTE_DEVICE")) /\ AnyDevice \in DeviceNames
    BY SiteAssumption DEF Raw, Variable, VariableNames, AnyDevice, Device, DeviceNames
<1> QED BY <1>1 DEF DeviceRequest, Or, Raw

\* resolve_device gives what was asked for, or raises; only "auto" is free.
LEMMA ResolvedAsAsked ==
    ASSUME site \in Sites, NEW backend \in {"torch", "ctranslate2", "paddle", "cpu"}, NEW asked \in DeviceNames
    PROVE  LET device == ResolveDevice(backend, asked)
               gpus == site.runtimes[backend].gpus
           IN  /\ gpus \in Nat
               /\ OnGpu(device) => device.index \in Nat /\ device.index < gpus
               /\ ~Raises(device) =>
                      /\ asked = Cpu => device = Cpu
                      /\ OnGpu(asked) => device = asked
                      /\ asked = AnyDevice /\ gpus > 0 => OnGpu(device)
<1>1. site.runtimes[backend].gpus \in Nat
    BY SiteAssumption
<1>2. asked.index \in Nat
    BY DEF DeviceNames
<1>3. CASE asked = AnyDevice
    BY <1>1, <1>3 DEF ResolveDevice, AnyDevice, Cpu, Cuda, Device, OnGpu, Raises
<1>4. CASE asked = Cpu
    BY <1>1, <1>4 DEF ResolveDevice, AnyDevice, Cpu, Cuda, Device, OnGpu, Raises, Unavailable
<1>5. CASE OnGpu(asked)
    BY <1>1, <1>2, <1>5 DEF ResolveDevice, AnyDevice, Cpu, Cuda, Device, OnGpu, Raises, Unavailable
<1>6. CASE asked # AnyDevice /\ asked # Cpu /\ ~OnGpu(asked)
    BY <1>1, <1>6 DEF ResolveDevice, OnGpu, Raises, Malformed, Device
<1> QED BY <1>3, <1>4, <1>5, <1>6

\* What Honoured says of a host, `first` for text recognition.
HonouredHost(host, first) ==
    LET gpus == site.runtimes[host.backend].gpus
    IN  ~Raises(host.device) =>
            /\ host.runs = IF first /\ OnGpu(host.device) THEN Cuda(0) ELSE host.device
            /\ OnGpu(host.device) => host.device.index < gpus
            /\ host.asked = Cpu => host.device = Cpu
            /\ OnGpu(host.asked) => host.device = host.asked
            /\ host.asked = AnyDevice /\ gpus > 0 => OnGpu(host.device)

LEMMA HostHonours ==
    ASSUME site \in Sites, NEW backend \in {"torch", "ctranslate2", "paddle", "cpu"}, NEW asked \in DeviceNames
    PROVE  /\ HonouredHost(Host(backend, asked), FALSE)
           /\ HonouredHost(HostReader(backend, asked), TRUE)
           /\ asked = Cpu => HonouredHost(Host(backend, asked), TRUE)
<1> DEFINE device == ResolveDevice(backend, asked)
<1>1. Host(backend, asked) = [backend |-> backend, asked |-> asked, device |-> device, runs |-> device]
    BY DEF Host
<1>2. HostReader(backend, asked) = [backend |-> backend, asked |-> asked, device |-> device,
                                    runs |-> IF OnGpu(device) THEN Cuda(0) ELSE device]
    BY <1>1 DEF HostReader
<1>3. ~OnGpu(Cpu)
    BY DEF OnGpu, Cpu, Device
<1> HIDE DEF device
<1>4. /\ site.runtimes[backend].gpus \in Nat
      /\ OnGpu(device) => device.index \in Nat /\ device.index < site.runtimes[backend].gpus
      /\ ~Raises(device) =>
            /\ asked = Cpu => device = Cpu
            /\ OnGpu(asked) => device = asked
            /\ asked = AnyDevice /\ site.runtimes[backend].gpus > 0 => OnGpu(device)
    BY ResolvedAsAsked DEF device
<1>5. HonouredHost(Host(backend, asked), FALSE)
    BY <1>1, <1>4 DEF HonouredHost
<1>6. HonouredHost(HostReader(backend, asked), TRUE)
    BY <1>2, <1>4 DEF HonouredHost
<1>7. asked = Cpu => HonouredHost(Host(backend, asked), TRUE)
    BY <1>1, <1>3, <1>4 DEF HonouredHost
<1> QED BY <1>5, <1>6, <1>7

\* What the components ask for.
LEMMA RequestsAreDevices ==
    ASSUME site \in Sites
    PROVE  /\ {VisualRequest, EncoderRequest, IngestRequest} \subseteq DeviceNames
           /\ AsrRequest(Or(Option("asr_device"), Option("device"))) \in DeviceNames
           /\ OcrRequest(Option("ocr_device")) \in DeviceNames
           /\ DeviceRequest(Unset, Unset, Variable("LLM_DEVICE")) \in DeviceNames
           /\ Or(Option("ocr_device"), Cuda(0)) \in DeviceNames
           /\ Cpu \in DeviceNames /\ Raw(Option("ocr_device"))
<1>1. Raw(Unset) /\ \A v \in VariableNames : Raw(Variable(v))
    BY SiteAssumption DEF Raw, Variable
<1>2. Raw(Option("asr_device")) /\ Raw(Option("device")) /\ Raw(Option("ocr_device"))
    BY SiteAssumption DEF Raw, Option
<1>3. AnyDevice \in DeviceNames /\ Cuda(0) \in DeviceNames /\ Cpu \in DeviceNames
    BY DEF AnyDevice, Cuda, Cpu, Device, DeviceNames
<1>4. Raw(Or(Option("asr_device"), Option("device")))
    BY <1>2 DEF Or
<1>5. {"COMPUTE_DEVICE", "VISUAL_DEVICE", "SEARCH_MODEL_DEVICE", "VIDEO_INGEST_DEVICE", "LLM_DEVICE", "ASR_DEVICE", "OCR_DEVICE"} \subseteq VariableNames
    BY DEF VariableNames
<1>6. VisualRequest \in DeviceNames
    BY <1>1, <1>5, RequestIsDevice DEF VisualRequest
<1>7. EncoderRequest \in DeviceNames
    BY <1>1, <1>5, <1>6, RequestIsDevice DEF EncoderRequest, Raw
<1>8. IngestRequest \in DeviceNames
    BY <1>1, <1>2, <1>3, <1>5 DEF IngestRequest, Or, Raw
<1>9. AsrRequest(Or(Option("asr_device"), Option("device"))) \in DeviceNames /\ OcrRequest(Option("ocr_device")) \in DeviceNames
      /\ DeviceRequest(Unset, Unset, Variable("LLM_DEVICE")) \in DeviceNames
    BY <1>1, <1>2, <1>4, <1>5, RequestIsDevice DEF AsrRequest, OcrRequest
<1>10. Or(Option("ocr_device"), Cuda(0)) \in DeviceNames
    BY <1>2, <1>3 DEF Or, Raw
<1> QED BY <1>2, <1>3, <1>6, <1>7, <1>8, <1>9, <1>10

LEMMA ComponentHonours ==
    ASSUME DeviceInv, NEW c \in Components, Made(c)
    PROVE  Honoured(c)
<1>1. site \in Sites /\ hosted[c] = HostOf(c)
    BY DEF DeviceInv
<1>2. HonouredHost(OcrHost, TRUE)
    <2> DEFINE option == Option("ocr_device")
               refused == [Host("cpu", option) EXCEPT !.device = Unavailable, !.runs = Unavailable]
    <2>1. HonouredHost(HostReader("paddle", Or(option, Cuda(0))), TRUE) /\ HonouredHost(HostReader("paddle", OcrRequest(option)), TRUE)
          /\ HonouredHost(HostReader("torch", OcrRequest(option)), TRUE) /\ HonouredHost(Host("cpu", Cpu), TRUE)
        BY <1>1, RequestsAreDevices, HostHonours
    <2>2. refused.device = Unavailable
        BY DEF Host
    <2>3. HonouredHost(refused, TRUE)
        BY <2>2 DEF HonouredHost, Raises
    <2>4. OcrHost \in {HostReader("paddle", Or(option, Cuda(0))), HostReader("paddle", OcrRequest(option)),
                       HostReader("torch", OcrRequest(option)), refused, Host("cpu", Cpu)}
        <3> HIDE DEF option, refused
        <3> QED BY DEF OcrHost, option, refused
    <2> HIDE DEF option, refused
    <2> QED BY <2>1, <2>3, <2>4
<1>3. HonouredHost(HostOf(c), c = "ocr")
    <2>1. CASE c = "ocr"
        <3>1. HostOf(c) = OcrHost
            BY <2>1 DEF HostOf
        <3> QED BY <1>2, <2>1, <3>1
    <2>2. CASE c # "ocr"
        <3>1. HonouredHost(HostOf(c), FALSE)
            BY <1>1, <2>2, RequestsAreDevices, HostHonours DEF HostOf, Components
        <3> QED BY <2>2, <3>1
    <2> QED BY <2>1, <2>2
<1> QED BY <1>1, <1>3 DEF Honoured, HonouredHost

\* The search, its encoder and the report see one device.
LEMMA SearchIsReported ==
    ASSUME DeviceInv, Made("search")
    PROVE  /\ Variable("SEARCH_MODEL_DEVICE") = Unset /\ Variable("VISUAL_DEVICE") # Unset =>
                  hosted["search"].asked = Variable("VISUAL_DEVICE")
           /\ hosted["search"].device = RuntimeSummary.visual
           /\ hosted["search"].runs = hosted["search"].device
           /\ Made("search_encoder") => hosted["search_encoder"].runs = hosted["search"].device
<1>1. site \in Sites /\ hosted["search"] = Host("torch", VisualRequest)
      /\ (Made("search_encoder") => hosted["search_encoder"] = Host("torch", EncoderRequest))
    BY DEF DeviceInv, HostOf, Components
<1>2. EncoderRequest = VisualRequest
    BY <1>1, RequestsAreDevices, SiteAssumption DEF EncoderRequest, DeviceRequest, Or
<1>3. RuntimeSummary.visual = ResolveDevice("torch", VisualRequest)
    BY DEF RuntimeSummary
<1>4. Variable("SEARCH_MODEL_DEVICE") = Unset /\ Variable("VISUAL_DEVICE") # Unset => VisualRequest = Variable("VISUAL_DEVICE")
    BY DEF VisualRequest, DeviceRequest, Or
<1> QED BY <1>1, <1>2, <1>3, <1>4 DEF Host

LEMMA DeviceInvIsHonoured == DeviceInv => DevicesAreHonoured
<1> SUFFICES ASSUME DeviceInv PROVE DevicesAreHonoured
    OBVIOUS
<1>1. \A c \in Components : Made(c) => Honoured(c)
    BY ComponentHonours
<1>2. Made("asr") /\ Option("asr_device") = Unset /\ Option("device") = Unset =>
          hosted["asr"].runs = RuntimeSummary.asr
    BY DEF DeviceInv, Components, HostOf, Host, RuntimeSummary, Or
<1>3. Made("ocr") /\ Option("ocr_device") = Unset /\ site.engine \in {"paddleocr", "easyocr"} =>
          hosted["ocr"].device = RuntimeSummary.ocr
    <2> SUFFICES ASSUME Made("ocr"), Option("ocr_device") = Unset, site.engine \in {"paddleocr", "easyocr"}
                 PROVE  hosted["ocr"].device = RuntimeSummary.ocr
        OBVIOUS
    <2>1. hosted["ocr"] = OcrHost
        BY DEF DeviceInv, Components, HostOf
    <2>2. OcrHost = HostReader(OcrBackend, OcrRequest(Unset))
        BY DEF OcrHost, OcrBackend
    <2>3. HostReader(OcrBackend, OcrRequest(Unset)).device = ResolveDevice(OcrBackend, OcrRequest(Unset))
        BY DEF HostReader, Host
    <2> QED BY <2>1, <2>2, <2>3 DEF RuntimeSummary
<1>4. ASSUME NEW c \in {"search", "search_encoder"}, Made(c), OnGpu(hosted[c].runs)
      PROVE  Mode # "cpu"
    <2>1. Made("search") /\ hosted[c].runs = RuntimeSummary.visual
        BY <1>4, SearchIsReported DEF DeviceInv
    <2>2. OnGpu(RuntimeSummary.visual) /\ RuntimeSummary.visual # Unavailable
        BY <1>4, <2>1 DEF OnGpu, Unavailable, Device
    <2> DEFINE devices == {RuntimeSummary[d] : d \in {"visual", "asr", "ocr"}} \ {Unavailable}
    <2>3. RuntimeSummary.visual \in devices
        BY <2>2
    <2>4. Mode = CASE \E d, e \in devices : d # e -> "mixed"
                   [] \E d \in devices : devices = {d} /\ OnGpu(d) -> "gpu"
                   [] OTHER -> "cpu"
        BY DEF Mode
    <2> HIDE DEF devices
    <2>5. CASE \E d, e \in devices : d # e
        BY <2>4, <2>5
    <2>6. CASE ~\E d, e \in devices : d # e
        <3>1. devices = {RuntimeSummary.visual}
            BY <2>3, <2>6
        <3> QED BY <2>2, <2>4, <2>6, <3>1
    <2> QED BY <2>5, <2>6
<1> QED BY <1>1, <1>2, <1>3, <1>4, SearchIsReported DEF DevicesAreHonoured, DeviceInv

-----------------------------------------------------------------------------
(* VisualEncoder.  The pieces of a text: the n-th starts n shifts into it.  *)

LEMMA ShiftFacts ==
    /\ Window \in Nat \ {0} /\ Shift \in Nat \ {0} /\ Shift <= Window /\ MaxPieces \in Nat \ {0}
    BY EncoderAssumption DEF Shift

\* Products of naturals, as the pieces need them.
LEMMA Products ==
    ASSUME NEW n \in Nat, NEW d \in Nat \ {0}
    PROVE  n * d \in Nat /\ n * d >= n /\ (n + 1) * d = n * d + d
    OBVIOUS

LEMMA Quotients ==
    ASSUME NEW n \in Nat, NEW d \in Nat \ {0}
    PROVE  n \div d \in Nat /\ 0 \div d = 0 /\ (d * n) \div d = n
<1>1. n \div d \in Nat
    OBVIOUS
<1>2. 0 \div d = 0
    OBVIOUS
<1>3. (d * n) \div d = n
    OBVIOUS
<1> QED BY <1>1, <1>2, <1>3

LEMMA QuotientBound ==
    ASSUME NEW i \in Nat, NEW n \in Nat, NEW d \in Nat \ {0}, i <= d
    PROVE  (i * n) \div d <= n
<1> DEFINE a == i * n
           q == a \div d
<1>1. a \in Nat /\ a <= d * n /\ d * n \in Nat
    OBVIOUS
<1>2. q \in Nat
    BY <1>1, Quotients
<1>3. d * q <= a
    BY <1>1
<1> HIDE DEF q, a
<1>4. CASE q <= n
    BY <1>4 DEF q, a
<1>5. CASE q >= n + 1
    <2>1. d * q >= d * (n + 1) /\ d * (n + 1) = d * n + d
        BY <1>2, <1>5
    <2> QED BY <1>1, <1>2, <1>3, <2>1
<1> QED BY <1>2, <1>4, <1>5

LEMMA PieceFacts ==
    ASSUME NEW length \in Nat, NEW n \in Nat
    PROVE  /\ n * Shift \in Nat
           /\ Piece(n, length) = [first |-> n * Shift + 1, last |-> Least(n * Shift + Window, length)]
           /\ Least(n * Shift + Window, length) \in Nat
           /\ Least(n * Shift + Window, length) <= n * Shift + Window
           /\ n * Shift + Window <= length => Least(n * Shift + Window, length) = n * Shift + Window
           /\ length <= n * Shift + Window => Least(n * Shift + Window, length) = length
<1>1. n * Shift \in Nat
    BY ShiftFacts, Products
<1> QED BY <1>1, ShiftFacts DEF Piece, Least

\* There are as many pieces as cuts, and the last cut reaches the end.
LEMMA CutsCount ==
    ASSUME NEW length \in Nat
    PROVE  \E n \in Nat : /\ Cuts(length) = 0..n
                          /\ Cardinality(Cuts(length)) = n + 1
                          /\ n = 0 \/ n * Shift + 1 <= length
                          /\ length <= n * Shift + Window
<1> DEFINE S == {n \in Nat : length <= n * Shift + Window}
<1>1. length \in S
    BY ShiftFacts, Products
<1>2. PICK n \in S : \A m \in S : n <= m
    BY <1>1, LeastNumber
<1>3. n \in Nat /\ length <= n * Shift + Window /\ n * Shift \in Nat
    BY <1>2, ShiftFacts, Products
<1>4. n # 0 => n - 1 \in Nat /\ (n - 1) * Shift + Window < length /\ (n - 1) * Shift >= n - 1 /\ n * Shift = (n - 1) * Shift + Shift
    BY <1>2, <1>3, ShiftFacts, Products
<1>5. n = 0 \/ (n * Shift + 1 <= length /\ n <= length)
    BY <1>3, <1>4, ShiftFacts
<1>6. Cuts(length) = 0..n
    <2>1. ASSUME NEW m \in 0..length, m # 0
          PROVE  ((m - 1) * Shift + Window < length) <=> m <= n
        <3>0. m - 1 \in Nat /\ (m - 1) * Shift \in Nat
            BY <2>1, ShiftFacts, Products
        <3>1. ASSUME (m - 1) * Shift + Window < length PROVE m <= n
            <4>1. CASE n <= m - 1
                <5>1. n * Shift <= (m - 1) * Shift
                    BY <1>3, <3>0, <4>1, ShiftFacts
                <5> QED BY <1>3, <3>0, <3>1, <5>1, ShiftFacts
            <4> QED BY <1>3, <3>0, <4>1
        <3>2. ASSUME m <= n PROVE (m - 1) * Shift + Window < length
            <4>1. ~(m - 1 \in S)
                BY <1>2, <1>3, <3>0, <3>2
            <4> QED BY <3>0, <4>1, ShiftFacts
        <3> QED BY <3>1, <3>2
    <2> QED BY <1>3, <1>5, <2>1 DEF Cuts
<1>7. Cardinality(Cuts(length)) = n + 1
    BY <1>3, <1>6, FS_Interval
<1> QED BY <1>3, <1>5, <1>6, <1>7

\* What a piece loses is a number of tokens.
Loses(length) == \A n \in 0..length : site.lost[length][n] \in Nat

LEMMA RetokenisedFacts ==
    ASSUME NEW length \in Nat, Loses(length), NEW n \in 0..length
    PROVE  /\ Retokenised(n, length).first = n * Shift + 1 /\ n * Shift \in Nat
           /\ Retokenised(n, length).last = Least(n * Shift + Window, length) - site.lost[length][n]
           /\ Least(n * Shift + Window, length) \in Nat
           /\ Least(n * Shift + Window, length) <= n * Shift + Window
           /\ site.lost[length][n] \in Nat
<1> DEFINE first == n * Shift + 1
           last == Least(n * Shift + Window, length)
<1>1. n \in Nat
    OBVIOUS
<1>2. Piece(n, length) = [first |-> first, last |-> last]
    BY <1>1, PieceFacts
<1>3. n * Shift \in Nat /\ last \in Nat /\ last <= n * Shift + Window
    BY <1>1, PieceFacts
<1>4. site.lost[length][n] \in Nat
    BY DEF Loses
<1> HIDE DEF first, last
<1>5. Retokenised(n, length) = [first |-> first, last |-> last - site.lost[length][n]]
    BY <1>2 DEF Retokenised
<1> QED BY <1>3, <1>4, <1>5 DEF first, last

\* The ends of a piece that loses no more than it shares with the next.
FrugalPiece(n, length) ==
    /\ Retokenised(n, length).first = n * Shift + 1
    /\ Retokenised(n, length).last = Least(n * Shift + Window, length) - site.lost[length][n]
    /\ site.lost[length][n] \in Nat /\ site.lost[length][n] <= Stride

LEMMA FrugalPieceReaches ==
    ASSUME NEW length \in Nat, NEW m \in Nat, FrugalPiece(m, length),
           m * Shift + Window <= length,
           NEW t \in Nat, m * Shift + 1 <= t, t <= m * Shift + Shift
    PROVE  t \in Retokenised(m, length).first..Retokenised(m, length).last
<1> DEFINE a == Retokenised(m, length).first
           b == Retokenised(m, length).last
           l == site.lost[length][m]
           p == m * Shift
           e == Least(m * Shift + Window, length)
<1>1. p \in Nat /\ e = p + Window
    BY PieceFacts, ShiftFacts
<1>2. a = p + 1 /\ b = e - l /\ l \in Nat /\ l <= Stride
    BY DEF FrugalPiece
<1>3. p + 1 <= t /\ t <= p + Shift
    OBVIOUS
<1>4. Stride \in Nat /\ Window \in Nat /\ Shift = Window - Stride
    BY EncoderAssumption DEF Shift
<1> HIDE DEF a, b, l, p, e
<1>5. t \in a..b
    BY <1>1, <1>2, <1>3, <1>4
<1> QED BY <1>5 DEF a, b

\* Up to the end of the last piece, a token is in some piece and not among those it loses.
LEMMA CutReaches ==
    ASSUME NEW length \in Nat, Loses(length), OverlapSuffices(length), NEW N \in Nat, Cuts(length) = 0..N,
           length <= N * Shift + Window, N <= length,
           NEW t \in 1..(length - site.lost[length][N])
    PROVE  \E n \in Cuts(length) : t \in Retokenised(n, length).first..Retokenised(n, length).last
<1> DEFINE S == {n \in Nat : t <= n * Shift + Shift}
<1>1. t \in S
    BY ShiftFacts, Products
<1>2. PICK m \in S : \A k \in S : m <= k
    BY <1>1, LeastNumber
<1>3. m \in Nat /\ t <= m * Shift + Shift /\ m * Shift \in Nat
    BY <1>2, ShiftFacts, Products
<1>4. m * Shift + 1 <= t
    <2>1. CASE m = 0
        BY <1>3, <2>1, ShiftFacts
    <2>2. CASE m # 0
        <3>1. m - 1 \in Nat /\ ~(m - 1 \in S)
            BY <1>2, <1>3, <2>2
        <3>2. (m - 1) * Shift + Shift = m * Shift /\ (m - 1) * Shift \in Nat
            BY <1>3, <3>1, ShiftFacts, Products
        <3> QED BY <1>3, <3>1, <3>2, ShiftFacts
    <2> QED BY <2>1, <2>2
<1>5. \A n \in 0..N : FrugalPiece(n, length)
    <2> SUFFICES ASSUME NEW n \in 0..N PROVE FrugalPiece(n, length)
        OBVIOUS
    <2>1. n \in 0..length
        OBVIOUS
    <2>2. site.lost[length][n] <= Stride
        BY <2>1 DEF OverlapSuffices
    <2> QED BY <2>1, <2>2, RetokenisedFacts DEF FrugalPiece
<1>6. CASE m <= N /\ m * Shift + Window <= length
    <2>1. m \in 0..N
        BY <1>3, <1>6
    <2>2. FrugalPiece(m, length)
        BY <1>5, <2>1, Zenon
    <2>3. t \in Retokenised(m, length).first..Retokenised(m, length).last
        BY <1>3, <1>4, <1>6, <2>2, FrugalPieceReaches
    <2> QED BY <1>6, <2>1, <2>3
<1>7. CASE ~(m <= N /\ m * Shift + Window <= length)
    <2>1. N <= m
        <3>1. SUFFICES ASSUME m <= N, m < N PROVE FALSE
            BY <1>3
        <3>2. m + 1 \in Cuts(length) /\ m + 1 # 0 /\ m + 1 - 1 = m
            BY <1>3, <3>1
        <3>3. m * Shift + Window < length
            BY <3>2 DEF Cuts
        <3>4. m * Shift + Window <= length
            BY <1>3, <3>3, ShiftFacts
        <3> QED BY <1>7, <3>1, <3>4
    <2>2. N * Shift <= m * Shift /\ N * Shift \in Nat
        BY <1>3, <2>1, ShiftFacts, Products
    <2>3. Least(N * Shift + Window, length) = length
        BY PieceFacts
    <2>4. N * Shift + 1 <= t /\ N \in 0..N
        BY <1>3, <1>4, <2>2
    <2>5. FrugalPiece(N, length)
        BY <1>5, <2>4, Zenon
    <2> QED BY <2>2, <2>3, <2>4, <2>5 DEF FrugalPiece
<1> QED BY <1>6, <1>7

Complete(length, pieces) ==
    /\ pieces # {}
    /\ \A p \in pieces : p.last - p.first < Window
    /\ OverlapSuffices(length) =>
           \A t \in 1..Readable(length) :
               (\/ site.truncates
                \/ Cardinality(Cuts(length)) <= MaxPieces
                \/ MaxPieces > 1 /\ t \in {1, Readable(length)}) => Covers(pieces, t)

LEMMA PiecesAreComplete ==
    ASSUME NEW length \in Nat, Loses(length)
    PROVE  Complete(length, PiecesOf(length))
<1>1. PICK N \in Nat : /\ Cuts(length) = 0..N
                       /\ Cardinality(Cuts(length)) = N + 1
                       /\ N = 0 \/ N * Shift + 1 <= length
                       /\ length <= N * Shift + Window
    BY CutsCount
<1>2. N <= length
    <2>1. N \in Cuts(length)
        BY <1>1
    <2> QED BY <2>1 DEF Cuts
<1>3. CASE site.truncates \/ length <= Window
    <2>1. PiecesOf(length) = {Piece(0, length)}
        BY <1>3 DEF PiecesOf
    <2>2. Piece(0, length) = [first |-> 1, last |-> Least(Window, length)]
        BY PieceFacts, ShiftFacts DEF Piece
    <2>3. Least(Window, length) \in Nat /\ Least(Window, length) <= Window /\ Readable(length) <= Least(Window, length) /\ Readable(length) \in Nat
        BY <1>3, ShiftFacts DEF Least, Readable
    <2>4. \A p \in PiecesOf(length) : p.last - p.first < Window
        BY <2>1, <2>2, <2>3, ShiftFacts
    <2>5. \A t \in 1..Readable(length) : Covers(PiecesOf(length), t)
        BY <2>1, <2>2, <2>3 DEF Covers
    <2> QED BY <2>1, <2>4, <2>5 DEF Complete
<1>4. CASE ~(site.truncates \/ length <= Window)
    <2>1. PiecesOf(length) = {Retokenised(n, length) : n \in Chosen(length)}
        BY <1>4 DEF PiecesOf
    <2>2. Readable(length) = length - site.lost[length][N]
        BY <1>1, <1>4, ShiftFacts DEF Readable
    <2>3. \A n \in 0..N : /\ Retokenised(n, length).first = n * Shift + 1 /\ n * Shift \in Nat
                          /\ Retokenised(n, length).last = Least(n * Shift + Window, length) - site.lost[length][n]
                          /\ Least(n * Shift + Window, length) \in Nat
                          /\ Least(n * Shift + Window, length) <= n * Shift + Window
                          /\ site.lost[length][n] \in Nat
        <3> SUFFICES ASSUME NEW n \in 0..N
                     PROVE  /\ Retokenised(n, length).first = n * Shift + 1 /\ n * Shift \in Nat
                            /\ Retokenised(n, length).last = Least(n * Shift + Window, length) - site.lost[length][n]
                            /\ Least(n * Shift + Window, length) \in Nat
                            /\ Least(n * Shift + Window, length) <= n * Shift + Window
                            /\ site.lost[length][n] \in Nat
            OBVIOUS
        <3>1. n \in 0..length
            BY <1>2
        <3> QED BY <3>1, RetokenisedFacts
    <2>4. Spread(length) = IF MaxPieces = 1 THEN {0} ELSE {(i * N) \div (MaxPieces - 1) : i \in 0..(MaxPieces - 1)}
        <3>1. Cardinality(Cuts(length)) - 1 = N
            BY <1>1
        <3> QED BY <3>1 DEF Spread
    <2>5. Spread(length) \subseteq 0..N /\ Spread(length) # {}
        <3>1. ASSUME MaxPieces # 1, NEW i \in 0..(MaxPieces - 1)
              PROVE  (i * N) \div (MaxPieces - 1) \in 0..N
            <4>1. MaxPieces - 1 \in Nat \ {0} /\ i \in Nat /\ i <= MaxPieces - 1 /\ i * N \in Nat
                BY <3>1, ShiftFacts
            <4>2. (i * N) \div (MaxPieces - 1) <= N /\ (i * N) \div (MaxPieces - 1) \in Nat
                BY <4>1, QuotientBound, Quotients
            <4> QED BY <4>2
        <3>2. CASE MaxPieces = 1
            BY <2>4, <3>2
        <3>3. CASE MaxPieces # 1
            <4>1. Spread(length) = {(i * N) \div (MaxPieces - 1) : i \in 0..(MaxPieces - 1)} /\ 0 \in 0..(MaxPieces - 1)
                BY <2>4, <3>3, ShiftFacts
            <4> QED BY <3>1, <3>3, <4>1, Zenon
        <3> QED BY <3>2, <3>3
    <2>6. Chosen(length) \subseteq 0..N /\ Chosen(length) # {}
        BY <1>1, <2>5 DEF Chosen
    <2>7. PiecesOf(length) # {} /\ \A p \in PiecesOf(length) : p.last - p.first < Window
        <3>1. ASSUME NEW n \in 0..N PROVE Retokenised(n, length).last - Retokenised(n, length).first < Window
            BY <2>3, ShiftFacts
        <3> QED BY <2>1, <2>6, <3>1
    <2>8. ASSUME OverlapSuffices(length), NEW t \in 1..Readable(length), Cardinality(Cuts(length)) <= MaxPieces
          PROVE  Covers(PiecesOf(length), t)
        <3>1. Chosen(length) = Cuts(length)
            BY <2>8 DEF Chosen
        <3>2. \E n \in Cuts(length) : t \in Retokenised(n, length).first..Retokenised(n, length).last
            BY <1>1, <1>2, <2>2, <2>8, CutReaches
        <3> QED BY <2>1, <3>1, <3>2 DEF Covers
    <2>9. ASSUME OverlapSuffices(length), NEW t \in 1..Readable(length), ~(Cardinality(Cuts(length)) <= MaxPieces),
                 MaxPieces > 1, t \in {1, Readable(length)}
          PROVE  Covers(PiecesOf(length), t)
        <3>1. MaxPieces - 1 \in Nat \ {0} /\ N # 0
            BY <1>1, <2>9, ShiftFacts
        <3>2. 0 \div (MaxPieces - 1) = 0 /\ ((MaxPieces - 1) * N) \div (MaxPieces - 1) = N
            BY <3>1, Quotients
        <3>3. 0 * N = 0 /\ 0 \in 0..(MaxPieces - 1) /\ MaxPieces - 1 \in 0..(MaxPieces - 1)
            BY <3>1
        <3>4. 0 \in Chosen(length) /\ N \in Chosen(length)
            BY <2>4, <2>9, <3>2, <3>3 DEF Chosen
        <3>5. \A n \in {0, N} : site.lost[length][n] \in Nat /\ site.lost[length][n] <= Stride
            BY <1>2, <2>9 DEF Loses, OverlapSuffices
        <3>6. CASE t = 1
            <4>1. 0 * Shift = 0 /\ Least(0 * Shift + Window, length) = Window
                BY <1>4, ShiftFacts DEF Least
            <4>2. Window - Stride >= 1 /\ Stride \in Nat
                BY EncoderAssumption
            <4>3. /\ Retokenised(0, length).first = 0 * Shift + 1
                  /\ Retokenised(0, length).last = Least(0 * Shift + Window, length) - site.lost[length][0]
                  /\ site.lost[length][0] \in Nat /\ site.lost[length][0] <= Stride
                BY <2>3, <3>5
            <4>5. Retokenised(0, length).first = 1 /\ Retokenised(0, length).last >= 1 /\ Retokenised(0, length).last \in Int
                BY <4>1, <4>2, <4>3, ShiftFacts
            <4>4. 1 \in Retokenised(0, length).first..Retokenised(0, length).last
                BY <4>5
            <4> QED BY <2>1, <3>4, <3>6, <4>4 DEF Covers
        <3>7. CASE t = Readable(length)
            <4>1. (N - 1) * Shift + Window < length /\ N - 1 \in Nat
                BY <1>1, <3>1 DEF Cuts
            <4>2. (N - 1) * Shift + Shift = N * Shift /\ (N - 1) * Shift \in Nat /\ N * Shift \in Nat
                BY <4>1, ShiftFacts, Products
            <4>3. Window - Shift = Stride /\ Stride \in Nat
                BY EncoderAssumption DEF Shift
            <4>4. N * Shift + 1 <= length - site.lost[length][N]
                BY <3>5, <4>1, <4>2, <4>3, ShiftFacts
            <4>5. Least(N * Shift + Window, length) = length
                BY <1>1, PieceFacts
            <4>6. t \in Retokenised(N, length).first..Retokenised(N, length).last
                BY <2>2, <2>3, <3>5, <3>7, <4>2, <4>4, <4>5
            <4> QED BY <2>1, <3>4, <4>6 DEF Covers
        <3> QED BY <2>9, <3>6, <3>7
    <2> QED BY <1>4, <2>7, <2>8, <2>9 DEF Complete
<1> QED BY <1>3, <1>4

\* The embeddings so far are those of the first items, in their order.
Rows == {Row(n) : n \in Nat}

TextsLose == batch.kind = "text" => \A n \in DOMAIN batch.items : Loses(batch.items[n])

BatchInv ==
    /\ DOMAIN batch = {"kind", "items", "size", "automatic", "rows", "step"}
    /\ batch.items \in Seq(Nat) /\ batch.size \in Nat \ {0} /\ batch.rows \in Seq(Rows)
    /\ Len(batch.rows) <= Len(batch.items)
    /\ \A n \in 1..Len(batch.rows) : batch.rows[n] = Row(n)
    /\ batch.step = "done" => Len(batch.rows) = Len(batch.items)
    /\ batch.step = "failed" => batch.rows = <<>>
    /\ TextsLose

EncoderInv == DeviceInv /\ BatchInv

LEMMA EncoderInvInit == site \in Sites /\ EncoderInit => EncoderInv
<1> SUFFICES ASSUME site \in Sites, EncoderInit PROVE EncoderInv
    OBVIOUS
<1>1. DeviceInv
    BY DEF EncoderInit, DeviceInit, DeviceInv, Made, Components
<1>2. BatchInv
    BY DEF EncoderInit, NoBatch, BatchInv, TextsLose
<1> QED BY <1>1, <1>2 DEF EncoderInv

\* What a text loses, and so its embedding, is the same at any time.
LEMMA RowStays ==
    ASSUME UNCHANGED site
    PROVE  batch'.kind = batch.kind /\ batch'.items = batch.items =>
               (TextsLose => TextsLose') /\ \A n : Row(n)' = Row(n)
<1>1. batch'.kind = batch.kind /\ batch'.items = batch.items => (TextsLose => TextsLose')
    BY DEF TextsLose, Loses
<1>2. \A length : PiecesOf(length)' = PiecesOf(length)
    BY DEF PiecesOf, Retokenised
<1>3. ASSUME batch'.kind = batch.kind, batch'.items = batch.items, NEW n PROVE Row(n)' = Row(n)
    <2>1. PiecesOf(batch.items[n])' = PiecesOf(batch.items[n])
        BY <1>2, <1>3 DEF PiecesOf, Retokenised
    <2> QED BY <1>3, <2>1 DEF Row
<1> QED BY <1>1, <1>3

\* The devices stay as they are.
LEMMA DevicesStay ==
    ASSUME DeviceInv, UNCHANGED deviceVars
    PROVE  DeviceInv'
<1>1. \A c \in Components : HostOf(c)' = HostOf(c)
    BY HostsStay DEF deviceVars
<1> QED BY <1>1 DEF DeviceInv, Made, deviceVars

LEMMA StartInv ==
    ASSUME EncoderInv, NEW b \in site.calls, StartBatch(b.kind, b.items, b.asked)
    PROVE  EncoderInv'
<1>1. b.items \in Seq(Nat) /\ (b.asked = Unset \/ b.asked \in Nat \ {0}) /\ AutoBatchSize \in Nat \ {0}
    BY EncoderAssumption DEF EncoderInv, DeviceInv, AutoBatchSize
<1> DEFINE size == IF b.asked = Unset THEN AutoBatchSize ELSE b.asked
<1>2. batch' = [kind |-> b.kind, items |-> b.items, automatic |-> b.asked = Unset, rows |-> <<>>, step |-> "encode",
                size |-> size]
    BY DEF StartBatch
<1>3. size \in Nat \ {0}
    BY <1>1
<1> HIDE DEF size
<1>4. b.kind = "text" => \A n \in DOMAIN b.items : Loses(b.items[n])'
    <2>1. UNCHANGED site /\ site \in Sites
        BY DEF StartBatch, EncoderInv, DeviceInv
    <2> SUFFICES ASSUME b.kind = "text", NEW n \in DOMAIN b.items PROVE Loses(b.items[n])'
        OBVIOUS
    <2>2. \A m \in 0..b.items[n] : site.lost[b.items[n]][m] \in Nat
        BY <2>1, EncoderAssumption
    <2> QED BY <2>1, <2>2 DEF Loses
<1>6. BatchInv'
    <2>1. /\ DOMAIN batch' = {"kind", "items", "size", "automatic", "rows", "step"}
          /\ batch'.kind = b.kind /\ batch'.items = b.items /\ batch'.size = size /\ batch'.rows = <<>> /\ batch'.step = "encode"
        BY <1>2
    <2>2. TextsLose'
        BY <1>4, <2>1 DEF TextsLose
    <2> QED BY <1>1, <1>3, <2>1, <2>2 DEF BatchInv
<1>5. DeviceInv'
    BY DevicesStay DEF StartBatch, EncoderInv, deviceVars
<1> QED BY <1>5, <1>6 DEF EncoderInv

LEMMA Concatenation ==
    ASSUME NEW S, NEW s \in Seq(S), NEW t \in Seq(S)
    PROVE  /\ s \o t \in Seq(S) /\ Len(s \o t) = Len(s) + Len(t)
           /\ \A n \in 1..Len(s) : (s \o t)[n] = s[n]
           /\ \A n \in 1..Len(t) : (s \o t)[Len(s) + n] = t[n]
    OBVIOUS

\* One batch more.
LEMMA MoreRows ==
    ASSUME BatchInv, EncodeBatch
    PROVE  BatchInv'
<1> DEFINE here == Len(batch.rows)
           taken == Taken
           more == [k \in 1..taken |-> Row(here + k)]
<1>1. here \in Nat /\ Len(batch.items) \in Nat /\ here < Len(batch.items)
    BY DEF BatchInv, EncodeBatch, Here
<1>2. taken \in Nat /\ here + taken <= Len(batch.items)
    BY <1>1 DEF Taken, Here, BatchInv
<1>3. batch' = [batch EXCEPT !.rows = @ \o more] /\ batch.step = "encode"
    BY DEF EncodeBatch, Here
<1> HIDE DEF here, taken
<1>4. more \in Seq(Rows) /\ Len(more) = taken /\ \A k \in 1..taken : more[k] = Row(here + k)
    <2>1. \A k \in 1..taken : Row(here + k) \in Rows
        BY <1>1, <1>2 DEF Rows
    <2> QED BY <1>2, <2>1
<1> HIDE DEF more
<1>5. /\ DOMAIN batch' = DOMAIN batch /\ batch'.kind = batch.kind /\ batch'.items = batch.items
      /\ batch'.size = batch.size /\ batch'.step = "encode" /\ batch'.rows = batch.rows \o more
    BY <1>3 DEF BatchInv
<1>6. \A n \in Nat : Row(n)' = Row(n)
    BY <1>5, RowStays DEF EncodeBatch, deviceVars
<1>7. Rows' = Rows
    BY <1>6 DEF Rows
<1> DEFINE both == batch.rows \o more
<1>8. /\ both \in Seq(Rows) /\ Len(both) = here + taken
      /\ \A n \in 1..here : both[n] = Row(n)
      /\ \A k \in 1..taken : both[here + k] = Row(here + k)
    <2>1. batch.rows \in Seq(Rows) /\ \A n \in 1..here : batch.rows[n] = Row(n)
        BY DEF BatchInv, here
    <2>2. more \in Seq(Rows) /\ Len(more) = taken /\ Len(batch.rows) = here
        BY <1>4 DEF here
    <2>3. both \in Seq(Rows) /\ Len(both) = Len(batch.rows) + Len(more)
        BY <2>1, <2>2, Concatenation
    <2>4. /\ \A n \in 1..Len(batch.rows) : both[n] = batch.rows[n]
          /\ \A k \in 1..Len(more) : both[Len(batch.rows) + k] = more[k]
        BY <2>1, <2>2, Concatenation
    <2> HIDE DEF both
    <2> QED BY <1>4, <2>1, <2>2, <2>3, <2>4
<1> HIDE DEF both
<1>9. /\ batch'.rows \in Seq(Rows) /\ Len(batch'.rows) = here + taken
      /\ \A n \in 1..here : batch'.rows[n] = Row(n)
      /\ \A k \in 1..taken : batch'.rows[here + k] = Row(here + k)
    BY <1>5, <1>8 DEF both
<1>10. ASSUME NEW n \in 1..(here + taken)
      PROVE  batch'.rows[n] = Row(n)
    <2>1. CASE n <= here
        BY <1>1, <1>2, <1>9, <2>1
    <2>2. CASE n > here
        <3>1. n - here \in 1..taken /\ here + (n - here) = n
            BY <1>1, <1>2, <2>2
        <3>2. PICK k \in 1..taken : k = n - here
            BY <3>1
        <3>3. here + k = n
            BY <3>1, <3>2
        <3>4. batch'.rows[here + k] = Row(here + k)
            BY <1>9
        <3> QED BY <3>3, <3>4
    <2> QED BY <1>1, <1>2, <2>1, <2>2
<1>12. TextsLose'
    BY <1>5, RowStays DEF BatchInv, EncodeBatch, deviceVars
<1> QED BY <1>2, <1>5, <1>6, <1>7, <1>9, <1>10, <1>12 DEF BatchInv

\* A step that keeps the embeddings, or loses them.
LEMMA RowsStay ==
    ASSUME BatchInv, UNCHANGED site, DOMAIN batch' = DOMAIN batch, batch'.kind = batch.kind, batch'.items = batch.items,
           batch'.size \in Nat \ {0},
           \/ batch'.rows = <<>> /\ batch'.step = "failed"
           \/ batch'.rows = batch.rows /\ batch'.step = batch.step
           \/ batch'.rows = batch.rows /\ batch'.step = "done" /\ Len(batch.rows) = Len(batch.items)
    PROVE  BatchInv'
<1>1. \A n \in Nat : Row(n)' = Row(n)
    BY RowStays
<1>5. TextsLose'
    BY RowStays DEF BatchInv
<1>2. Rows' = Rows
    BY <1>1 DEF Rows
<1>3. batch'.rows \in Seq(Rows) /\ Len(batch'.rows) <= Len(batch'.items)
    <2>1. Len(batch.items) \in Nat /\ batch.rows \in Seq(Rows) /\ Len(batch.rows) <= Len(batch.items)
        BY DEF BatchInv
    <2>2. <<>> \in Seq(Rows) /\ Len(<<>>) = 0
        OBVIOUS
    <2>3. CASE batch'.rows = <<>>
        BY <2>1, <2>2, <2>3
    <2>4. CASE batch'.rows = batch.rows
        BY <2>1, <2>4
    <2> QED BY <2>3, <2>4
<1>4. \A n \in 1..Len(batch'.rows) : batch'.rows[n] = Row(n)'
    <2>1. CASE batch'.rows = <<>>
        <3>1. Len(batch'.rows) = 0
            BY <2>1
        <3> QED BY <3>1
    <2>2. CASE batch'.rows = batch.rows
        <3>1. DOMAIN batch.rows = 1..Len(batch.rows) /\ Len(batch.rows) \in Nat
            BY DEF BatchInv
        <3> QED BY <1>1, <2>2, <3>1 DEF BatchInv
    <2> QED BY <2>1, <2>2
<1> QED BY <1>2, <1>3, <1>4, <1>5 DEF BatchInv

LEMMA EncodeInv ==
    ASSUME EncoderInv, EncodeStep
    PROVE  EncoderInv'
<1>0. BatchInv /\ DeviceInv
    BY DEF EncoderInv
<1>5. UNCHANGED site
    BY DEF EncodeStep, EncodeBatch, FailBatch, OutOfMemory, EndBatch, deviceVars
<1>1. CASE EncodeBatch
    BY <1>0, <1>1, MoreRows, DevicesStay DEF EncodeBatch, EncoderInv
<1>2. CASE FailBatch
    <2>1. batch' = [batch EXCEPT !.rows = <<>>, !.step = "failed"]
        BY <1>2 DEF FailBatch
    <2>2. BatchInv'
        BY <1>0, <1>5, <2>1, RowsStay DEF BatchInv
    <2> QED BY <1>0, <1>2, <2>2, DevicesStay DEF FailBatch, EncoderInv
<1>3. CASE OutOfMemory
    <2>1. CASE HalveBatch
        <3>1. batch' = [batch EXCEPT !.size = @ \div 2] /\ batch.size # 1
            BY <2>1 DEF HalveBatch
        <3>2. batch.size \div 2 \in Nat \ {0}
            BY <1>0, <3>1 DEF BatchInv
        <3> QED BY <1>0, <1>5, <3>1, <3>2, RowsStay, <1>3, DevicesStay DEF BatchInv, OutOfMemory, EncoderInv
    <2>2. CASE GiveUpBatch
        <3>1. batch' = [batch EXCEPT !.rows = <<>>, !.step = "failed"]
            BY <2>2 DEF GiveUpBatch
        <3> QED BY <1>0, <1>5, <3>1, RowsStay, <1>3, DevicesStay DEF BatchInv, OutOfMemory, EncoderInv
    <2> QED BY <1>3, <2>1, <2>2 DEF OutOfMemory
<1>4. CASE EndBatch
    <2>1. batch' = [batch EXCEPT !.step = "done"] /\ Len(batch.rows) = Len(batch.items)
        BY <1>4 DEF EndBatch, Here
    <2>2. BatchInv'
        BY <1>0, <1>5, <2>1, RowsStay DEF BatchInv
    <2> QED BY <1>0, <1>4, <2>2, DevicesStay DEF EndBatch, EncoderInv
<1> QED BY <1>1, <1>2, <1>3, <1>4 DEF EncodeStep

LEMMA EncoderInvNext == EncoderInv /\ [EncoderNext]_encoderVars => EncoderInv'
<1> SUFFICES ASSUME EncoderInv, [EncoderNext]_encoderVars PROVE EncoderInv'
    OBVIOUS
<1>0. BatchInv /\ DeviceInv
    BY DEF EncoderInv
<1>1. UNCHANGED <<batch, site>> => BatchInv'
    <2> SUFFICES ASSUME UNCHANGED <<batch, site>> PROVE BatchInv'
        OBVIOUS
    <2>1. \A n : Row(n)' = Row(n)
        BY RowStays
    <2>2. Rows' = Rows
        BY <2>1 DEF Rows
    <2>3. TextsLose'
        BY <1>0, RowStays DEF BatchInv
    <2> QED BY <1>0, <2>1, <2>2, <2>3 DEF BatchInv
<1>2. CASE UNCHANGED encoderVars
    BY <1>0, <1>1, <1>2, DevicesStay DEF encoderVars, deviceVars, EncoderInv
<1>3. ASSUME NEW c \in PartsOf(site.process), Make(c) /\ UNCHANGED <<loaded, batch>>
      PROVE  EncoderInv'
    <2>1. c \in Components
        BY DEF PartsOf, Components
    <2> QED BY <1>0, <1>1, <1>3, <2>1, DeviceInvMake DEF EncoderInv, Make
<1>4. ASSUME NEW b \in site.calls, StartBatch(b.kind, b.items, b.asked)
      PROVE  EncoderInv'
    BY <1>4, StartInv
<1>5. CASE ClearCache
    <2>1. BatchInv'
        BY <1>5 DEF ClearCache, NoBatch, BatchInv, TextsLose
    <2> QED BY <1>0, <1>5, <2>1, DevicesStay DEF ClearCache, EncoderInv
<1> QED BY <1>2, <1>3, <1>4, <1>5, EncodeInv DEF EncoderNext

LEMMA EncoderInvIsComplete == EncoderInv => EncodingIsComplete
<1> SUFFICES ASSUME BatchInv PROVE EncodingIsComplete
    BY DEF EncoderInv
<1>1. DOMAIN batch.rows = 1..Len(batch.rows) /\ Len(batch.rows) \in Nat /\ Len(batch.items) \in Nat
    BY DEF BatchInv
<1>2. \A n \in DOMAIN batch.rows : batch.rows[n] = Row(n) /\ batch.items[n] \in Nat
    BY <1>1 DEF BatchInv
<1>3. \A n : Row(n).of = n /\ (batch.kind = "text" => Row(n).pieces = PiecesOf(batch.items[n]))
    BY DEF Row
<1>4. batch.kind = "text" => \A n \in DOMAIN batch.rows : Complete(batch.items[n], batch.rows[n].pieces)
    <2> SUFFICES ASSUME batch.kind = "text", NEW n \in DOMAIN batch.rows
                 PROVE  Complete(batch.items[n], batch.rows[n].pieces)
        OBVIOUS
    <2>1. n \in DOMAIN batch.items
        BY <1>1 DEF BatchInv
    <2>2. Loses(batch.items[n])
        BY <2>1 DEF BatchInv, TextsLose
    <2> QED BY <1>2, <1>3, <2>2, PiecesAreComplete
<1>5. (batch.step = "done" => Len(batch.rows) = Len(batch.items)) /\ (batch.step = "failed" => batch.rows = <<>>)
    BY DEF BatchInv
<1> QED BY <1>2, <1>3, <1>4, <1>5 DEF EncodingIsComplete, Complete

-----------------------------------------------------------------------------
(* FrameSampling.  Up to its target the loop has picked a nearest frame for *)
(* every point in time, of all frames and not only of those decoded so far. *)

NearestTo(x, f) == \A g \in Timed : Distance(Time(f), x) <= Distance(Time(g), x)
TimedSoFar == Timed \cap 1..decoded

LoopInv ==
    /\ decoded \in 0..Len(recording.times)
    /\ sampler \in [previous : Nat, target : Nat, last : Nat]
    /\ periodic \subseteq Timed
    /\ sampler.last \in {0} \cup periodic
    /\ sampler.target % recording.interval = 0
    /\ TimedSoFar = {} => sampler.previous = 0
    /\ TimedSoFar # {} =>
           /\ sampler.previous \in TimedSoFar
           /\ \A g \in TimedSoFar : g <= sampler.previous
           /\ Time(sampler.previous) < sampler.target
    /\ \A x \in Nat : x < sampler.target /\ x % recording.interval = 0 =>
           \E f \in periodic : NearestTo(x, f)

Represented(f) == \E g \in kept : g <= f /\ (g = f \/ Alike(f, g))

SampleInv ==
    /\ recording \in Recordings
    /\ LoopInv
    /\ sampling \in {"decode", "filter", "done", "failed"}
    /\ sampling \in {"filter", "done"} =>
           /\ decoded = Len(recording.times)
           /\ Timed # {}
           /\ shielded \subseteq Timed
           /\ DOMAIN sample = periodic \cup shielded
           /\ \A f \in shielded : "shot" \in sample[f].reason
           /\ \A i \in Shots : InWindow(recording.shots[i]) # {} =>
                  \E f \in shielded : f \in InWindow(recording.shots[i])
    /\ sampling = "done" => shielded \subseteq kept /\ \A f \in DOMAIN sample : Represented(f)

LEMMA RecordingFacts ==
    ASSUME recording \in Recordings
    PROVE  /\ Len(recording.times) \in Nat /\ DOMAIN recording.times = 1..Len(recording.times)
           /\ \A f \in Timed : f \in 1..Len(recording.times) /\ Time(f) \in Int
           /\ \A f, g \in Timed : f <= g => Time(f) <= Time(g)
           /\ recording.interval \in Nat \ {0}
<1> DEFINE times == recording.times
<1>1. times \in Seq(Int \cup {NoTime})
    BY RecordingAssumption
<1>2. Len(times) \in Nat /\ DOMAIN times = 1..Len(times)
    BY <1>1
<1>3. \A f \in 1..Len(times) : times[f] \in Int \cup {NoTime}
    BY <1>1
<1>4. \A f, g \in DOMAIN times : f < g /\ NoTime \notin {times[f], times[g]} => times[f] <= times[g]
    BY RecordingAssumption
<1> HIDE DEF times
<1>5. Timed = {f \in DOMAIN times : times[f] # NoTime} /\ \A f : Time(f) = times[f]
    BY DEF Timed, Time, times
<1>6. \A f \in Timed : f \in 1..Len(times) /\ Time(f) \in Int
    BY <1>2, <1>3, <1>5
<1>7. \A f, g \in Timed : f <= g => Time(f) <= Time(g)
    <2> SUFFICES ASSUME NEW f \in Timed, NEW g \in Timed, f <= g PROVE Time(f) <= Time(g)
        OBVIOUS
    <2>1. CASE f = g
        BY <1>6, <2>1
    <2>2. CASE f # g
        <3>1. f < g
            BY <1>2, <1>6, <2>2
        <3> QED BY <1>4, <1>5, <3>1
    <2> QED BY <2>1, <2>2
<1>8. recording.interval \in Nat \ {0}
    BY RecordingAssumption
<1> QED BY <1>2, <1>6, <1>7, <1>8 DEF times

LEMMA NearestIsRight ==
    ASSUME recording \in Recordings, NEW before \in Timed, NEW f \in Timed, NEW x \in Int,
           before <= f, x <= Time(f), before # f => Time(before) < x,
           \A g \in Timed : g <= before \/ f <= g,
           before = f => \A g \in Timed : f <= g
    PROVE  /\ Nearest(x, before, f) \in {before, f}
           /\ NearestTo(x, Nearest(x, before, f))
<1>1. \A g \in Timed : g \in Nat /\ Time(g) \in Int
    BY RecordingFacts
<1>2. \A g, h \in Timed : g <= h => Time(g) <= Time(h)
    BY RecordingFacts
<1>3. Nearest(x, before, f) \in {before, f}
    BY DEF Nearest
<1>4. ASSUME NEW g \in Timed
      PROVE  Distance(Time(Nearest(x, before, f)), x) <= Distance(Time(g), x)
    <2>1. Time(g) \in Int /\ Time(f) \in Int /\ Time(before) \in Int
        BY <1>1
    <2>2. CASE f <= g
        <3>1. Time(f) <= Time(g)
            BY <1>2, <2>2
        <3>2. Distance(Time(f), x) <= Distance(Time(g), x)
            BY <2>1, <3>1 DEF Distance
        <3>3. Distance(Time(Nearest(x, before, f)), x) <= Distance(Time(f), x)
            BY <2>1 DEF Distance, Nearest
        <3> QED BY <1>3, <2>1, <3>2, <3>3 DEF Distance
    <2>3. CASE ~(f <= g)
        <3>1. g <= before /\ before # f
            BY <2>3
        <3>2. Time(g) <= Time(before) /\ Time(before) < x
            BY <1>2, <3>1
        <3>3. Distance(Time(before), x) <= Distance(Time(g), x)
            BY <2>1, <3>2 DEF Distance
        <3>4. Distance(Time(Nearest(x, before, f)), x) <= Distance(Time(before), x)
            BY <2>1 DEF Distance, Nearest
        <3> QED BY <1>3, <2>1, <3>3, <3>4 DEF Distance
    <2> QED BY <2>2, <2>3
<1> QED BY <1>3, <1>4 DEF NearestTo

\* The points in time that a frame makes due, and the target it leaves.
LEMMA DueFacts ==
    ASSUME recording \in Recordings, NEW f \in Timed,
           sampler.target \in Nat, sampler.target % recording.interval = 0
    PROVE  /\ Due(f) \in SUBSET Nat
           /\ \A x \in Due(f) : x <= Time(f) /\ sampler.target <= x /\ x % recording.interval = 0
           /\ Due(f) = {} => Time(f) < sampler.target
           /\ \A x \in Nat : sampler.target <= x /\ x <= Time(f) /\ x % recording.interval = 0 => x \in Due(f)
<1> DEFINE d == recording.interval
           t == sampler.target
<1>1. d \in Nat \ {0} /\ t \in Nat /\ t % d = 0 /\ Time(f) \in Int
    BY RecordingFacts
<1>2. Due(f) = {x \in t..Time(f) : (x - t) % d = 0}
    BY DEF Due
<1> HIDE DEF d, t
<1>3. Due(f) \in SUBSET Nat
    BY <1>1, <1>2
<1>4. \A x \in Due(f) : x <= Time(f) /\ t <= x
    BY <1>1, <1>2
<1>5. ASSUME NEW x \in Due(f) PROVE x % d = 0
    <2>1. x \in Nat /\ t <= x /\ (x - t) % d = 0
        BY <1>2, <1>3, <1>4
    <2>2. x % d = 0 <=> (x - t) % d = 0
        BY <1>1, <2>1, Multiples
    <2> QED BY <2>1, <2>2, Zenon
<1>6. ASSUME NEW x \in Nat, t <= x, x <= Time(f), x % d = 0 PROVE x \in Due(f)
    <2>1. x % d = 0 <=> (x - t) % d = 0
        BY <1>1, <1>6, Multiples
    <2>2. (x - t) % d = 0
        BY <1>6, <2>1, Zenon
    <2>3. x \in t..Time(f)
        BY <1>1, <1>6
    <2> QED BY <1>2, <2>2, <2>3
<1>7. Due(f) = {} => Time(f) < t
    BY <1>1, <1>6
<1> QED BY <1>3, <1>4, <1>5, <1>6, <1>7 DEF d, t

NextTarget(f) == IF Due(f) = {} THEN sampler.target ELSE Max(Due(f)) + recording.interval

LEMMA NextTargetFacts ==
    ASSUME recording \in Recordings, NEW f \in Timed,
           sampler.target \in Nat, sampler.target % recording.interval = 0
    PROVE  /\ NextTarget(f) \in Nat /\ NextTarget(f) % recording.interval = 0
           /\ sampler.target <= NextTarget(f) /\ Time(f) < NextTarget(f)
           /\ \A x \in Nat : x < NextTarget(f) /\ x % recording.interval = 0 => x < sampler.target \/ x \in Due(f)
<1> DEFINE d == recording.interval
           t == sampler.target
           m == Max(Due(f))
<1>1. d \in Nat \ {0} /\ t \in Nat /\ t % d = 0 /\ Time(f) \in Int
    BY RecordingFacts
<1>2. /\ Due(f) \in SUBSET Nat
      /\ \A x \in Due(f) : x <= Time(f) /\ t <= x /\ x % d = 0
      /\ Due(f) = {} => Time(f) < t
      /\ \A x \in Nat : t <= x /\ x <= Time(f) /\ x % d = 0 => x \in Due(f)
    BY DueFacts
<1>3. NextTarget(f) = IF Due(f) = {} THEN t ELSE m + d
    BY DEF NextTarget
<1>4. ASSUME Due(f) # {} PROVE m \in Due(f) /\ \A x \in Due(f) : x <= m
    <2>1. \A x \in Due(f) : x <= Time(f)
        BY <1>2
    <2>2. Time(f) \in Nat
        <3> HIDE DEF d, t, m
        <3> QED BY <1>1, <1>2, <1>4
    <2> QED BY <1>2, <1>4, <2>1, <2>2, MaxOfNumbers
<1> HIDE DEF d, t, m
<1>5. CASE Due(f) = {}
    <2>1. \A x \in Nat : x < t => x < t \/ x \in Due(f)
        OBVIOUS
    <2> QED BY <1>1, <1>2, <1>3, <1>5, <2>1 DEF d, t
<1>6. CASE Due(f) # {}
    <2>1. m \in Nat /\ t <= m /\ m <= Time(f) /\ m % d = 0
        BY <1>2, <1>4, <1>6
    <2>2. m + d \in Nat /\ t <= m + d /\ m <= m + d /\ m < m + d
        BY <1>1, <2>1
    <2>3. (m + d) % d = 0
        BY <1>1, <2>1, NextMultiple
    <2>4. Time(f) < m + d
        <3>1. ~(m + d \in Due(f))
            BY <1>1, <1>4, <1>6, <2>1
        <3>2. ~(m + d <= Time(f))
            BY <1>2, <2>2, <2>3, <3>1
        <3> QED BY <1>1, <2>2, <3>2
    <2>5. ASSUME NEW x \in Nat, x < m + d, x % d = 0 PROVE x < t \/ x \in Due(f)
        <3>1. x <= m
            BY <1>1, <2>1, <2>5, NoMultipleBetween
        <3>2. x <= Time(f)
            BY <1>1, <2>1, <3>1
        <3>3. t <= x => x \in Due(f)
            BY <1>2, <2>5, <3>2
        <3> QED BY <1>1, <3>3
    <2> QED BY <1>3, <1>6, <2>2, <2>3, <2>4, <2>5 DEF d, t
<1> QED BY <1>5, <1>6

LEMMA SampleInvInit == SampleInit => SampleInv
<1> SUFFICES ASSUME SampleInit PROVE SampleInv
    OBVIOUS
<1> USE DEF SampleInit
<1>1. recording \in Recordings
    OBVIOUS
<1>2. Len(recording.times) \in Nat /\ recording.interval \in Nat \ {0}
    BY <1>1, RecordingFacts
<1>3. TimedSoFar = {}
    BY DEF TimedSoFar
<1>4. 0 % recording.interval = 0
    BY <1>2
<1>5. LoopInv
    BY <1>2, <1>3, <1>4 DEF LoopInv
<1> QED BY <1>1, <1>5 DEF SampleInv

FrameBefore(f) == IF sampler.previous = 0 THEN f ELSE sampler.previous
Picks(f) == {Nearest(x, FrameBefore(f), f) : x \in Due(f)} \ {sampler.last}

\* What a frame with a time yields: a nearest frame for every point it makes due.
LEMMA PicksAreRight ==
    ASSUME recording \in Recordings, LoopInv, decoded + 1 \in Timed
    PROVE  /\ Picks(decoded + 1) \subseteq Timed
           /\ \A x \in Due(decoded + 1) : \E g \in periodic \cup Picks(decoded + 1) : NearestTo(x, g)
<1> DEFINE f == decoded + 1
           b == FrameBefore(f)
<1>1. decoded \in Nat /\ f \in Nat /\ f \in Timed
    BY RecordingFacts DEF LoopInv
<1>2. \A g \in Timed : g \in Nat /\ 1 <= g /\ Time(g) \in Int
    BY RecordingFacts
<1>3. ASSUME NEW g \in Timed, g < f PROVE g \in TimedSoFar
    <2>1. g \in 1..decoded
        BY <1>1, <1>2, <1>3
    <2> QED BY <2>1 DEF TimedSoFar
<1>4. TimedSoFar = {} => b = f
    BY DEF FrameBefore, LoopInv
<1>5. TimedSoFar # {} => b \in TimedSoFar /\ b < f /\ Time(b) < sampler.target /\ \A g \in TimedSoFar : g <= b
    <2> SUFFICES ASSUME TimedSoFar # {} PROVE b \in TimedSoFar /\ b < f /\ Time(b) < sampler.target /\ \A g \in TimedSoFar : g <= b
        OBVIOUS
    <2>1. /\ sampler.previous \in TimedSoFar
          /\ \A g \in TimedSoFar : g <= sampler.previous
          /\ Time(sampler.previous) < sampler.target
        BY DEF LoopInv
    <2>2. sampler.previous \in Timed /\ sampler.previous \in 1..decoded
        BY <2>1 DEF TimedSoFar
    <2>3. b = sampler.previous /\ b < f
        BY <1>1, <2>2 DEF FrameBefore
    <2> QED BY <2>1, <2>3
<1> HIDE DEF f, b
<1>6. b \in Timed /\ b <= f
    BY <1>1, <1>4, <1>5 DEF TimedSoFar
<1>7. \A g \in Timed : g <= b \/ f <= g
    <2> SUFFICES ASSUME NEW g \in Timed, ~(f <= g) PROVE g <= b
        OBVIOUS
    <2>1. g \in TimedSoFar
        BY <1>1, <1>2, <1>3
    <2> QED BY <1>5, <2>1
<1>8. b = f => \A g \in Timed : f <= g
    <2> SUFFICES ASSUME b = f, NEW g \in Timed, ~(f <= g) PROVE FALSE
        OBVIOUS
    <2>1. g \in TimedSoFar
        BY <1>1, <1>2, <1>3
    <2> QED BY <1>1, <1>5, <2>1
<1>9. /\ Due(f) \in SUBSET Nat
      /\ \A x \in Due(f) : x <= Time(f) /\ sampler.target <= x
    <2>1. sampler.target \in Nat /\ sampler.target % recording.interval = 0
        BY DEF LoopInv
    <2> QED BY <1>1, <2>1, DueFacts
<1>10. ASSUME NEW x \in Due(f)
       PROVE  Nearest(x, b, f) \in Timed /\ NearestTo(x, Nearest(x, b, f))
    <2>1. x \in Int /\ x <= Time(f) /\ sampler.target <= x
        BY <1>9
    <2>2. b # f => Time(b) < x
        <3> SUFFICES ASSUME b # f PROVE Time(b) < x
            OBVIOUS
        <3>1. Time(b) < sampler.target
            BY <1>4, <1>5
        <3>2. Time(b) \in Int /\ sampler.target \in Int
            BY <1>2, <1>6 DEF LoopInv
        <3> QED BY <2>1, <3>1, <3>2
    <2>3. Nearest(x, b, f) \in {b, f} /\ NearestTo(x, Nearest(x, b, f))
        BY <1>1, <1>6, <1>7, <1>8, <2>1, <2>2, NearestIsRight
    <2> QED BY <1>1, <1>6, <2>3
<1>11. Picks(f) = {Nearest(x, b, f) : x \in Due(f)} \ {sampler.last}
    BY DEF Picks, b
<1>12. Picks(f) \subseteq Timed
    BY <1>10, <1>11
<1>13. ASSUME NEW x \in Due(f) PROVE \E g \in periodic \cup Picks(f) : NearestTo(x, g)
    <2> DEFINE n == Nearest(x, b, f)
    <2>1. n \in Timed /\ NearestTo(x, n)
        BY <1>10
    <2>2. n \in Picks(f) \/ n = sampler.last
        BY <1>11
    <2> HIDE DEF n
    <2>3. sampler.last \in {0} \cup periodic
        BY DEF LoopInv
    <2>4. n # 0
        BY <1>2, <2>1
    <2> QED BY <2>1, <2>2, <2>3, <2>4
<1> QED BY <1>12, <1>13 DEF f

LEMMA DecodeKeepsLoopInv ==
    ASSUME recording \in Recordings, LoopInv, DecodeFrame
    PROVE  LoopInv'
<1> DEFINE f == decoded + 1
<1>1. decoded \in 0..Len(recording.times) /\ f \in 0..Len(recording.times) /\ decoded \in Nat
    BY RecordingFacts DEF LoopInv, DecodeFrame
<1>2. recording' = recording /\ decoded' = f
    BY DEF DecodeFrame
<1>3. Timed' = Timed /\ \A g : Time(g)' = Time(g)
    BY <1>2 DEF Timed, Time
<1>4. \A x, g : NearestTo(x, g)' <=> NearestTo(x, g)
    BY <1>3 DEF NearestTo
<1>5. \A g \in Timed : g \in Nat /\ 1 <= g /\ Time(g) \in Int
    BY RecordingFacts
<1>6. TimedSoFar' = Timed \cap 1..f
    BY <1>2, <1>3 DEF TimedSoFar
<1>7. CASE f \notin Timed
    <2>1. sampler' = sampler /\ periodic' = periodic
        BY <1>7 DEF DecodeFrame
    <2>2. TimedSoFar' = TimedSoFar
        BY <1>1, <1>5, <1>6, <1>7 DEF TimedSoFar
    <2> QED BY <1>1, <1>2, <1>3, <1>4, <2>1, <2>2 DEF LoopInv
<1>8. CASE f \in Timed
    <2>1. /\ periodic' = periodic \cup Picks(f)
          /\ sampler' = [previous |-> f, target |-> NextTarget(f),
                         last |-> IF Picks(f) = {} THEN sampler.last ELSE Max(Picks(f))]
        BY <1>8 DEF DecodeFrame, Picks, NextTarget, FrameBefore
    <2>2. /\ Picks(f) \subseteq Timed
          /\ \A x \in Due(f) : \E g \in periodic \cup Picks(f) : NearestTo(x, g)
        BY <1>8, PicksAreRight
    <2>3. /\ NextTarget(f) \in Nat /\ NextTarget(f) % recording.interval = 0
          /\ sampler.target <= NextTarget(f) /\ Time(f) < NextTarget(f)
          /\ \A x \in Nat : x < NextTarget(f) /\ x % recording.interval = 0 => x < sampler.target \/ x \in Due(f)
        <3>1. sampler.target \in Nat /\ sampler.target % recording.interval = 0
            BY DEF LoopInv
        <3> QED BY <1>8, <3>1, NextTargetFacts
    <2> DEFINE last == IF Picks(f) = {} THEN sampler.last ELSE Max(Picks(f))
    <2>4. last \in {0} \cup (periodic \cup Picks(f)) /\ last \in Nat
        <3>1. sampler.last \in {0} \cup periodic /\ sampler.last \in Nat
            BY DEF LoopInv
        <3>2. Picks(f) # {} => Max(Picks(f)) \in Picks(f) /\ Max(Picks(f)) \in Nat
            <4>1. Picks(f) \in SUBSET Nat /\ \A g \in Picks(f) : g <= Len(recording.times)
                BY <2>2, RecordingFacts
            <4>2. Len(recording.times) \in Nat
                BY RecordingFacts
            <4> QED BY <4>1, <4>2, MaxOfNumbers
        <3> QED BY <3>1, <3>2
    <2>5. sampler'.previous = f /\ sampler'.target = NextTarget(f) /\ sampler'.last = last
        BY <2>1
    <2>6. sampler' \in [previous : Nat, target : Nat, last : Nat]
        <3>1. f \in Nat
            BY <1>1
        <3> HIDE DEF f, last
        <3> QED BY <2>1, <2>3, <2>4, <3>1 DEF last
    <2> HIDE DEF f, last
    <2>7. periodic' \subseteq Timed'
        BY <1>3, <2>1, <2>2 DEF LoopInv
    <2>8. f \in TimedSoFar' /\ \A g \in TimedSoFar' : g <= f
        BY <1>1, <1>5, <1>6, <1>8
    <2>9. (\A x \in Nat : x < sampler.target /\ x % recording.interval = 0 => \E g \in periodic : NearestTo(x, g))'
        <3> SUFFICES ASSUME NEW x \in Nat, x < NextTarget(f), x % recording.interval = 0
                     PROVE  \E g \in periodic \cup Picks(f) : NearestTo(x, g)
            BY <1>2, <1>4, <2>1, <2>5
        <3>1. CASE x < sampler.target
            BY <3>1 DEF LoopInv
        <3>2. CASE x \in Due(f)
            BY <2>2, <3>2
        <3> QED BY <2>3, <3>1, <3>2
    <2>10. (/\ TimedSoFar = {} => sampler.previous = 0
            /\ TimedSoFar # {} =>
                   /\ sampler.previous \in TimedSoFar
                   /\ \A g \in TimedSoFar : g <= sampler.previous
                   /\ Time(sampler.previous) < sampler.target)'
        BY <1>3, <2>3, <2>5, <2>8
    <2>11. (decoded \in 0..Len(recording.times))'
        BY <1>1, <1>2
    <2>12. (sampler.last \in {0} \cup periodic /\ sampler.target % recording.interval = 0)'
        BY <1>2, <2>1, <2>3, <2>4, <2>5
    <2> QED BY <2>6, <2>7, <2>9, <2>10, <2>11, <2>12 DEF LoopInv
<1> QED BY <1>7, <1>8

\* A shot that has frames has its middle among them.
LEMMA MidpointIsInTheShot ==
    ASSUME recording \in Recordings, NEW i \in DOMAIN recording.shots, InWindow(recording.shots[i]) # {}
    PROVE  Midpoint(recording.shots[i]) \in InWindow(recording.shots[i])
<1> DEFINE shot == recording.shots[i]
           W == InWindow(shot)
           Off(f) == Distance(2 * Time(f), shot[1] + shot[2])
           nearest == {f \in W : \A g \in W : Off(f) <= Off(g)}
<1>1. shot \in Int \X Int
    <2> DEFINE shots == recording.shots
    <2>1. shots \in Seq(Int \X Int)
        BY RecordingAssumption
    <2> HIDE DEF shots
    <2>2. i \in DOMAIN shots => shots[i] \in Int \X Int
        BY <2>1
    <2> QED BY <2>2 DEF shots
<1>2. Midpoint(shot) = Min(nearest)
    BY DEF Midpoint
<1>3. shot[1] + shot[2] \in Int
    BY <1>1
<1> HIDE DEF shot
<1>4. W \subseteq Timed
    BY DEF InWindow
<1>5. \A f \in Timed : f \in Nat /\ Time(f) \in Int
    BY RecordingFacts
<1>6. \A f \in W : Off(f) \in Nat
    BY <1>3, <1>4, <1>5 DEF Distance
<1> HIDE DEF Off, W
<1>7. PICK n \in {Off(f) : f \in W} : \A m \in {Off(f) : f \in W} : n <= m
    <2>1. {Off(f) : f \in W} \in SUBSET Nat /\ {Off(f) : f \in W} # {}
        BY <1>6 DEF W, shot
    <2> QED BY <2>1, LeastNumber
<1>8. nearest # {} /\ nearest \in SUBSET Nat
    BY <1>4, <1>5, <1>7
<1>9. Min(nearest) \in nearest
    <2> HIDE DEF nearest
    <2> QED BY <1>8, MinOfNumbers
<1> QED BY <1>2, <1>9 DEF shot, W

-----------------------------------------------------------------------------
(* Retained, unfolded: the frame that the next one is compared with.       *)

LastStep(S, f, l) == IF f \in S /\ (l = 0 \/ f \in shielded \/ ~Alike(f, l)) THEN f ELSE l
LastBody(S, g) ==
    [f \in 0..Len(recording.times) |->
        IF f = 0 THEN 0
        ELSE IF f \in S /\ (g[f - 1] = 0 \/ f \in shielded \/ ~Alike(f, g[f - 1])) THEN f
        ELSE g[f - 1]]
LastKept(S) == CHOOSE g : g = LastBody(S, g)

LEMMA RetainedIsLast == \A S : Retained(S) = {f \in S : LastKept(S)[f] = f}
BY DEF Retained, LastKept, LastBody

LEMMA LastExists ==
    ASSUME Len(recording.times) \in Nat, NEW S
    PROVE  \E g : g \in [0..Len(recording.times) -> 0..Len(recording.times)] /\ g = LastBody(S, g)
<1> DEFINE N == Len(recording.times)
           Sol(m, g) == /\ g \in [0..N -> 0..N]
                        /\ \A f \in 0..m : g[f] = IF f = 0 THEN 0 ELSE LastStep(S, f, g[f - 1])
           Bad == {m \in 0..N : ~\E g : Sol(m, g)}
<1>0. N \in Nat
    OBVIOUS
<1>1. Sol(0, [f \in 0..N |-> 0])
    BY <1>0
<1> HIDE DEF N
<1>2. Bad = {}
    <2> SUFFICES ASSUME Bad # {} PROVE FALSE
        OBVIOUS
    <2>1. PICK m \in Bad : \A k \in Bad : m <= k
        <3>1. Bad \in SUBSET Nat
            BY <1>0
        <3> HIDE DEF Bad
        <3> QED BY <3>1, LeastNumber
    <2>2. m # 0 /\ m \in 0..N /\ ~\E g : Sol(m, g)
        BY <1>1, <2>1
    <2>3. m - 1 \in 0..N /\ ~(m - 1 \in Bad)
        <3>1. m - 1 \in 0..N /\ ~(m <= m - 1)
            BY <1>0, <2>2
        <3> QED BY <2>1, <3>1
    <2>4. PICK g : Sol(m - 1, g)
        BY <2>3
    <2> DEFINE v == LastStep(S, m, g[m - 1])
               h == [g EXCEPT ![m] = v]
    <2>5. v \in 0..N
        <3>1. g[m - 1] \in 0..N
            BY <2>3, <2>4
        <3> QED BY <2>2, <3>1 DEF LastStep
    <2>6. h \in [0..N -> 0..N] /\ h[m] = v /\ \A f \in 0..N : f # m => h[f] = g[f]
        <3> HIDE DEF v
        <3> QED BY <2>2, <2>4, <2>5
    <2> HIDE DEF h
    <2>7. ASSUME NEW f \in 0..m PROVE h[f] = IF f = 0 THEN 0 ELSE LastStep(S, f, h[f - 1])
        <3>1. CASE f = 0
            <4>1. g[0] = 0 /\ h[0] = g[0]
                BY <1>0, <2>2, <2>4, <2>6
            <4> QED BY <3>1, <4>1
        <3>2. CASE f = m
            <4>1. h[m - 1] = g[m - 1]
                BY <2>2, <2>3, <2>6
            <4> QED BY <2>2, <2>6, <3>2, <4>1
        <3>3. CASE f # 0 /\ f # m
            <4>1. f \in 0..(m - 1) /\ f \in 0..N /\ f - 1 \in 0..N /\ f - 1 # m
                BY <1>0, <2>2, <3>3
            <4>2. h[f] = g[f] /\ h[f - 1] = g[f - 1]
                BY <2>6, <3>3, <4>1
            <4>3. g[f] = LastStep(S, f, g[f - 1])
                BY <2>4, <3>3, <4>1
            <4> QED BY <3>3, <4>2, <4>3
        <3> QED BY <3>1, <3>2, <3>3
    <2> QED BY <2>2, <2>6, <2>7
<1>3. PICK g : Sol(N, g)
    <2>1. N \in 0..N
        BY <1>0
    <2>2. N \notin Bad
        <3> HIDE DEF Bad
        <3> QED BY <1>2
    <2> HIDE DEF Sol
    <2> QED BY <2>1, <2>2
<1>4. g = [f \in 0..N |-> IF f = 0 THEN 0 ELSE LastStep(S, f, g[f - 1])]
    BY <1>3
<1>5. g = LastBody(S, g)
    BY <1>4 DEF LastBody, LastStep, N
<1> QED BY <1>3, <1>5 DEF N

LEMMA LastUnfolded ==
    ASSUME Len(recording.times) \in Nat, NEW S
    PROVE  \A f \in 0..Len(recording.times) :
               LastKept(S)[f] = IF f = 0 THEN 0 ELSE LastStep(S, f, LastKept(S)[f - 1])
<1>1. LastKept(S) = LastBody(S, LastKept(S))
    <2>1. \E g : g = LastBody(S, g)
        BY LastExists
    <2> QED BY <2>1 DEF LastKept
<1>2. LastBody(S, LastKept(S)) = [f \in 0..Len(recording.times) |-> IF f = 0 THEN 0 ELSE LastStep(S, f, LastKept(S)[f - 1])]
    BY DEF LastBody, LastStep
<1> QED BY <1>1, <1>2

\* No frame is dropped but for a retained one before it that looks like it, and no
\* shielded one is dropped at all.
LEMMA RetainedKeepsEnough ==
    ASSUME Len(recording.times) \in Nat, NEW S, S \subseteq 1..Len(recording.times)
    PROVE  /\ shielded \cap S \subseteq Retained(S)
           /\ \A f \in S : \E g \in Retained(S) : g <= f /\ (g = f \/ Alike(f, g))
<1> DEFINE N == Len(recording.times)
           last == LastKept(S)
           Good(f) == last[f] = 0 \/ (last[f] \in S /\ last[f] <= f /\ last[last[f]] = last[f])
           Bad == {f \in 0..N : ~Good(f)}
<1>1. N \in Nat /\ \A f \in 0..N : last[f] = IF f = 0 THEN 0 ELSE LastStep(S, f, last[f - 1])
    BY LastUnfolded
<1>2. Retained(S) = {f \in S : last[f] = f}
    BY RetainedIsLast
<1>3. S \subseteq 1..N
    OBVIOUS
<1> HIDE DEF N, last
<1>4. \A f \in 1..N : last[f] = LastStep(S, f, last[f - 1]) /\ f - 1 \in 0..N /\ f \in 0..N
    BY <1>1
<1>5. ASSUME NEW f \in S
      PROVE  \/ last[f] = f
             \/ last[f] = last[f - 1] /\ last[f - 1] # 0 /\ f \notin shielded /\ Alike(f, last[f - 1])
    BY <1>3, <1>4 DEF LastStep
<1>6. Bad = {}
    <2> SUFFICES ASSUME Bad # {} PROVE FALSE
        OBVIOUS
    <2>1. PICK f \in Bad : \A k \in Bad : f <= k
        <3>1. Bad \in SUBSET Nat
            BY <1>1
        <3> HIDE DEF Bad
        <3> QED BY <3>1, LeastNumber
    <2>2. f \in 0..N /\ ~Good(f)
        BY <2>1
    <2>3. f # 0
        BY <1>1, <2>2
    <2>4. f \in 1..N /\ f - 1 \in 0..N /\ ~(f <= f - 1)
        BY <1>1, <2>2, <2>3
    <2>5. Good(f - 1)
        BY <2>1, <2>4
    <2>6. last[f] = f \/ last[f] = last[f - 1]
        BY <1>4, <2>4 DEF LastStep
    <2>7. CASE last[f] = f
        <3>1. f \in S \/ last[f] = last[f - 1]
            BY <1>4, <2>4 DEF LastStep
        <3>2. f \in S => Good(f)
            BY <1>1, <2>4, <2>7
        <3>3. last[f] = last[f - 1] => Good(f)
            BY <1>1, <1>3, <2>4, <2>5, <2>7
        <3> QED BY <2>2, <3>1, <3>2, <3>3
    <2>8. CASE last[f] = last[f - 1]
        <3>1. last[f] = 0 \/ (last[f] \in S /\ last[f] <= f - 1 /\ last[last[f]] = last[f])
            BY <2>5, <2>8
        <3>2. last[f] \in S => last[f] \in 1..N
            BY <1>3
        <3>3. last[f] \in S /\ last[f] <= f - 1 => last[f] <= f
            BY <1>1, <2>4, <3>2
        <3> QED BY <2>2, <3>1, <3>3
    <2> QED BY <2>6, <2>7, <2>8
<1>7. ASSUME NEW f \in S PROVE \E g \in Retained(S) : g <= f /\ (g = f \/ Alike(f, g))
    <2>1. f \in 1..N /\ f - 1 \in 0..N /\ f \in 0..N
        BY <1>3, <1>4
    <2>2. CASE last[f] = f
        BY <1>1, <1>2, <2>1, <2>2
    <2>3. CASE last[f] = last[f - 1] /\ last[f - 1] # 0 /\ Alike(f, last[f - 1])
        <3>1. Good(f)
            BY <1>6, <2>1
        <3>2. last[f] \in S /\ last[f] <= f /\ last[last[f]] = last[f]
            BY <2>3, <3>1
        <3> QED BY <1>2, <2>3, <3>2
    <2> QED BY <1>5, <2>2, <2>3
<1>8. shielded \cap S \subseteq Retained(S)
    BY <1>2, <1>5
<1> QED BY <1>7, <1>8

-----------------------------------------------------------------------------
LEMMA SampleInvNext == SampleInv /\ SampleNext => SampleInv'
<1> SUFFICES ASSUME SampleInv, SampleNext PROVE SampleInv'
    OBVIOUS
<1>1. recording \in Recordings /\ recording' = recording /\ LoopInv
    BY DEF SampleInv, SampleNext, DecodeFrame, EndOfVideo, FilterFrames
<1>2. Timed' = Timed /\ \A g : Time(g)' = Time(g)
    BY <1>1 DEF Timed, Time
<1>3. Shots' = Shots /\ \A i : InWindow(recording.shots[i])' = InWindow(recording.shots[i])
    BY <1>1, <1>2 DEF Shots, Valid, InWindow
<1>4. \A f, g : Alike(f, g)' <=> Alike(f, g)
    BY <1>1 DEF Alike
<1>5. CASE DecodeFrame
    <2>1. LoopInv'
        BY <1>1, <1>5, DecodeKeepsLoopInv
    <2>2. sampling' = "decode"
        BY <1>5 DEF DecodeFrame
    <2> QED BY <1>1, <2>1, <2>2 DEF SampleInv
<1>6. ASSUME UNCHANGED <<decoded, sampler, periodic>> PROVE LoopInv'
    <2>1. TimedSoFar' = TimedSoFar /\ \A x, g : NearestTo(x, g)' <=> NearestTo(x, g)
        BY <1>2, <1>6 DEF TimedSoFar, NearestTo
    <2> QED BY <1>1, <1>2, <1>6, <2>1 DEF LoopInv
<1>7. CASE EndOfVideo
    <2>1. LoopInv'
        BY <1>6, <1>7 DEF EndOfVideo
    <2>2. CASE Timed = {}
        <3>1. sampling' = "failed"
            BY <1>7, <2>2 DEF EndOfVideo
        <3> QED BY <1>1, <2>1, <3>1 DEF SampleInv
    <2>3. CASE Timed # {}
        <3>1. sampling' = "filter" /\ decoded = Len(recording.times) /\ decoded' = decoded
            BY <1>7, <2>3 DEF EndOfVideo
        <3>2. shielded' = {f \in Timed : ShotsAt(f) # {}} /\ periodic' = periodic
            BY <1>7, <2>3 DEF EndOfVideo
        <3>3. \E r : sample' = [f \in periodic \cup shielded' |->
                  [reason |-> (IF f \in periodic THEN {"periodic"} ELSE {}) \cup (IF f \in shielded' THEN {"shot"} ELSE {}),
                   shot   |-> r[f]]]
            <4>1. sample' = [f \in periodic \cup shielded' |->
                    [reason |-> (IF f \in periodic THEN {"periodic"} ELSE {}) \cup (IF f \in shielded' THEN {"shot"} ELSE {}),
                     shot   |-> IF f \in shielded' THEN Max(ShotsAt(f)) ELSE 0]]
                BY <1>7, <2>3 DEF EndOfVideo
            <4> DEFINE r == [f \in periodic \cup shielded' |-> IF f \in shielded' THEN Max(ShotsAt(f)) ELSE 0]
            <4>2. \A f \in periodic \cup shielded' : r[f] = IF f \in shielded' THEN Max(ShotsAt(f)) ELSE 0
                OBVIOUS
            <4> HIDE DEF r
            <4> QED BY <4>1, <4>2
        <3>4. DOMAIN sample' = periodic \cup shielded' /\ \A f \in shielded' : "shot" \in sample'[f].reason
            BY <3>3
        <3>5. ASSUME NEW i \in Shots, InWindow(recording.shots[i]) # {}
              PROVE  \E f \in shielded' : f \in InWindow(recording.shots[i])
            <4> DEFINE m == Midpoint(recording.shots[i])
            <4>1. i \in DOMAIN recording.shots
                BY DEF Shots
            <4>2. m \in InWindow(recording.shots[i])
                BY <1>1, <3>5, <4>1, MidpointIsInTheShot
            <4>3. i \in ShotsAt(m)
                BY DEF ShotsAt
            <4>4. m \in Timed
                BY <4>2 DEF InWindow
            <4> HIDE DEF m
            <4> QED BY <3>2, <4>2, <4>3, <4>4
        <3>6. shielded' \subseteq Timed'
            BY <1>2, <3>2
        <3> QED BY <1>1, <1>2, <1>3, <2>1, <2>3, <3>1, <3>2, <3>4, <3>5, <3>6 DEF SampleInv
    <2> QED BY <2>2, <2>3
<1>8. CASE FilterFrames
    <2>1. LoopInv'
        BY <1>6, <1>8 DEF FilterFrames
    <2>2. /\ sampling = "filter" /\ sampling' = "done"
          /\ kept' = IF recording.dedup THEN Retained(DOMAIN sample) ELSE DOMAIN sample
          /\ UNCHANGED <<decoded, sampler, periodic, sample, shielded>>
        BY <1>8 DEF FilterFrames
    <2>3. /\ decoded = Len(recording.times)
          /\ Timed # {}
          /\ shielded \subseteq Timed
          /\ DOMAIN sample = periodic \cup shielded
          /\ \A f \in shielded : "shot" \in sample[f].reason
          /\ \A i \in Shots : InWindow(recording.shots[i]) # {} =>
                 \E f \in shielded : f \in InWindow(recording.shots[i])
        BY <2>2 DEF SampleInv
    <2>4. /\ shielded \cap DOMAIN sample \subseteq kept'
          /\ \A f \in DOMAIN sample : \E g \in kept' : g <= f /\ (g = f \/ Alike(f, g))
        <3>1. DOMAIN sample \subseteq 1..Len(recording.times) /\ Len(recording.times) \in Nat
            BY <1>1, <2>3, RecordingFacts DEF LoopInv
        <3>2. /\ shielded \cap DOMAIN sample \subseteq Retained(DOMAIN sample)
              /\ \A f \in DOMAIN sample : \E g \in Retained(DOMAIN sample) : g <= f /\ (g = f \/ Alike(f, g))
            BY <3>1, RetainedKeepsEnough
        <3>3. CASE recording.dedup
            BY <2>2, <3>2, <3>3
        <3>4. CASE ~recording.dedup
            <4>1. kept' = DOMAIN sample
                BY <2>2, <3>4
            <4>2. \A f \in DOMAIN sample : f <= f
                BY <3>1
            <4> QED BY <4>1, <4>2
        <3> QED BY <3>3, <3>4
    <2>5. (shielded \subseteq kept /\ \A f \in DOMAIN sample : Represented(f))'
        BY <1>4, <2>2, <2>3, <2>4 DEF Represented
    <2> QED BY <1>1, <1>2, <1>3, <2>1, <2>2, <2>3, <2>5 DEF SampleInv
<1> QED BY <1>5, <1>7, <1>8 DEF SampleNext

LEMMA SampleStutter == SampleInv /\ UNCHANGED sampleVars => SampleInv'
<1> SUFFICES ASSUME SampleInv, UNCHANGED sampleVars PROVE SampleInv'
    OBVIOUS
<1>1. Timed' = Timed /\ \A g : Time(g)' = Time(g)
    BY DEF Timed, Time, sampleVars
<1>2. Shots' = Shots /\ \A i : InWindow(recording.shots[i])' = InWindow(recording.shots[i])
    BY <1>1 DEF Shots, Valid, InWindow, sampleVars
<1>3. \A f : Represented(f)' <=> Represented(f)
    BY DEF Represented, Alike, sampleVars
<1>4. TimedSoFar' = TimedSoFar /\ \A x, g : NearestTo(x, g)' <=> NearestTo(x, g)
    BY <1>1 DEF TimedSoFar, NearestTo, sampleVars
<1>5. LoopInv'
    BY <1>1, <1>4 DEF LoopInv, SampleInv, sampleVars
<1> QED BY <1>1, <1>2, <1>3, <1>5 DEF SampleInv, sampleVars

LEMMA SampleInvCovers == SampleInv => SamplesCoverTheVideo
<1> SUFFICES ASSUME SampleInv, sampling = "done"
             PROVE  /\ \A x \in 0..Time(Max(Timed)) : x % recording.interval = 0 =>
                           \E f \in DOMAIN sample : \A g \in Timed : Distance(Time(f), x) <= Distance(Time(g), x)
                    /\ \A i \in Shots : InWindow(recording.shots[i]) # {} =>
                           \E f \in kept \cap InWindow(recording.shots[i]) : "shot" \in sample[f].reason
                    /\ \A f \in DOMAIN sample : \E g \in kept : g <= f /\ (g = f \/ Alike(f, g))
    BY DEF SamplesCoverTheVideo
<1>1. /\ recording \in Recordings /\ LoopInv
      /\ decoded = Len(recording.times)
      /\ Timed # {}
      /\ shielded \subseteq Timed
      /\ DOMAIN sample = periodic \cup shielded
      /\ \A f \in shielded : "shot" \in sample[f].reason
      /\ \A i \in Shots : InWindow(recording.shots[i]) # {} =>
             \E f \in shielded : f \in InWindow(recording.shots[i])
      /\ shielded \subseteq kept /\ \A f \in DOMAIN sample : Represented(f)
    BY DEF SampleInv
<1>2. \A f \in Timed : f \in 1..Len(recording.times) /\ f \in Nat /\ f <= Len(recording.times) /\ Time(f) \in Int
    BY <1>1, RecordingFacts
<1>3. TimedSoFar = Timed
    BY <1>1, <1>2 DEF TimedSoFar
<1>4. Max(Timed) = sampler.previous /\ sampler.previous \in Timed
    <2>1. Max(Timed) \in Timed /\ \A g \in Timed : g <= Max(Timed)
        <3>1. Len(recording.times) \in Nat
            BY <1>1, RecordingFacts
        <3>2. Timed \in SUBSET Nat
            BY <1>2
        <3> QED BY <1>1, <1>2, <3>1, <3>2, MaxOfNumbers
    <2>2. sampler.previous \in Timed /\ \A g \in Timed : g <= sampler.previous
        BY <1>1, <1>3 DEF LoopInv
    <2>3. Max(Timed) \in Int /\ sampler.previous \in Int
        BY <1>2, <2>1, <2>2
    <2> QED BY <2>1, <2>2, <2>3
<1>5. Time(sampler.previous) < sampler.target /\ sampler.target \in Nat /\ Time(sampler.previous) \in Int
    BY <1>1, <1>2, <1>3, <1>4 DEF LoopInv
<1>6. ASSUME NEW x \in 0..Time(Max(Timed)), x % recording.interval = 0
      PROVE  \E f \in DOMAIN sample : \A g \in Timed : Distance(Time(f), x) <= Distance(Time(g), x)
    <2>1. x \in Nat /\ x < sampler.target
        BY <1>4, <1>5
    <2>2. PICK f \in periodic : NearestTo(x, f)
        BY <1>1, <1>6, <2>1 DEF LoopInv
    <2> QED BY <1>1, <2>2 DEF NearestTo
<1>7. ASSUME NEW i \in Shots, InWindow(recording.shots[i]) # {}
      PROVE  \E f \in kept \cap InWindow(recording.shots[i]) : "shot" \in sample[f].reason
    <2>1. PICK f \in shielded : f \in InWindow(recording.shots[i])
        BY <1>1, <1>7
    <2> QED BY <1>1, <2>1
<1>8. \A f \in DOMAIN sample : \E g \in kept : g <= f /\ (g = f \/ Alike(f, g))
    BY <1>1 DEF Represented
<1> QED BY <1>6, <1>7, <1>8

LEMMA SampleInvStep == SampleInv /\ [SampleNext]_sampleVars => SampleInv'
    BY SampleInvNext, SampleStutter

-----------------------------------------------------------------------------
(* The sharded indexes, ShardedSearch: one total order on finite sets,     *)
(* then what the operators of the model return, then the invariant.        *)

\* A total and transitive relation on a finite set has a greatest element.
LEMMA FiniteGreatest ==
    ASSUME NEW X, IsFiniteSet(X), X # {}, NEW R,
           \A x, y \in X : <<x, y>> \in R \/ <<y, x>> \in R,
           \A x, y, z \in X : <<x, y>> \in R /\ <<y, z>> \in R => <<x, z>> \in R
    PROVE  \E x \in X : \A y \in X : <<x, y>> \in R
<1>1. PICK n \in Nat : ExistsSurjection(1..n, X)
    BY FS_NatSurjection
<1>2. PICK f \in [1..n -> X] : \A x \in X : \E i \in 1..n : f[i] = x
    BY <1>1 DEF ExistsSurjection, Surjection
<1>3. n # 0
    BY <1>2
<1> DEFINE Good(k) == \E i \in 1..k : \A j \in 1..k : <<f[i], f[j]>> \in R
           Bad == {k \in 1..n : ~Good(k)}
<1>4. Bad = {}
    <2> SUFFICES ASSUME Bad # {} PROVE FALSE
        OBVIOUS
    <2>1. PICK k \in Bad : \A m \in Bad : k <= m
        <3>1. Bad \in SUBSET Nat
            OBVIOUS
        <3> HIDE DEF Bad
        <3> QED BY <3>1, LeastNumber
    <2>2. k \in 1..n /\ ~Good(k) /\ f[k] \in X
        BY <1>2, <2>1
    <2>3. CASE k = 1
        <3>1. <<f[1], f[1]>> \in R
            BY <2>2, <2>3
        <3> QED BY <2>2, <2>3, <3>1
    <2>4. CASE k # 1
        <3>1. k - 1 \in 1..n /\ ~(k <= k - 1)
            BY <2>2, <2>4
        <3>2. Good(k - 1)
            BY <2>1, <3>1
        <3>3. PICK i \in 1..(k - 1) : \A j \in 1..(k - 1) : <<f[i], f[j]>> \in R
            BY <3>2
        <3>4. i \in 1..k /\ i \in 1..n /\ f[i] \in X
            BY <1>2, <2>2, <3>1
        <3>5. CASE <<f[i], f[k]>> \in R
            <4>1. \A j \in 1..k : j = k \/ j \in 1..(k - 1)
                BY <2>2
            <4>2. \A j \in 1..k : <<f[i], f[j]>> \in R
                BY <3>3, <3>5, <4>1
            <4> QED BY <2>2, <3>4, <4>2
        <3>6. CASE <<f[k], f[i]>> \in R
            <4>1. \A j \in 1..k : j = k \/ j \in 1..(k - 1)
                BY <2>2
            <4>2. \A j \in 1..(k - 1) : f[j] \in X
                BY <1>2, <2>2
            <4>3. \A j \in 1..(k - 1) : <<f[k], f[j]>> \in R
                BY <2>2, <3>3, <3>4, <3>6, <4>2
            <4>4. <<f[k], f[k]>> \in R
                BY <2>2
            <4>5. \A j \in 1..k : <<f[k], f[j]>> \in R
                BY <4>1, <4>3, <4>4
            <4>6. k \in 1..k
                BY <2>2
            <4> QED BY <2>2, <4>5, <4>6
        <3> QED BY <2>2, <3>4, <3>5, <3>6
    <2> QED BY <2>3, <2>4
<1>5. n \in 1..n
    BY <1>1, <1>3
<1>6. Good(n)
    BY <1>4, <1>5
<1>7. PICK i \in 1..n : \A j \in 1..n : <<f[i], f[j]>> \in R
    BY <1>6
<1>8. f[i] \in X
    BY <1>2
<1> QED BY <1>2, <1>7, <1>8

LEMMA FiniteMax ==
    ASSUME NEW S, IsFiniteSet(S), S # {}, S \subseteq Int
    PROVE  Max(S) \in S /\ \A y \in S : y <= Max(S)
<1> DEFINE R == {p \in S \X S : p[2] <= p[1]}
<1>1. \A x, y \in S : <<x, y>> \in R <=> y <= x
    OBVIOUS
<1>2. \E x \in S : \A y \in S : <<x, y>> \in R
    <2> HIDE DEF R
    <2>1. ASSUME NEW x \in S, NEW y \in S PROVE <<x, y>> \in R \/ <<y, x>> \in R
        <3>1. x \in Int /\ y \in Int
            OBVIOUS
        <3>2. x <= y \/ y <= x
            BY <3>1
        <3> QED BY <1>1, <3>2
    <2>2. ASSUME NEW x \in S, NEW y \in S, NEW z \in S, <<x, y>> \in R, <<y, z>> \in R PROVE <<x, z>> \in R
        <3>1. x \in Int /\ y \in Int /\ z \in Int
            OBVIOUS
        <3>2. y <= x /\ z <= y
            BY <1>1, <2>2
        <3> QED BY <1>1, <3>1, <3>2
    <2> QED BY <2>1, <2>2, FiniteGreatest
<1>3. \E x \in S : \A y \in S : y <= x
    BY <1>1, <1>2
<1> QED BY <1>3 DEF Max

LEMMA FiniteMin ==
    ASSUME NEW S, IsFiniteSet(S), S # {}, S \subseteq Int
    PROVE  Min(S) \in S /\ \A y \in S : Min(S) <= y
<1> DEFINE R == {p \in S \X S : p[1] <= p[2]}
<1>1. \A x, y \in S : <<x, y>> \in R <=> x <= y
    OBVIOUS
<1>2. \E x \in S : \A y \in S : <<x, y>> \in R
    <2> HIDE DEF R
    <2>1. ASSUME NEW x \in S, NEW y \in S PROVE <<x, y>> \in R \/ <<y, x>> \in R
        <3>1. x \in Int /\ y \in Int
            OBVIOUS
        <3>2. x <= y \/ y <= x
            BY <3>1
        <3> QED BY <1>1, <3>2
    <2>2. ASSUME NEW x \in S, NEW y \in S, NEW z \in S, <<x, y>> \in R, <<y, z>> \in R PROVE <<x, z>> \in R
        <3>1. x \in Int /\ y \in Int /\ z \in Int
            OBVIOUS
        <3>2. x <= y /\ y <= z
            BY <1>1, <2>2
        <3> QED BY <1>1, <3>1, <3>2
    <2> QED BY <2>1, <2>2, FiniteGreatest
<1>3. \E x \in S : \A y \in S : x <= y
    BY <1>1, <1>2
<1> QED BY <1>3 DEF Min

-----------------------------------------------------------------------------
(* First what BestK returns: of results with different      *)
(* places, each has a rank of its own, and the ranks are 1 to their number. *)

Comparable(S) ==
    /\ IsFiniteSet(S)
    /\ \A r \in S : r.score \in Int /\ r.place \in Int
    /\ \A r, s \in S : r.place = s.place => r = s

AheadIn(S, r) == {s \in S : Ahead(s, r)}
RankIn(S, r) == Cardinality(AheadIn(S, r))

LEMMA AheadIsOrder ==
    ASSUME NEW S, Comparable(S), NEW r \in S, NEW s \in S, NEW t \in S
    PROVE  /\ Ahead(r, r)
           /\ Ahead(r, s) \/ Ahead(s, r)
           /\ Ahead(r, s) /\ Ahead(s, r) => r = s
           /\ Ahead(r, s) /\ Ahead(s, t) => Ahead(r, t)
           /\ Ahead(r, s) => r.score >= s.score
<1>1. /\ r.score \in Int /\ r.place \in Int /\ s.score \in Int /\ s.place \in Int /\ t.score \in Int /\ t.place \in Int
      /\ r.place = s.place => r = s
    BY DEF Comparable
<1> QED BY <1>1 DEF Ahead

LEMMA RanksAreNumbers ==
    ASSUME NEW S, Comparable(S), NEW r \in S
    PROVE  /\ IsFiniteSet(AheadIn(S, r)) /\ r \in AheadIn(S, r)
           /\ RankIn(S, r) \in 1..Cardinality(S)
<1>1. AheadIn(S, r) \in SUBSET S /\ r \in AheadIn(S, r)
    BY AheadIsOrder DEF AheadIn
<1>2. IsFiniteSet(S)
    BY DEF Comparable
<1>3. IsFiniteSet(AheadIn(S, r)) /\ Cardinality(AheadIn(S, r)) <= Cardinality(S)
    <2> HIDE DEF AheadIn
    <2> QED BY <1>1, <1>2, FS_Subset
<1>4. Cardinality(S) \in Nat /\ Cardinality(AheadIn(S, r)) \in Nat
    BY <1>2, <1>3, FS_CardinalityType
<1>5. Cardinality(AheadIn(S, r)) # 0
    BY <1>1, <1>3, FS_EmptySet
<1> QED BY <1>1, <1>3, <1>4, <1>5 DEF RankIn

LEMMA RanksFollowTheOrder ==
    ASSUME NEW S, Comparable(S), NEW r \in S, NEW s \in S, r # s, Ahead(s, r)
    PROVE  RankIn(S, s) < RankIn(S, r)
<1>1. IsFiniteSet(AheadIn(S, r)) /\ r \in AheadIn(S, r) /\ IsFiniteSet(AheadIn(S, s))
    BY RanksAreNumbers
<1>2. r \notin AheadIn(S, s)
    BY AheadIsOrder DEF AheadIn
<1>3. AheadIn(S, s) \in SUBSET AheadIn(S, r)
    <2> SUFFICES ASSUME NEW t \in S, Ahead(t, s) PROVE Ahead(t, r)
        BY DEF AheadIn
    <2> QED BY AheadIsOrder
<1>4. /\ Cardinality(AheadIn(S, s)) <= Cardinality(AheadIn(S, r))
      /\ Cardinality(AheadIn(S, s)) # Cardinality(AheadIn(S, r))
    <2> HIDE DEF AheadIn
    <2> QED BY <1>1, <1>2, <1>3, FS_Subset
<1>5. Cardinality(AheadIn(S, s)) \in Nat /\ Cardinality(AheadIn(S, r)) \in Nat
    BY <1>1, FS_CardinalityType
<1> QED BY <1>4, <1>5 DEF RankIn

LEMMA RanksAreAll ==
    ASSUME NEW S, Comparable(S), NEW i \in 1..Cardinality(S)
    PROVE  \E r \in S : RankIn(S, r) = i
<1> DEFINE N == Cardinality(S)
           rank == [r \in S |-> RankIn(S, r)]
           T == {rank[r] : r \in S}
<1>1. IsFiniteSet(S) /\ N \in Nat
    BY FS_CardinalityType DEF Comparable
<1>2. T \in SUBSET (1..N)
    BY RanksAreNumbers
<1>3. rank \in [S -> T] /\ \A t \in T : \E r \in S : rank[r] = t
    OBVIOUS
<1>4. \A r, s \in S : rank[r] = rank[s] => r = s
    <2> SUFFICES ASSUME NEW r \in S, NEW s \in S, r # s PROVE RankIn(S, r) # RankIn(S, s)
        OBVIOUS
    <2>1. RankIn(S, r) \in Nat /\ RankIn(S, s) \in Nat
        BY <1>1, RanksAreNumbers
    <2>2. CASE Ahead(r, s)
        BY <2>1, <2>2, RanksFollowTheOrder
    <2>3. CASE Ahead(s, r)
        BY <2>1, <2>3, RanksFollowTheOrder
    <2> QED BY <2>2, <2>3, AheadIsOrder
<1>5. \A r \in S : rank[r] = RankIn(S, r)
    OBVIOUS
<1> HIDE DEF rank, T
<1>6. rank \in Surjection(S, T) /\ rank \in Injection(S, T)
    BY <1>3, <1>4 DEF Surjection, Injection, IsInjective
<1>7. IsFiniteSet(T) /\ Cardinality(T) = N
    BY <1>1, <1>6, FS_Surjection
<1>8. IsFiniteSet(1..N) /\ Cardinality(1..N) = N
    <2>1. IsFiniteSet(1..N) /\ Cardinality(1..N) = IF 1 > N THEN 0 ELSE N - 1 + 1
        BY <1>1, FS_Interval
    <2> QED BY <1>1, <2>1
<1>9. T = 1..N
    BY <1>2, <1>7, <1>8, FS_Subset
<1> QED BY <1>3, <1>5, <1>9

\* The best k, or all if they are fewer.
BestAre(S, k, b) ==
    /\ \E n \in Nat : b \in [1..n -> S] /\ n = (IF k < Cardinality(S) THEN k ELSE Cardinality(S))
    /\ \A i, j \in DOMAIN b : b[i] = b[j] => i = j
    /\ \A i, j \in DOMAIN b : i < j => Ahead(b[i], b[j])
    /\ \A r \in S : (\E i \in DOMAIN b : b[i] = r) \/ (Len(b) = k /\ \A i \in DOMAIN b : Ahead(b[i], r))

LEMMA BestKIsBest ==
    ASSUME NEW S, Comparable(S), NEW k \in Nat
    PROVE  BestAre(S, k, BestK(S, k))
<1> DEFINE N == Cardinality(S)
           n == IF k < N THEN k ELSE N
           b == [i \in 1..n |-> CHOOSE r \in S : RankIn(S, r) = i]
<1>1. BestK(S, k) = b
    BY DEF BestK, RankIn, AheadIn
<1>2. N \in Nat /\ n \in Nat /\ n <= N /\ n <= k
    BY FS_CardinalityType DEF Comparable
<1>3. \A i \in 1..n : b[i] \in S /\ RankIn(S, b[i]) = i
    <2> SUFFICES ASSUME NEW i \in 1..n PROVE b[i] \in S /\ RankIn(S, b[i]) = i
        OBVIOUS
    <2>1. i \in 1..N
        BY <1>2
    <2>2. \E r \in S : RankIn(S, r) = i
        BY <2>1, RanksAreAll
    <2> QED BY <2>2
<1>4. DOMAIN b = 1..n /\ Len(b) = n /\ b \in [1..n -> S]
    <2>1. DOMAIN b = 1..n /\ b \in [1..n -> S]
        BY <1>3
    <2> QED BY <1>2, <2>1
<1>5. n = (IF k < N THEN k ELSE N) /\ (n < N => n = k)
    BY <1>2
<1> HIDE DEF b, n
<1>6. \A i, j \in 1..n : b[i] = b[j] => i = j
    BY <1>3
<1>7. \A i, j \in 1..n : i < j => Ahead(b[i], b[j])
    <2> SUFFICES ASSUME NEW i \in 1..n, NEW j \in 1..n, i < j PROVE Ahead(b[i], b[j])
        OBVIOUS
    <2>1. SUFFICES ASSUME ~Ahead(b[i], b[j]) PROVE FALSE
        OBVIOUS
    <2>2. Ahead(b[j], b[i]) /\ b[i] # b[j]
        BY <1>3, <2>1, AheadIsOrder
    <2>3. RankIn(S, b[j]) < RankIn(S, b[i])
        BY <1>3, <2>2, RanksFollowTheOrder
    <2>4. j < i
        BY <1>3, <2>3
    <2> QED BY <2>4
<1>8. ASSUME NEW r \in S, ~\E i \in 1..n : b[i] = r PROVE n = k /\ \A i \in 1..n : Ahead(b[i], r)
    <2>1. RankIn(S, r) \in 1..N
        BY RanksAreNumbers
    <2>2. ~(RankIn(S, r) <= n)
        <3>1. SUFFICES ASSUME RankIn(S, r) <= n PROVE FALSE
            OBVIOUS
        <3> DEFINE i == RankIn(S, r)
        <3>2. i \in 1..n
            BY <1>2, <2>1, <3>1
        <3>3. b[i] \in S /\ RankIn(S, b[i]) = i /\ b[i] # r
            BY <1>3, <1>8, <3>2
        <3>4. Ahead(b[i], r) \/ Ahead(r, b[i])
            BY <3>3, AheadIsOrder
        <3>5. RankIn(S, b[i]) < RankIn(S, r) \/ RankIn(S, r) < RankIn(S, b[i])
            BY <3>3, <3>4, RanksFollowTheOrder
        <3> QED BY <3>2, <3>3, <3>5
    <2>3. n = k
        BY <1>2, <1>5, <2>1, <2>2
    <2>4. ASSUME NEW i \in 1..n PROVE Ahead(b[i], r)
        <3>1. SUFFICES ASSUME ~Ahead(b[i], r) PROVE FALSE
            OBVIOUS
        <3>2. b[i] \in S /\ RankIn(S, b[i]) = i /\ b[i] # r
            BY <1>3, <1>8
        <3>3. Ahead(r, b[i])
            BY <3>1, <3>2, AheadIsOrder
        <3>4. RankIn(S, r) < i
            BY <3>2, <3>3, RanksFollowTheOrder
        <3> QED BY <1>2, <2>1, <2>2, <3>4
    <2> QED BY <2>3, <2>4
<1> QED BY <1>1, <1>2, <1>4, <1>5, <1>6, <1>7, <1>8 DEF BestAre

-----------------------------------------------------------------------------
(* The answer of one shard, and the union of several. *)

HitsOK(H) == Comparable(H) /\ \A r, t \in H : r.frame = t.frame => r = t

AnswerIs(H, k, A) ==
    /\ IsFiniteSet(A)
    /\ \A x \in A : x.score \in Int /\ x.place \in 1..k
    /\ \A x \in A : \E r \in H : r.frame = x.frame /\ r.score = x.score
    /\ \A x, y \in A : x.frame = y.frame \/ x.place = y.place => x = y
    /\ \A x, y \in A : x.place <= y.place => x.score >= y.score
    /\ \A r \in H : \/ \E x \in A : x.frame = r.frame /\ x.score = r.score
                    \/ Cardinality(A) = k /\ \A x \in A : x.score >= r.score

LEMMA ImageIsFinite ==
    ASSUME NEW S, IsFiniteSet(S), NEW m
    PROVE  IsFiniteSet({m[x] : x \in S}) /\ Cardinality({m[x] : x \in S}) <= Cardinality(S)
<1> DEFINE T == {m[x] : x \in S}
           f == [x \in S |-> m[x]]
<1>1. f \in Surjection(S, T)
    BY DEF Surjection
<1> HIDE DEF f, T
<1>2. IsFiniteSet(T) /\ Cardinality(T) <= Cardinality(S)
    BY <1>1, FS_Surjection
<1> QED BY <1>2 DEF T

LEMMA ImageIsAsLarge ==
    ASSUME NEW S, IsFiniteSet(S), NEW m, \A x, y \in S : m[x] = m[y] => x = y
    PROVE  Cardinality({m[x] : x \in S}) = Cardinality(S)
<1> DEFINE T == {m[x] : x \in S}
           f == [x \in S |-> m[x]]
<1>1. f \in Surjection(S, T) /\ f \in Injection(S, T)
    BY DEF Surjection, Injection, IsInjective
<1> HIDE DEF f, T
<1>2. Cardinality(T) = Cardinality(S)
    BY <1>1, FS_Surjection
<1> QED BY <1>2 DEF T

LEMMA NumbersTo ==
    ASSUME NEW n \in Nat
    PROVE  IsFiniteSet(1..n) /\ Cardinality(1..n) = n
<1>1. IsFiniteSet(1..n) /\ Cardinality(1..n) = IF 1 > n THEN 0 ELSE n - 1 + 1
    BY FS_Interval
<1> QED BY <1>1

LEMMA OneFewer ==
    ASSUME NEW S, IsFiniteSet(S), NEW x \in S
    PROVE  IsFiniteSet(S \ {x}) /\ Cardinality(S \ {x}) = Cardinality(S) - 1
<1>1. /\ IsFiniteSet(S \ {x})
      /\ Cardinality(S \ {x}) = IF x \in S THEN Cardinality(S) - 1 ELSE Cardinality(S)
    BY FS_RemoveElement
<1> QED BY <1>1

LEMMA ShardAnswerIs ==
    ASSUME NEW query, NEW shard, NEW k \in Nat, HitsOK(setup.hits[query][shard])
    PROVE  AnswerIs(setup.hits[query][shard], k, ShardAnswer(query, shard, k))
<1> DEFINE H == setup.hits[query][shard]
           b == BestK(H, k)
           x == [i \in DOMAIN b |-> [frame |-> b[i].frame, score |-> b[i].score, place |-> i]]
           A == {x[i] : i \in DOMAIN b}
<1>1. ShardAnswer(query, shard, k) = A
    <2>1. ShardAnswer(query, shard, k)
              = {[frame |-> b[i].frame, score |-> b[i].score, place |-> i] : i \in DOMAIN b}
        BY DEF ShardAnswer
    <2> HIDE DEF b
    <2> QED BY <2>1
<1>2. \A i \in DOMAIN b : x[i].frame = b[i].frame /\ x[i].score = b[i].score /\ x[i].place = i
    OBVIOUS
<1>3. BestAre(H, k, b) /\ Comparable(H) /\ \A r, t \in H : r.frame = t.frame => r = t
    BY BestKIsBest DEF HitsOK
<1> HIDE DEF H, b, x
<1>4. PICK n \in Nat : b \in [1..n -> H] /\ n = (IF k < Cardinality(H) THEN k ELSE Cardinality(H))
    BY <1>3 DEF BestAre
<1>5. Cardinality(H) \in Nat
    BY <1>3, FS_CardinalityType DEF Comparable
<1>6. DOMAIN b = 1..n /\ Len(b) = n /\ n <= k /\ \A i \in 1..n : b[i] \in H
    BY <1>4, <1>5
<1>7. \A i \in 1..n : b[i].score \in Int
    BY <1>3, <1>6 DEF Comparable
<1>8. IsFiniteSet(1..n) /\ Cardinality(1..n) = n
    BY NumbersTo
<1>9. IsFiniteSet(A)
    BY <1>6, <1>8, ImageIsFinite
<1>10. Cardinality(A) = n
    <2>1. \A i, j \in 1..n : x[i] = x[j] => i = j
        BY <1>2, <1>6
    <2>2. Cardinality({x[i] : i \in 1..n}) = Cardinality(1..n)
        BY <1>8, <2>1, ImageIsAsLarge
    <2> QED BY <1>6, <1>8, <2>2
<1>11. \A y \in A : \E i \in 1..n : y = x[i]
    BY <1>6
<1>12. ASSUME NEW y \in A PROVE y.score \in Int /\ y.place \in 1..k /\ \E r \in H : r.frame = y.frame /\ r.score = y.score
    <2>1. PICK i \in 1..n : y = x[i]
        BY <1>11
    <2>2. y.score = b[i].score /\ y.frame = b[i].frame /\ y.place = i
        BY <1>2, <1>6, <2>1
    <2>3. b[i] \in H /\ b[i].score \in Int /\ i \in 1..k
        BY <1>6, <1>7
    <2> QED BY <2>2, <2>3
<1>13. ASSUME NEW y \in A, NEW z \in A PROVE (y.frame = z.frame \/ y.place = z.place => y = z)
                                            /\ (y.place <= z.place => y.score >= z.score)
    <2>1. PICK i \in 1..n : y = x[i]
        BY <1>11
    <2>2. PICK j \in 1..n : z = x[j]
        BY <1>11
    <2>3. y.score = b[i].score /\ y.frame = b[i].frame /\ y.place = i /\ z.score = b[j].score /\ z.frame = b[j].frame /\ z.place = j
        BY <1>2, <1>6, <2>1, <2>2
    <2>4. y.frame = z.frame => i = j
        <3>1. b[i] \in H /\ b[j] \in H
            BY <1>6
        <3>2. y.frame = z.frame => b[i] = b[j]
            BY <1>3, <2>3, <3>1
        <3> QED BY <1>3, <1>6, <3>2 DEF BestAre
    <2>5. i < j => Ahead(b[i], b[j])
        BY <1>3, <1>6 DEF BestAre
    <2>6. i <= j => b[i].score >= b[j].score
        <3>1. b[i] \in H /\ b[j] \in H /\ b[i].score \in Int /\ b[j].score \in Int
            BY <1>6, <1>7
        <3>2. i < j => b[i].score >= b[j].score
            BY <1>3, <2>5, <3>1, AheadIsOrder
        <3> QED BY <3>1, <3>2
    <2> QED BY <2>1, <2>2, <2>3, <2>4, <2>6
<1>14. ASSUME NEW r \in H PROVE \/ \E y \in A : y.frame = r.frame /\ y.score = r.score
                                \/ Cardinality(A) = k /\ \A y \in A : y.score >= r.score
    <2>1. (\E i \in DOMAIN b : b[i] = r) \/ (Len(b) = k /\ \A i \in DOMAIN b : Ahead(b[i], r))
        BY <1>3 DEF BestAre
    <2>2. CASE \E i \in DOMAIN b : b[i] = r
        <3>1. PICK i \in DOMAIN b : b[i] = r
            BY <2>2
        <3>2. x[i] \in A /\ x[i].frame = r.frame /\ x[i].score = r.score
            BY <1>2, <3>1
        <3> QED BY <3>2
    <2>3. CASE Len(b) = k /\ \A i \in DOMAIN b : Ahead(b[i], r)
        <3>1. Cardinality(A) = k
            BY <1>6, <1>10, <2>3
        <3>2. ASSUME NEW y \in A PROVE y.score >= r.score
            <4>1. PICK i \in 1..n : y = x[i]
                BY <1>11
            <4>2. y.score = b[i].score /\ b[i] \in H /\ Ahead(b[i], r)
                BY <1>2, <1>6, <2>3, <4>1
            <4> QED BY <1>3, <4>2, AheadIsOrder
        <3> QED BY <3>1, <3>2
    <2> QED BY <2>1, <2>2, <2>3
<1>15. AnswerIs(H, k, A)
    <2> HIDE DEF A
    <2> QED BY <1>9, <1>12, <1>13, <1>14 DEF AnswerIs
<1> QED BY <1>1, <1>15 DEF H

\* A set in which every frame has its best score and its first place.
DedupIs(T, M) ==
    /\ Comparable(M)
    /\ \A m, o \in M : m.frame = o.frame => m = o
    /\ \A t \in T : \E m \in M : m.frame = t.frame /\ m.score >= t.score /\ m.place <= t.place
    /\ \A m \in M : \E t \in T : t.frame = m.frame /\ t.score = m.score
    /\ \A m \in M : \E t \in T : t.frame = m.frame /\ t.place = m.place

LEMMA DeduplicatedIs ==
    ASSUME NEW T, Comparable(T)
    PROVE  DedupIs(T, Deduplicated(T))
<1> DEFINE Same(f) == {t \in T : t.frame = f}
           S(f) == {t.score : t \in Same(f)}
           P(f) == {t.place : t \in Same(f)}
           one(f) == [frame |-> f, score |-> Max(S(f)), place |-> Min(P(f))]
           g == [t \in T |-> one(t.frame)]
           M == {g[t] : t \in T}
<1>1. Deduplicated(T) = M
    BY DEF Deduplicated
<1>2. IsFiniteSet(T) /\ (\A t \in T : t.score \in Int /\ t.place \in Int) /\ \A t, u \in T : t.place = u.place => t = u
    BY DEF Comparable
<1>3. ASSUME NEW t \in T
      PROVE  /\ Max(S(t.frame)) \in S(t.frame) /\ Min(P(t.frame)) \in P(t.frame)
             /\ Max(S(t.frame)) >= t.score /\ Min(P(t.frame)) <= t.place
    <2> DEFINE X == Same(t.frame)
               score == [u \in X |-> u.score]
               place == [u \in X |-> u.place]
    <2>1. X \in SUBSET T /\ t \in X
        OBVIOUS
    <2>2. S(t.frame) = {score[u] : u \in X} /\ P(t.frame) = {place[u] : u \in X}
        OBVIOUS
    <2>3. S(t.frame) \subseteq Int /\ P(t.frame) \subseteq Int
        BY <1>2
    <2>4. t.score \in S(t.frame) /\ t.place \in P(t.frame)
        BY <2>1
    <2>5. IsFiniteSet(X)
        <3> HIDE DEF X
        <3> QED BY <1>2, <2>1, FS_Subset
    <2>6. IsFiniteSet(S(t.frame)) /\ IsFiniteSet(P(t.frame))
        <3> HIDE DEF X, score, place, S, P
        <3>1. IsFiniteSet({score[u] : u \in X}) /\ IsFiniteSet({place[u] : u \in X})
            BY <2>5, ImageIsFinite
        <3> QED BY <2>2, <3>1
    <2> HIDE DEF S, P
    <2>7. Max(S(t.frame)) \in S(t.frame) /\ \A y \in S(t.frame) : y <= Max(S(t.frame))
        BY <2>3, <2>4, <2>6, FiniteMax
    <2>8. Min(P(t.frame)) \in P(t.frame) /\ \A y \in P(t.frame) : Min(P(t.frame)) <= y
        BY <2>3, <2>4, <2>6, FiniteMin
    <2>9. t.score \in Int /\ Max(S(t.frame)) \in Int
        BY <1>2, <2>3, <2>7
    <2>10. t.score <= Max(S(t.frame)) /\ Min(P(t.frame)) <= t.place
        BY <2>4, <2>7, <2>8
    <2> QED BY <2>7, <2>8, <2>9, <2>10
<1>4. \A t \in T : g[t].frame = t.frame /\ g[t].score = Max(S(t.frame)) /\ g[t].place = Min(P(t.frame)) /\ g[t] = one(t.frame)
    OBVIOUS
<1>5. \A x : x \in M => \E t \in T : x = g[t]
    OBVIOUS
<1>6. \A t \in T : g[t] \in M
    OBVIOUS
<1>7. \A f : \A y \in S(f) : \E u \in T : u.frame = f /\ u.score = y
    OBVIOUS
<1>8. \A f : \A y \in P(f) : \E u \in T : u.frame = f /\ u.place = y
    OBVIOUS
<1>9. IsFiniteSet(M)
    <2> HIDE DEF g
    <2> QED BY <1>2, ImageIsFinite
<1> HIDE DEF g, M, S, P, one
<1>10. ASSUME NEW m \in M
       PROVE  /\ \E t \in T : t.frame = m.frame /\ t.score = m.score
              /\ \E t \in T : t.frame = m.frame /\ t.place = m.place
              /\ m.score \in Int /\ m.place \in Int
    <2>1. PICK t \in T : m = g[t]
        BY <1>5
    <2>2. m.frame = t.frame /\ m.score \in S(t.frame) /\ m.place \in P(t.frame)
        BY <1>3, <1>4, <2>1
    <2>3. \E u \in T : u.frame = m.frame /\ u.score = m.score
        BY <1>7, <2>2
    <2>4. \E u \in T : u.frame = m.frame /\ u.place = m.place
        BY <1>8, <2>2
    <2> QED BY <1>2, <2>3, <2>4
<1>11. ASSUME NEW m \in M, NEW o \in M PROVE (m.frame = o.frame => m = o) /\ (m.place = o.place => m = o)
    <2>1. PICK t \in T : m = g[t]
        BY <1>5
    <2>2. PICK u \in T : o = g[u]
        BY <1>5
    <2>3. m.frame = o.frame => m = o
        BY <1>4, <2>1, <2>2
    <2>4. ASSUME m.place = o.place PROVE m.frame = o.frame
        <3>1. PICK v \in T : v.frame = m.frame /\ v.place = m.place
            BY <1>10
        <3>2. PICK w \in T : w.frame = o.frame /\ w.place = o.place
            BY <1>10
        <3> QED BY <1>2, <2>4, <3>1, <3>2
    <2> QED BY <2>3, <2>4
<1>12. ASSUME NEW t \in T PROVE \E m \in M : m.frame = t.frame /\ m.score >= t.score /\ m.place <= t.place
    BY <1>3, <1>4, <1>6
<1> QED BY <1>1, <1>9, <1>10, <1>11, <1>12 DEF DedupIs, Comparable

-----------------------------------------------------------------------------
(* What is merged: the parts of the shards, one behind the other. *)

PartOK(P, k) ==
    /\ IsFiniteSet(P)
    /\ \A r \in P : r.score \in Int /\ r.place \in 1..k
    /\ \A r, t \in P : r.place = t.place => r = t

BestScoreOf(A) == IF A = {} THEN 0 ELSE Max({r.score : r \in A})
NormOf(A, score) == IF BestScoreOf(A) > 0 THEN (score * Scale) \div BestScoreOf(A) ELSE 0

LEMMA QuotientsGrow ==
    ASSUME NEW a \in Int, NEW b \in Int, NEW d \in Nat \ {0}, a <= b
    PROVE  a \div d \in Int /\ a \div d <= b \div d
<1>1. a \div d \in Int /\ b \div d \in Int
    OBVIOUS
<1>2. a = d * (a \div d) + (a % d) /\ (a % d) \in 0..(d - 1)
    OBVIOUS
<1>3. b = d * (b \div d) + (b % d) /\ (b % d) \in 0..(d - 1)
    OBVIOUS
<1> DEFINE x == a \div d
           y == b \div d
<1>4. x \in Int /\ y \in Int /\ d * x <= a /\ b < d * y + d
    BY <1>1, <1>2, <1>3
<1> HIDE DEF x, y
<1>5. SUFFICES ASSUME ~(x <= y) PROVE FALSE
    BY <1>1 DEF x, y
<1>6. y + 1 <= x
    BY <1>4, <1>5
<1>7. d * (y + 1) <= d * x
    BY <1>4, <1>6
<1>8. d * (y + 1) = d * y + d
    BY <1>4
<1> QED BY <1>4, <1>7, <1>8

LEMMA NormGrows ==
    ASSUME NEW H, NEW k, NEW A, AnswerIs(H, k, A), NEW a \in Int, NEW b \in Int, a <= b
    PROVE  NormOf(A, a) \in Int /\ NormOf(A, a) <= NormOf(A, b)
<1> DEFINE score == [r \in A |-> r.score]
           S == {r.score : r \in A}
           d == BestScoreOf(A)
<1>1. d \in Int
    <2>1. CASE A = {}
        BY <2>1 DEF BestScoreOf
    <2>2. CASE A # {}
        <3>1. IsFiniteSet(A) /\ \A r \in A : r.score \in Int
            BY DEF AnswerIs
        <3>2. S = {score[r] : r \in A} /\ S # {} /\ S \subseteq Int
            BY <2>2, <3>1
        <3>3. IsFiniteSet({score[r] : r \in A})
            <4> HIDE DEF score
            <4> QED BY <3>1, ImageIsFinite
        <3> HIDE DEF S, score
        <3>4. Max(S) \in Int
            BY <3>2, <3>3, FiniteMax
        <3> QED BY <2>2, <3>4 DEF BestScoreOf, S
    <2> QED BY <2>1, <2>2
<1>2. a * Scale \in Int /\ b * Scale \in Int /\ a * Scale <= b * Scale
    BY DEF Scale
<1>3. NormOf(A, a) = (IF d > 0 THEN (a * Scale) \div d ELSE 0) /\ NormOf(A, b) = (IF d > 0 THEN (b * Scale) \div d ELSE 0)
    BY DEF NormOf
<1> DEFINE u == a * Scale
           v == b * Scale
<1> HIDE DEF d, u, v
<1>4. u \in Int /\ v \in Int /\ u <= v
    BY <1>2 DEF u, v
<1>5. CASE d > 0
    <2>1. d \in Nat \ {0}
        BY <1>1, <1>5
    <2>2. u \div d \in Int /\ u \div d <= v \div d
        BY <1>4, <2>1, QuotientsGrow
    <2> QED BY <1>3, <1>5, <2>2 DEF u, v
<1>6. CASE ~(d > 0)
    BY <1>3, <1>6
<1> QED BY <1>5, <1>6

LEMMA NormalizedIs ==
    ASSUME NEW H, NEW k \in Nat, NEW A, AnswerIs(H, k, A)
    PROVE  /\ PartOK(Normalized(A), k)
           /\ \A x \in A : \E r \in Normalized(A) :
                  r.frame = x.frame /\ r.place = x.place /\ r.score = NormOf(A, x.score)
           /\ \A r \in Normalized(A) : \E x \in A :
                  r.frame = x.frame /\ r.place = x.place /\ r.score = NormOf(A, x.score)
<1> DEFINE g == [x \in A |-> [frame |-> x.frame, score |-> NormOf(A, x.score), place |-> x.place]]
           P == {g[x] : x \in A}
<1>1. Normalized(A) = P
    <2>1. Normalized(A) = {[frame |-> x.frame, score |-> NormOf(A, x.score), place |-> x.place] : x \in A}
        BY DEF Normalized, NormOf, BestScoreOf
    <2> QED BY <2>1
<1>2. \A x \in A : g[x].frame = x.frame /\ g[x].place = x.place /\ g[x].score = NormOf(A, x.score) /\ g[x] \in P
    OBVIOUS
<1>3. \A r \in P : \E x \in A : r = g[x]
    OBVIOUS
<1>4. /\ IsFiniteSet(A)
      /\ \A x \in A : x.score \in Int /\ x.place \in 1..k
      /\ \A x, y \in A : x.place = y.place => x = y
    BY DEF AnswerIs
<1> HIDE DEF g
<1>5. IsFiniteSet(P)
    BY <1>4, ImageIsFinite
<1>6. \A x \in A : NormOf(A, x.score) \in Int
    <2> SUFFICES ASSUME NEW x \in A PROVE NormOf(A, x.score) \in Int
        OBVIOUS
    <2>1. x.score \in Int /\ x.score <= x.score
        BY <1>4
    <2> QED BY <2>1, NormGrows
<1> HIDE DEF P
<1>7. \A r \in P : r.score \in Int /\ r.place \in 1..k
    BY <1>2, <1>3, <1>4, <1>6
<1>8. \A r, t \in P : r.place = t.place => r = t
    BY <1>2, <1>3, <1>4
<1>9. PartOK(P, k)
    BY <1>5, <1>7, <1>8 DEF PartOK
<1> QED BY <1>1, <1>2, <1>3, <1>9

Part(A) == IF setup.kind = "m10" THEN Normalized(A) ELSE A
Placed(P, k, n) == {[frame |-> r.frame, score |-> r.score, place |-> r.place + k * n] : r \in P}
Tagged(got, k) == UNION {Placed(Part(got[n]), k, n) : n \in DOMAIN got}

LEMMA MergedIsDeduplicated == \A got, k : Merged(got, k) = Deduplicated(Tagged(got, k))
    BY DEF Merged, Tagged, Placed, Part

LEMMA PlacedApart ==
    ASSUME NEW k \in Nat, NEW i \in 1..k, NEW j \in 1..k, NEW n \in Nat, NEW m \in Nat, i + k * n = j + k * m
    PROVE  n = m /\ i = j
<1> DEFINE x == k * n
           y == k * m
<1>1. x \in Nat /\ y \in Nat /\ i + x = j + y
    OBVIOUS
<1>2. n < m => x + k <= y
    <2>1. SUFFICES ASSUME n < m PROVE x + k <= y
        OBVIOUS
    <2>2. k * (n + 1) <= k * m
        BY <2>1
    <2>3. k * (n + 1) = x + k
        OBVIOUS
    <2> QED BY <2>2, <2>3
<1>3. m < n => y + k <= x
    <2>1. SUFFICES ASSUME m < n PROVE y + k <= x
        OBVIOUS
    <2>2. k * (m + 1) <= k * n
        BY <2>1
    <2>3. k * (m + 1) = y + k
        OBVIOUS
    <2> QED BY <2>2, <2>3
<1>4. n = m => x = y
    OBVIOUS
<1> HIDE DEF x, y
<1> QED BY <1>1, <1>2, <1>3, <1>4

LEMMA PlacedFacts ==
    ASSUME NEW P, NEW k \in Nat, NEW n \in Nat, PartOK(P, k)
    PROVE  /\ IsFiniteSet(Placed(P, k, n))
           /\ \A t \in Placed(P, k, n) : \E r \in P :
                  t.frame = r.frame /\ t.score = r.score /\ t.place = r.place + k * n
                  /\ t = [frame |-> r.frame, score |-> r.score, place |-> r.place + k * n]
           /\ \A r \in P : \E t \in Placed(P, k, n) :
                  t.frame = r.frame /\ t.score = r.score /\ t.place = r.place + k * n
<1> DEFINE g == [r \in P |-> [frame |-> r.frame, score |-> r.score, place |-> r.place + k * n]]
<1>1. Placed(P, k, n) = {g[r] : r \in P}
    BY DEF Placed
<1>2. IsFiniteSet(P)
    BY DEF PartOK
<1>3. \A r \in P : /\ g[r].frame = r.frame /\ g[r].score = r.score /\ g[r].place = r.place + k * n
                   /\ g[r] = [frame |-> r.frame, score |-> r.score, place |-> r.place + k * n]
    OBVIOUS
<1> HIDE DEF g
<1>4. IsFiniteSet({g[r] : r \in P})
    BY <1>2, ImageIsFinite
<1> QED BY <1>1, <1>3, <1>4

\* The results that are merged.
TaggedIs(got, k, T) ==
    /\ Comparable(T)
    /\ \A t \in T : \E n \in DOMAIN got : \E r \in Part(got[n]) :
           t.frame = r.frame /\ t.score = r.score /\ t.place = r.place + k * n
    /\ \A n \in DOMAIN got : \A r \in Part(got[n]) : \E t \in T :
           t.frame = r.frame /\ t.score = r.score /\ t.place = r.place + k * n

LEMMA TaggedFacts ==
    ASSUME NEW k \in Nat, NEW m \in Nat, NEW got, DOMAIN got = 1..m, \A n \in 1..m : PartOK(Part(got[n]), k)
    PROVE  TaggedIs(got, k, Tagged(got, k))
<1> DEFINE T == Tagged(got, k)
           piece == [n \in 1..m |-> Placed(Part(got[n]), k, n)]
<1>1. T = UNION {piece[n] : n \in 1..m}
    BY DEF Tagged
<1>2. \A n \in 1..m : piece[n] = Placed(Part(got[n]), k, n) /\ n \in Nat
    OBVIOUS
<1> HIDE DEF piece, T
<1>3. IsFiniteSet(T)
    <2>1. IsFiniteSet(1..m)
        BY FS_Interval
    <2>2. IsFiniteSet({piece[n] : n \in 1..m})
        BY <2>1, ImageIsFinite
    <2>3. \A X \in {piece[n] : n \in 1..m} : IsFiniteSet(X)
        BY <1>2, PlacedFacts
    <2> QED BY <1>1, <2>2, <2>3, FS_UNION
<1>4. ASSUME NEW t \in T
      PROVE  \E n \in 1..m : \E r \in Part(got[n]) :
                 /\ t.frame = r.frame /\ t.score = r.score /\ t.place = r.place + k * n
                 /\ t = [frame |-> r.frame, score |-> r.score, place |-> r.place + k * n]
    <2>1. PICK n \in 1..m : t \in piece[n]
        BY <1>1
    <2>2. t \in Placed(Part(got[n]), k, n) /\ n \in Nat
        BY <1>2, <2>1
    <2> QED BY <2>2, PlacedFacts
<1>5. ASSUME NEW n \in 1..m, NEW r \in Part(got[n])
      PROVE  \E t \in T : t.frame = r.frame /\ t.score = r.score /\ t.place = r.place + k * n
    <2>1. PICK t \in Placed(Part(got[n]), k, n) : t.frame = r.frame /\ t.score = r.score /\ t.place = r.place + k * n
        BY <1>2, PlacedFacts
    <2> QED BY <1>1, <1>2, <2>1
<1>6. \A n \in 1..m : \A r \in Part(got[n]) : r.score \in Int /\ r.place \in 1..k
    BY DEF PartOK
<1>7. ASSUME NEW t \in T PROVE t.score \in Int /\ t.place \in Int
    <2>1. PICK n \in 1..m : \E r \in Part(got[n]) : t.frame = r.frame /\ t.score = r.score /\ t.place = r.place + k * n
        BY <1>4
    <2>2. PICK r \in Part(got[n]) : t.frame = r.frame /\ t.score = r.score /\ t.place = r.place + k * n
        BY <2>1
    <2>3. r.score \in Int /\ r.place \in Int /\ k * n \in Int
        BY <1>6
    <2> QED BY <2>2, <2>3
<1>8. ASSUME NEW t \in T, NEW u \in T, t.place = u.place PROVE t = u
    <2>1. PICK n \in 1..m : \E r \in Part(got[n]) :
                 /\ t.place = r.place + k * n
                 /\ t = [frame |-> r.frame, score |-> r.score, place |-> r.place + k * n]
        BY <1>4
    <2>2. PICK r \in Part(got[n]) :
                 /\ t.place = r.place + k * n
                 /\ t = [frame |-> r.frame, score |-> r.score, place |-> r.place + k * n]
        BY <2>1
    <2>3. PICK l \in 1..m : \E q \in Part(got[l]) :
                 /\ u.place = q.place + k * l
                 /\ u = [frame |-> q.frame, score |-> q.score, place |-> q.place + k * l]
        BY <1>4
    <2>4. PICK q \in Part(got[l]) :
                 /\ u.place = q.place + k * l
                 /\ u = [frame |-> q.frame, score |-> q.score, place |-> q.place + k * l]
        BY <2>3
    <2>5. r.place \in 1..k /\ q.place \in 1..k /\ n \in Nat /\ l \in Nat
        BY <1>6
    <2>6. r.place + k * n = q.place + k * l
        BY <1>8, <2>2, <2>4
    <2>7. n = l /\ r.place = q.place
        BY <2>5, <2>6, PlacedApart
    <2>8. r = q
        BY <2>7 DEF PartOK
    <2> QED BY <2>2, <2>4, <2>7, <2>8
<1> QED BY <1>3, <1>4, <1>5, <1>7, <1>8 DEF TaggedIs, Comparable, T

-----------------------------------------------------------------------------
(* The best of the bests are the best of all. *)

\* If k results are worth v at least, then so are the best k.
LEMMA TopIsWorth ==
    ASSUME NEW M, NEW k \in Nat, NEW b, Comparable(M), BestAre(M, k, b),
           NEW G \in SUBSET M, Cardinality(G) = k, NEW v \in Int, \A g \in G : g.score >= v
    PROVE  Len(b) = k /\ \A i \in DOMAIN b : b[i].score >= v
<1>1. PICK n \in Nat : b \in [1..n -> M] /\ n = (IF k < Cardinality(M) THEN k ELSE Cardinality(M))
    BY DEF BestAre
<1>2. IsFiniteSet(M) /\ Cardinality(M) \in Nat /\ k <= Cardinality(M) /\ IsFiniteSet(G)
    BY FS_Subset, FS_CardinalityType DEF Comparable
<1>3. n = k /\ DOMAIN b = 1..n /\ Len(b) = n /\ \A i \in 1..n : b[i] \in M /\ b[i].score \in Int
    BY <1>1, <1>2 DEF Comparable
<1>4. ASSUME NEW i \in 1..n, ~(b[i].score >= v) PROVE FALSE
    <2> DEFINE D == (1..n) \ {i}
               B == {b[j] : j \in D}
    <2>1. \A g \in G : g.score \in Int /\ g \in M /\ ~(b[i].score >= g.score)
        BY <1>3, <1>4 DEF Comparable
    <2>2. \A g \in G : ~Ahead(b[i], g)
        BY <1>3, <2>1, AheadIsOrder
    <2>3. \A g \in G : \E j \in DOMAIN b : b[j] = g
        BY <1>3, <2>1, <2>2 DEF BestAre
    <2>4. \A g \in G : g # b[i]
        BY <1>4
    <2>5. G \subseteq B
        BY <1>3, <2>3, <2>4
    <2>6. IsFiniteSet(1..n) /\ Cardinality(1..n) = n
        BY NumbersTo
    <2>7. IsFiniteSet(D) /\ Cardinality(D) = n - 1
        <3>1. IsFiniteSet((1..n) \ {i}) /\ Cardinality((1..n) \ {i}) = Cardinality(1..n) - 1
            BY <2>6, OneFewer
        <3> QED BY <2>6, <3>1
    <2> HIDE DEF D
    <2>8. IsFiniteSet(B) /\ Cardinality(B) <= n - 1
        BY <2>7, ImageIsFinite
    <2> HIDE DEF B
    <2>9. Cardinality(G) <= Cardinality(B) /\ Cardinality(B) \in Nat
        BY <2>5, <2>8, FS_Subset, FS_CardinalityType
    <2> QED BY <1>3, <2>8, <2>9
<1> QED BY <1>3, <1>4

FramesOf(R) == {r.frame : r \in R}
BestOf(R, f) == Max({r.score : r \in {r \in R : r.frame = f}})

LEMMA BestOfIsBest ==
    ASSUME NEW R, IsFiniteSet(R), \A r \in R : r.score \in Int, NEW f \in FramesOf(R)
    PROVE  (\E r \in R : r.frame = f /\ r.score = BestOf(R, f)) /\ \A r \in R : r.frame = f => r.score <= BestOf(R, f)
<1> DEFINE X == {r \in R : r.frame = f}
           score == [r \in X |-> r.score]
           S == {score[r] : r \in X}
<1>1. X \in SUBSET R /\ X # {} /\ \A r \in X : r.frame = f
    BY DEF FramesOf
<1>2. IsFiniteSet(X)
    <2> HIDE DEF X
    <2> QED BY <1>1, FS_Subset
<1>3. S = {r.score : r \in X} /\ S \subseteq Int /\ S # {}
    BY <1>1
<1>4. BestOf(R, f) = Max(S)
    BY <1>3 DEF BestOf
<1>5. IsFiniteSet(S)
    <2> HIDE DEF X, score
    <2> QED BY <1>2, ImageIsFinite
<1> HIDE DEF S, score
<1>6. Max(S) \in S /\ \A y \in S : y <= Max(S)
    BY <1>3, <1>5, FiniteMax
<1> QED BY <1>1, <1>3, <1>4, <1>6

\* The shards up have answered with what was got.
GotFrom(got, k, Hits, up) ==
    /\ \E m \in Nat : DOMAIN got = 1..m
    /\ IsFiniteSet(up) /\ \A s \in up : HitsOK(Hits[s])
    /\ \A n \in DOMAIN got : \E s \in up : AnswerIs(Hits[s], k, got[n])
    /\ \A s \in up : \E n \in DOMAIN got : AnswerIs(Hits[s], k, got[n])

AllHits(Hits, up) == UNION {Hits[s] : s \in up}

\* What the merged results say of those of the shards: every one is there with a score
\* that is not less, or there are k that are not worth less.
CoversAll(M, k, R) ==
    /\ \A m \in M : \E r \in R : r.frame = m.frame /\ r.score = m.score
    /\ \A r \in R : \/ \E m \in M : m.frame = r.frame /\ m.score >= r.score
                    \/ \E G \in SUBSET M : Cardinality(G) = k /\ \A g \in G : g.score >= r.score

LEMMA MergedCovers ==
    ASSUME NEW got, NEW k \in Nat, NEW Hits, NEW up, GotFrom(got, k, Hits, up), setup.kind # "m10"
    PROVE  DedupIs(Tagged(got, k), Merged(got, k)) /\ CoversAll(Merged(got, k), k, AllHits(Hits, up))
<1> DEFINE T == Tagged(got, k)
           M == Merged(got, k)
<1>1. PICK m \in Nat : DOMAIN got = 1..m
    BY DEF GotFrom
<1>2. \A n \in 1..m : Part(got[n]) = got[n]
    BY DEF Part
<1>3. ASSUME NEW n \in 1..m PROVE PartOK(Part(got[n]), k)
    <2>1. PICK s \in up : AnswerIs(Hits[s], k, got[n])
        BY <1>1 DEF GotFrom
    <2> QED BY <1>2, <2>1 DEF AnswerIs, PartOK
<1>4. TaggedIs(got, k, T)
    BY <1>1, <1>3, TaggedFacts
<1>5. DedupIs(T, M)
    BY <1>4, MergedIsDeduplicated, DeduplicatedIs DEF TaggedIs
<1> HIDE DEF T, M
<1>6. ASSUME NEW x \in M PROVE \E r \in AllHits(Hits, up) : r.frame = x.frame /\ r.score = x.score
    <2>1. PICK t \in T : t.frame = x.frame /\ t.score = x.score
        BY <1>5 DEF DedupIs
    <2>2. PICK n \in 1..m : \E r \in got[n] : t.frame = r.frame /\ t.score = r.score
        BY <1>1, <1>2, <1>4 DEF TaggedIs
    <2>3. PICK y \in got[n] : t.frame = y.frame /\ t.score = y.score
        BY <2>2
    <2>4. PICK s \in up : AnswerIs(Hits[s], k, got[n])
        BY <1>1 DEF GotFrom
    <2>5. PICK r \in Hits[s] : r.frame = y.frame /\ r.score = y.score
        BY <2>4 DEF AnswerIs
    <2>6. r \in AllHits(Hits, up)
        BY DEF AllHits
    <2> QED BY <2>1, <2>3, <2>5, <2>6
<1>7. ASSUME NEW n \in 1..m, NEW y \in got[n] PROVE \E x \in M : x.frame = y.frame /\ x.score >= y.score
    <2>1. PICK t \in T : t.frame = y.frame /\ t.score = y.score
        BY <1>1, <1>2, <1>4 DEF TaggedIs
    <2> QED BY <1>5, <2>1 DEF DedupIs
<1>8. ASSUME NEW r \in AllHits(Hits, up)
      PROVE  \/ \E x \in M : x.frame = r.frame /\ x.score >= r.score
             \/ \E G \in SUBSET M : Cardinality(G) = k /\ \A g \in G : g.score >= r.score
    <2>1. PICK s \in up : r \in Hits[s]
        BY DEF AllHits
    <2>2. PICK n \in 1..m : AnswerIs(Hits[s], k, got[n])
        BY <1>1 DEF GotFrom
    <2>3. \/ \E y \in got[n] : y.frame = r.frame /\ y.score = r.score
          \/ Cardinality(got[n]) = k /\ \A y \in got[n] : y.score >= r.score
        BY <2>1, <2>2 DEF AnswerIs
    <2>4. CASE \E y \in got[n] : y.frame = r.frame /\ y.score = r.score
        BY <1>7, <2>4
    <2>5. CASE Cardinality(got[n]) = k /\ \A y \in got[n] : y.score >= r.score
        <3> DEFINE A == got[n]
                   over == [y \in A |-> CHOOSE x \in M : x.frame = y.frame /\ x.score >= y.score]
                   G == {over[y] : y \in A}
        <3>1. \A y \in A : over[y] \in M /\ over[y].frame = y.frame /\ over[y].score >= y.score
            BY <1>7
        <3>2. IsFiniteSet(A) /\ (\A y, z \in A : y.frame = z.frame => y = z) /\ \A y \in A : y.score \in Int
            BY <2>2 DEF AnswerIs
        <3> HIDE DEF over, A
        <3>3. \A y, z \in A : over[y] = over[z] => y = z
            BY <3>1, <3>2
        <3>4. Cardinality(G) = Cardinality(A)
            BY <3>2, <3>3, ImageIsAsLarge
        <3>5. G \in SUBSET M
            BY <3>1
        <3>6. r.score \in Int
            BY <2>1 DEF GotFrom, HitsOK, Comparable
        <3>7. ASSUME NEW g \in G PROVE g.score >= r.score
            <4>1. PICK y \in A : g = over[y]
                OBVIOUS
            <4>2. g \in M /\ g.score \in Int /\ y.score \in Int
                BY <1>5, <3>1, <3>2, <4>1 DEF DedupIs, Comparable
            <4>3. g.score >= y.score /\ y.score >= r.score
                BY <2>5, <3>1, <4>1 DEF A
            <4> QED BY <3>6, <4>2, <4>3
        <3> QED BY <2>5, <3>4, <3>5, <3>7 DEF A
    <2> QED BY <2>3, <2>4, <2>5
<1> QED BY <1>5, <1>6, <1>8 DEF CoversAll, T, M

LEMMA MergedIsTop ==
    ASSUME NEW got, NEW k \in Nat \ {0}, NEW Hits, NEW up, GotFrom(got, k, Hits, up), setup.kind # "m10"
    PROVE  IsTop(BestK(Merged(got, k), k), AllHits(Hits, up), k)
<1> DEFINE M == Merged(got, k)
           R == AllHits(Hits, up)
           F == FramesOf(R)
           b == BestK(M, k)
           given == {b[i].frame : i \in DOMAIN b}
<1>1. Comparable(M) /\ (\A m, o \in M : m.frame = o.frame => m = o) /\ CoversAll(M, k, R)
    BY MergedCovers DEF DedupIs
<1>2. BestAre(M, k, b)
    BY <1>1, BestKIsBest
<1>3. IsFiniteSet(R) /\ \A r \in R : r.score \in Int
    <2> DEFINE hits == [s \in up |-> Hits[s]]
    <2>1. IsFiniteSet(up) /\ \A s \in up : IsFiniteSet(hits[s])
        BY DEF GotFrom, HitsOK, Comparable
    <2>2. R = UNION {hits[s] : s \in up}
        BY DEF AllHits
    <2>3. \A r \in R : r.score \in Int
        BY DEF AllHits, GotFrom, HitsOK, Comparable
    <2> HIDE DEF hits, R
    <2>4. IsFiniteSet({hits[s] : s \in up})
        BY <2>1, ImageIsFinite
    <2>5. IsFiniteSet(R)
        BY <2>1, <2>2, <2>4, FS_UNION
    <2> QED BY <2>3, <2>5
<1> HIDE DEF M, R, b
<1>4. PICK n \in Nat : b \in [1..n -> M] /\ n = (IF k < Cardinality(M) THEN k ELSE Cardinality(M))
    BY <1>2 DEF BestAre
<1>5. IsFiniteSet(M) /\ Cardinality(M) \in Nat
    BY <1>1, FS_CardinalityType DEF Comparable
<1>6. /\ DOMAIN b = 1..n /\ Len(b) = n /\ n <= k /\ n <= Cardinality(M) /\ (n = k \/ n = Cardinality(M))
      /\ \A i \in 1..n : b[i] \in M /\ b[i].score \in Int
    BY <1>1, <1>4, <1>5 DEF Comparable
<1>7. \A m \in M : \E r \in R : r.frame = m.frame /\ r.score = m.score
    BY <1>1 DEF CoversAll
<1>8. ASSUME NEW r \in R
      PROVE  \/ \E m \in M : m.frame = r.frame /\ m.score >= r.score
             \/ n = k /\ \A i \in 1..n : b[i].score >= r.score
    <2>1. \/ \E m \in M : m.frame = r.frame /\ m.score >= r.score
          \/ \E G \in SUBSET M : Cardinality(G) = k /\ \A g \in G : g.score >= r.score
        BY <1>1 DEF CoversAll
    <2>2. ASSUME NEW G \in SUBSET M, Cardinality(G) = k, \A g \in G : g.score >= r.score
          PROVE  n = k /\ \A i \in 1..n : b[i].score >= r.score
        <3>1. r.score \in Int
            BY <1>3
        <3> QED BY <1>1, <1>2, <1>6, <2>2, <3>1, TopIsWorth
    <2> QED BY <2>1, <2>2
<1>9. IsFiniteSet(F) /\ Cardinality(F) \in Nat
    <2> DEFINE frame == [r \in R |-> r.frame]
    <2>1. F = {frame[r] : r \in R}
        BY DEF FramesOf
    <2> HIDE DEF F, frame
    <2>2. IsFiniteSet(F)
        BY <1>3, <2>1, ImageIsFinite
    <2> QED BY <2>2, FS_CardinalityType
<1>10. \A r \in R : r.frame \in F
    BY DEF FramesOf
<1>11. \A f \in F : \E r \in R : r.frame = f /\ r.score = BestOf(R, f)
    BY <1>3, BestOfIsBest
<1>12. \A f \in F : \A r \in R : r.frame = f => r.score <= BestOf(R, f)
    BY <1>3, BestOfIsBest
<1> HIDE DEF F
<1>13. given \subseteq F
    BY <1>6, <1>7, <1>10
<1>14. Cardinality(given) = n
    <2> DEFINE frame == [i \in 1..n |-> b[i].frame]
    <2>1. given = {frame[i] : i \in 1..n}
        BY <1>6
    <2>2. \A i, j \in 1..n : frame[i] = frame[j] => i = j
        <3>1. \A i, j \in 1..n : b[i].frame = b[j].frame => b[i] = b[j]
            BY <1>1, <1>6
        <3> QED BY <1>2, <1>6, <3>1 DEF BestAre
    <2>3. IsFiniteSet(1..n) /\ Cardinality(1..n) = n
        BY NumbersTo
    <2> HIDE DEF frame, given
    <2>4. Cardinality({frame[i] : i \in 1..n}) = Cardinality(1..n)
        BY <2>2, <2>3, ImageIsAsLarge
    <2> QED BY <2>1, <2>3, <2>4
<1>15. n <= Cardinality(F)
    <2> HIDE DEF given
    <2> QED BY <1>9, <1>13, <1>14, FS_Subset
<1>16. n = k \/ n = Cardinality(F)
    <2> SUFFICES ASSUME n # k PROVE Cardinality(F) <= n
        BY <1>9, <1>15
    <2> DEFINE frame == [m \in M |-> m.frame]
               X == {frame[m] : m \in M}
    <2>1. F \in SUBSET X
        <3>1. ASSUME NEW f \in F PROVE f \in X
            <4>1. PICK r \in R : r.frame = f
                BY <1>11
            <4>2. PICK m \in M : m.frame = r.frame
                BY <1>8
            <4>3. frame[m] = f
                BY <4>1, <4>2
            <4> QED BY <4>3
        <3> QED BY <3>1
    <2> HIDE DEF frame
    <2>2. IsFiniteSet(X) /\ Cardinality(X) <= Cardinality(M)
        BY <1>5, ImageIsFinite
    <2> HIDE DEF X
    <2>3. Cardinality(F) <= Cardinality(X) /\ Cardinality(X) \in Nat
        BY <2>1, <2>2, FS_Subset, FS_CardinalityType
    <2> QED BY <1>5, <1>6, <1>9, <2>2, <2>3
<1>17. n = Min({k, Cardinality(F)})
    <2> DEFINE c == Cardinality(F)
    <2>1. c \in Nat /\ n <= k /\ n <= c /\ (n = k \/ n = c)
        BY <1>6, <1>9, <1>15, <1>16
    <2> HIDE DEF c
    <2>2. n \in {k, c} /\ \A y \in {k, c} : n <= y
        BY <2>1
    <2>3. Min({k, c}) \in {k, c} /\ \A y \in {k, c} : Min({k, c}) <= y
        BY <2>2 DEF Min
    <2>4. Min({k, c}) <= n /\ n <= Min({k, c}) /\ Min({k, c}) \in Int
        BY <2>1, <2>2, <2>3
    <2> QED BY <2>4 DEF c
<1>18. ASSUME NEW i \in 1..n PROVE b[i].score = BestOf(R, b[i].frame)
    <2>1. b[i].frame \in F
        BY <1>13, <1>6
    <2>2. PICK r \in R : r.frame = b[i].frame /\ r.score = BestOf(R, b[i].frame)
        BY <1>11, <2>1
    <2>3. b[i].score <= BestOf(R, b[i].frame)
        BY <1>6, <1>7, <1>12, <2>1
    <2>4. b[i].score >= r.score
        <3>1. CASE \E m \in M : m.frame = r.frame /\ m.score >= r.score
            <4>1. PICK m \in M : m.frame = r.frame /\ m.score >= r.score
                BY <3>1
            <4>2. m = b[i]
                BY <1>1, <1>6, <2>2, <4>1
            <4> QED BY <4>1, <4>2
        <3>2. CASE n = k /\ \A j \in 1..n : b[j].score >= r.score
            BY <3>2
        <3> QED BY <1>8, <3>1, <3>2
    <2>5. b[i].score \in Int /\ r.score \in Int
        BY <1>3, <1>6
    <2> QED BY <2>2, <2>3, <2>4, <2>5
<1>19. \A i, j \in 1..n : i < j => b[i].score >= b[j].score
    <2> SUFFICES ASSUME NEW i \in 1..n, NEW j \in 1..n, i < j PROVE b[i].score >= b[j].score
        OBVIOUS
    <2>1. Ahead(b[i], b[j])
        BY <1>2, <1>6 DEF BestAre
    <2> QED BY <1>1, <1>6, <2>1, AheadIsOrder
<1>20. ASSUME NEW f \in F \ given, NEW i \in 1..n PROVE BestOf(R, f) <= b[i].score
    <2>1. PICK r \in R : r.frame = f /\ r.score = BestOf(R, f)
        BY <1>11
    <2>2. r.score \in Int /\ b[i].score \in Int
        BY <1>3, <1>6
    <2>3. CASE \E m \in M : m.frame = r.frame /\ m.score >= r.score
        <3>1. PICK m \in M : m.frame = r.frame /\ m.score >= r.score
            BY <2>3
        <3>2. ~\E j \in DOMAIN b : b[j] = m
            BY <1>20, <2>1, <3>1
        <3>3. Ahead(b[i], m)
            BY <1>2, <1>6, <3>2 DEF BestAre
        <3>4. b[i].score >= m.score /\ m.score \in Int
            BY <1>1, <1>6, <3>3, AheadIsOrder DEF Comparable
        <3> QED BY <2>1, <2>2, <3>1, <3>4
    <2>4. CASE n = k /\ \A j \in 1..n : b[j].score >= r.score
        BY <2>1, <2>2, <2>4
    <2> QED BY <1>8, <2>3, <2>4
<1>21. \A i \in DOMAIN b : b[i].score = BestOf(R, b[i].frame)
    BY <1>6, <1>18
<1>22. \A i, j \in DOMAIN b : i < j => b[i].score >= b[j].score
    BY <1>6, <1>19
<1>23. \A f \in F \ given, i \in DOMAIN b : BestOf(R, f) <= b[i].score
    BY <1>6, <1>20
<1>24. Cardinality(given) = Len(b) /\ Len(b) = Min({k, Cardinality(F)})
    BY <1>6, <1>14, <1>17
<1>25. IsTop(b, R, k)
    BY <1>13, <1>21, <1>22, <1>23, <1>24 DEF IsTop, F, FramesOf, BestOf
<1> QED BY <1>25 DEF b, M, R

-----------------------------------------------------------------------------
(* Scores that are normalised per shard: the order of a shard is kept. *)

LEMMA MergedKeepsOrder ==
    ASSUME NEW got, NEW k \in Nat, NEW Hits, NEW shards, NEW Ans, setup.kind = "m10",
           NEW m \in Nat, DOMAIN got = 1..m,
           \A s \in shards : HitsOK(Hits[s]) /\ AnswerIs(Hits[s], k, Ans[s]),
           \A n \in 1..m : \E s \in shards : got[n] = Ans[s]
    PROVE  KeepsOrder(BestK(Merged(got, k), k), shards, Hits)
<1> DEFINE T == Tagged(got, k)
           M == Merged(got, k)
           top == BestK(M, k)
<1>1. \A n \in 1..m : Part(got[n]) = Normalized(got[n])
    BY DEF Part
<1>2. ASSUME NEW n \in 1..m PROVE PartOK(Part(got[n]), k)
    <2>1. PICK s \in shards : got[n] = Ans[s]
        OBVIOUS
    <2>2. AnswerIs(Hits[s], k, Ans[s])
        OBVIOUS
    <2>3. PartOK(Normalized(Ans[s]), k)
        BY <2>2, NormalizedIs
    <2> QED BY <1>1, <2>1, <2>3
<1>3. TaggedIs(got, k, T)
    BY <1>2, TaggedFacts
<1>4. DedupIs(T, M)
    BY <1>3, MergedIsDeduplicated, DeduplicatedIs DEF TaggedIs
<1>5. BestAre(M, k, top)
    BY <1>4, BestKIsBest DEF DedupIs
<1> HIDE DEF T, M, top
<1>6. \A i \in DOMAIN top : top[i] \in M
    BY <1>5 DEF BestAre
<1>7. ASSUME NEW t \in T
      PROVE  \E n \in 1..m : \E s \in shards : \E x \in Ans[s] :
                 /\ got[n] = Ans[s] /\ t.frame = x.frame /\ t.score = NormOf(Ans[s], x.score)
                 /\ t.place = x.place + k * n
    <2>1. PICK n \in 1..m : \E r \in Part(got[n]) :
                 t.frame = r.frame /\ t.score = r.score /\ t.place = r.place + k * n
        BY <1>3 DEF TaggedIs
    <2>2. PICK r \in Part(got[n]) : t.frame = r.frame /\ t.score = r.score /\ t.place = r.place + k * n
        BY <2>1
    <2>3. PICK s \in shards : got[n] = Ans[s]
        OBVIOUS
    <2>4. r \in Normalized(Ans[s])
        BY <1>1, <2>2, <2>3
    <2>5. PICK x \in Ans[s] : r.frame = x.frame /\ r.place = x.place /\ r.score = NormOf(Ans[s], x.score)
        BY <2>4, NormalizedIs
    <2> QED BY <2>2, <2>3, <2>5
<1>8. ASSUME NEW n \in 1..m, NEW s \in shards, got[n] = Ans[s], NEW y \in Ans[s]
      PROVE  \E o \in M : o.frame = y.frame /\ o.score >= NormOf(Ans[s], y.score) /\ o.place <= y.place + k * n
    <2>1. PICK r \in Normalized(Ans[s]) : r.frame = y.frame /\ r.place = y.place /\ r.score = NormOf(Ans[s], y.score)
        BY NormalizedIs
    <2>2. r \in Part(got[n])
        BY <1>1, <1>8, <2>1
    <2>3. PICK t \in T : t.frame = r.frame /\ t.score = r.score /\ t.place = r.place + k * n
        BY <1>3, <2>2 DEF TaggedIs
    <2>4. PICK o \in M : o.frame = t.frame /\ o.score >= t.score /\ o.place <= t.place
        BY <1>4, <2>3 DEF DedupIs
    <2> QED BY <2>1, <2>3, <2>4
<1>9. ASSUME NEW i \in DOMAIN top, NEW j \in DOMAIN top, NEW s \in shards, i < j,
             \A t \in shards \ {s} : \A r \in Hits[t] : r.frame # top[i].frame,
             NEW a \in Hits[s], NEW b \in Hits[s], a.frame = top[i].frame, b.frame = top[j].frame,
             ~(a.score >= b.score)
      PROVE  FALSE
    <2> DEFINE p == top[i]
               q == top[j]
               A == Ans[s]
    <2>1. p \in M /\ q \in M /\ Ahead(p, q)
        BY <1>5, <1>6, <1>9 DEF BestAre
    <2>2. a.score \in Int /\ b.score \in Int /\ HitsOK(Hits[s]) /\ AnswerIs(Hits[s], k, A)
        BY DEF HitsOK, Comparable
    <2>3. \A t \in shards : \A x \in Ans[t] : x.frame = p.frame => t = s /\ x.score = a.score
        <3> SUFFICES ASSUME NEW t \in shards, NEW x \in Ans[t], x.frame = p.frame PROVE t = s /\ x.score = a.score
            OBVIOUS
        <3>1. PICK r \in Hits[t] : r.frame = x.frame /\ r.score = x.score
            BY DEF AnswerIs
        <3>2. t = s
            BY <1>9, <3>1
        <3>3. r = a
            BY <1>9, <2>2, <3>1, <3>2 DEF HitsOK
        <3> QED BY <3>1, <3>2, <3>3
    <2>4. PICK t1 \in T : t1.frame = p.frame /\ t1.score = p.score
        BY <1>4, <2>1 DEF DedupIs
    <2>5. PICK t2 \in T : t2.frame = p.frame /\ t2.place = p.place
        BY <1>4, <2>1 DEF DedupIs
    <2>6. \E s1 \in shards : \E x \in Ans[s1] : t1.frame = x.frame /\ t1.score = NormOf(Ans[s1], x.score)
        BY <1>7
    <2>7. p.score = NormOf(A, a.score)
        BY <2>3, <2>4, <2>6
    <2>8. PICK n \in 1..m : \E s2 \in shards : \E x \in Ans[s2] :
                 got[n] = Ans[s2] /\ t2.frame = x.frame /\ t2.place = x.place + k * n
        BY <1>7
    <2>9. PICK s2 \in shards : \E x \in Ans[s2] : got[n] = Ans[s2] /\ t2.frame = x.frame /\ t2.place = x.place + k * n
        BY <2>8
    <2>10. PICK x \in Ans[s2] : got[n] = Ans[s2] /\ t2.frame = x.frame /\ t2.place = x.place + k * n
        BY <2>9
    <2>11. s2 = s /\ x.score = a.score /\ x \in A /\ got[n] = A /\ p.place = x.place + k * n
        BY <2>3, <2>5, <2>10
    <2>12. ~\A z \in A : z.score >= b.score
        BY <1>9, <2>11
    <2>13. PICK y \in A : y.frame = b.frame /\ y.score = b.score
        BY <2>2, <2>12 DEF AnswerIs
    <2>14. y.place < x.place
        <3>1. ~(x.place <= y.place)
            BY <1>9, <2>2, <2>11, <2>13 DEF AnswerIs
        <3>2. x.place \in Int /\ y.place \in Int
            BY <2>2, <2>11, <2>13 DEF AnswerIs
        <3> QED BY <3>1, <3>2
    <2>15. PICK o \in M : o.frame = y.frame /\ o.score >= NormOf(A, y.score) /\ o.place <= y.place + k * n
        BY <1>8, <2>11, <2>13
    <2>16. o = q
        BY <1>4, <1>9, <2>1, <2>13, <2>15 DEF DedupIs
    <2>17. NormOf(A, a.score) \in Int /\ NormOf(A, a.score) <= NormOf(A, b.score) /\ NormOf(A, b.score) \in Int
        <3>1. a.score <= b.score /\ b.score <= b.score
            BY <1>9, <2>2
        <3> QED BY <2>2, <3>1, NormGrows
    <2> DEFINE u == NormOf(A, a.score)
               v == NormOf(A, b.score)
               w == k * n
    <2>18. /\ p.score = u /\ q.score >= v /\ u \in Int /\ v \in Int /\ u <= v /\ q.score \in Int
           /\ p.place = x.place + w /\ q.place <= y.place + w /\ w \in Int
           /\ x.place \in Int /\ y.place \in Int /\ q.place \in Int
        <3>1. q.score \in Int /\ q.place \in Int
            BY <1>4, <2>1 DEF DedupIs, Comparable
        <3>2. x.place \in Int /\ y.place \in Int
            BY <2>2, <2>11, <2>13 DEF AnswerIs
        <3>3. w \in Int
            OBVIOUS
        <3> QED BY <2>7, <2>11, <2>13, <2>15, <2>16, <2>17, <3>1, <3>2, <3>3
    <2>19. p.score > q.score \/ (p.score = q.score /\ p.place <= q.place)
        BY <2>1 DEF Ahead
    <2> HIDE DEF p, q, u, v, w, A
    <2> QED BY <2>14, <2>18, <2>19
<1>10. KeepsOrder(top, shards, Hits)
    BY <1>9 DEF KeepsOrder
<1> QED BY <1>10 DEF top, M

-----------------------------------------------------------------------------
(* The invariant: an answer, whether it was given or is kept, is the merge of answers of  *)
(* shards of its route.                                                                  *)

RouteOf(su, q, n) ==
    LET order == su.order[q]
        count == CASE su.mode = "broadcast" -> Len(order) [] su.mode = "single" -> 1 [] OTHER -> n
    IN  SubSeq(order, 1, IF count < Len(order) THEN count ELSE Len(order))
RoutedTo(su, q, n) == ToSet(RouteOf(su, q, n))

TopOf(H, k) ==
    LET best == BestK(H, k)
    IN  {[frame |-> best[i].frame, score |-> best[i].score, place |-> i] : i \in DOMAIN best}
AnswersOf(su, q, k, n) == {TopOf(su.hits[q][s], k) : s \in RoutedTo(su, q, n)}
MergedOf(su, got, k) ==
    Deduplicated(UNION {Placed(IF su.kind = "m10" THEN Normalized(got[n]) ELSE got[n], k, n) : n \in DOMAIN got})
RightAnswers(su, q, k, n) == {BestK(MergedOf(su, got, k), k) : got \in Seq(AnswersOf(su, q, k, n))}

CallFields == {"step", "query", "k", "n", "left", "got", "answer"}
CallOK(su, r) ==
    /\ DOMAIN r = CallFields
    /\ r.step \in {"idle", "cache", "ask", "merge", "answered"}
    /\ r.step # "idle" => r.query \in Queries /\ r.k \in TopKs /\ r.n \in Nat \ {0}
    /\ r.step = "cache" => r.got = <<>>
    /\ r.step = "ask" => r.left \in Seq(RoutedTo(su, r.query, r.n)) /\ r.left # <<>>
    /\ r.step \in {"ask", "merge"} => r.got \in Seq(AnswersOf(su, r.query, r.k, r.n))
    /\ r.step = "answered" => r.answer \in RightAnswers(su, r.query, r.k, r.n)

AnySearch == Queries \X TopKs \X (Nat \ {0})
KeptFor(su, x) == {[key |-> x, answer |-> a] : a \in RightAnswers(su, x[1], x[2], x[3])}
EntriesOf(su) == UNION {KeptFor(su, x) : x \in AnySearch}
CacheOK(su, entries) == entries \in Seq(EntriesOf(su)) /\ Len(entries) <= su.size

ShardInv ==
    /\ setup \in Setups /\ CacheOK(setup, cache)
    /\ DOMAIN caller = Callers /\ \A c \in Callers : CallOK(setup, caller[c])

LEMMA EntryIs ==
    ASSUME NEW su, NEW e
    PROVE  e \in EntriesOf(su) <=>
               \E x \in AnySearch : \E a \in RightAnswers(su, x[1], x[2], x[3]) : e = [key |-> x, answer |-> a]
<1>1. e \in EntriesOf(su) <=> \E x \in AnySearch : e \in KeptFor(su, x)
    BY DEF EntriesOf
<1>2. \A x : e \in KeptFor(su, x) <=> \E a \in RightAnswers(su, x[1], x[2], x[3]) : e = [key |-> x, answer |-> a]
    BY DEF KeptFor
<1> QED BY <1>1, <1>2

LEMMA RouteIsOf == \A q, n : Route(q, n) = RouteOf(setup, q, n)
    BY DEF Route, RouteOf

LEMMA ShardAnswerIsTop == \A q, s, k : ShardAnswer(q, s, k) = TopOf(setup.hits[q][s], k)
    BY DEF ShardAnswer, TopOf

LEMMA MergedIsOf == \A got, k : Merged(got, k) = MergedOf(setup, got, k)
    BY DEF Merged, MergedOf, Placed

LEMMA RouteFacts ==
    ASSUME setup \in Setups, NEW q \in Queries, NEW n \in Nat \ {0}
    PROVE  /\ RouteOf(setup, q, n) \in Seq(RoutedTo(setup, q, n)) /\ RouteOf(setup, q, n) # <<>>
           /\ IsFiniteSet(RoutedTo(setup, q, n))
           /\ \A s \in RoutedTo(setup, q, n) : HitsOK(setup.hits[q][s])
<1> DEFINE order == setup.order[q]
           D == DOMAIN setup.hits[q]
           m == IF setup.mode = "broadcast" THEN Len(order) ELSE IF setup.mode = "single" THEN 1 ELSE n
           l == IF m < Len(order) THEN m ELSE Len(order)
           r == RouteOf(setup, q, n)
<1>1. order \in Seq(D) /\ order # <<>>
    BY SetupAssumption
<1>2. r = SubSeq(order, 1, l)
    BY DEF RouteOf
<1>3. \A s \in D : HitsOK(setup.hits[q][s])
    <2> SUFFICES ASSUME NEW s \in D PROVE HitsOK(setup.hits[q][s])
        OBVIOUS
    <2> DEFINE H == setup.hits[q][s]
    <2>1. /\ IsFiniteSet(H)
          /\ \A x \in H : x.score \in Int /\ x.place \in Int
          /\ \A x, t \in H : x.frame = t.frame \/ x.place = t.place => x = t
        BY SetupAssumption
    <2> HIDE DEF H
    <2>2. HitsOK(H)
        BY <2>1 DEF HitsOK, Comparable
    <2> QED BY <2>2 DEF H
<1> HIDE DEF order, D
<1>4. Len(order) \in Nat \ {0} /\ l \in 1..Len(order) /\ \A i \in 1..Len(order) : order[i] \in D
    BY <1>1
<1> HIDE DEF m, l, r
<1>5. r \in [1..l -> D] /\ Len(r) = l
    <2>1. 1 \in Int /\ l \in Int /\ (\A i \in 1..l : order[i] \in D) /\ 1 <= l
        BY <1>4
    <2>2. r \in Seq(D) /\ Len(r) = l - 1 + 1
        BY <1>2, <2>1, SubSeqProperties
    <2> QED BY <2>1, <2>2
<1> DEFINE R == {r[i] : i \in 1..l}
<1>6. ToSet(r) = R
    BY <1>5 DEF ToSet
<1>7. R \subseteq D
    BY <1>5
<1>8. IsFiniteSet(R)
    <2>1. IsFiniteSet(1..l)
        BY <1>4, NumbersTo
    <2> QED BY <2>1, ImageIsFinite
<1>9. r \in Seq(R) /\ r # <<>>
    <2>1. r \in Seq(D) /\ Len(r) = l /\ l # 0 /\ \A i \in 1..Len(r) : r[i] \in R
        BY <1>4, <1>5
    <2>2. r = [i \in 1..l |-> r[i]] /\ \A i \in 1..l : r[i] \in R
        BY <1>5, <2>1
    <2> HIDE DEF R
    <2>3. r \in [1..l -> R]
        BY <2>2
    <2>4. r \in Seq(R)
        BY <1>4, <2>3
    <2> QED BY <2>1, <2>4
<1> HIDE DEF R
<1> QED BY <1>3, <1>6, <1>7, <1>8, <1>9 DEF r, RoutedTo, D

LEMMA WithoutOne ==
    ASSUME NEW S, NEW s \in Seq(S), NEW i \in DOMAIN s
    PROVE  RemoveAt(s, i) \in Seq(S) /\ Len(RemoveAt(s, i)) = Len(s) - 1
<1> DEFINE a == SubSeq(s, 1, i - 1)
           b == SubSeq(s, i + 1, Len(s))
<1>1. i \in 1..Len(s) /\ Len(s) \in Nat
    OBVIOUS
<1>2. a \in Seq(S) /\ Len(a) = i - 1
    BY <1>1
<1>3. b \in Seq(S) /\ Len(b) = Len(s) - i
    <2>1. i + 1 \in Int /\ Len(s) \in Int /\ \A j \in (i + 1)..Len(s) : s[j] \in S
        BY <1>1
    <2>2. b \in Seq(S) /\ Len(b) = IF i + 1 <= Len(s) THEN Len(s) - (i + 1) + 1 ELSE 0
        BY <2>1, SubSeqProperties
    <2> QED BY <1>1, <2>2
<1> HIDE DEF a, b
<1>4. a \o b \in Seq(S) /\ Len(a \o b) = Len(a) + Len(b)
    BY <1>2, <1>3, ConcatProperties
<1>5. Len(a \o b) = Len(s) - 1
    BY <1>1, <1>2, <1>3, <1>4
<1> QED BY <1>4, <1>5 DEF RemoveAt, a, b

LEMMA ShardInvInit == setup \in Setups /\ ShardInit => ShardInv
<1> SUFFICES ASSUME setup \in Setups, ShardInit PROVE ShardInv
    OBVIOUS
<1>1. CallOK(setup, NoCall)
    BY DEF CallOK, CallFields, NoCall
<1>2. DOMAIN caller = Callers /\ \A c \in Callers : caller[c] = NoCall
    BY DEF ShardInit
<1>3. setup.size \in Nat
    BY SetupAssumption
<1>4. CacheOK(setup, cache)
    BY <1>3 DEF ShardInit, CacheOK
<1> QED BY <1>1, <1>2, <1>4 DEF ShardInv

\* One call goes on, and the cache may be another.
LEMMA OneCallGoesOn ==
    ASSUME ShardInv, setup' = setup, NEW c \in Callers, DOMAIN caller' = Callers,
           \A d \in Callers \ {c} : caller'[d] = caller[d],
           CallOK(setup, caller'[c]), CacheOK(setup, cache')
    PROVE  ShardInv'
<1>1. \A d \in Callers : CallOK(setup', caller'[d])
    BY DEF ShardInv
<1> QED BY <1>1 DEF ShardInv

LEMMA ChosenNIsNumber ==
    ASSUME setup \in Setups, NEW q \in Queries, NEW k \in TopKs, NEW n \in TopNs
    PROVE  ChosenN(k, n) \in Nat \ {0} /\ k \in Nat \ {0}
<1>1. n \in Nat \ {0} /\ k \in Nat \ {0}
    BY SetupAssumption
<1> DEFINE p == CHOOSE x \in Queries : TRUE
           order == setup.order[p]
           S == ToSet(order)
<1>2. p \in Queries
    OBVIOUS
<1>3. order \in Seq(DOMAIN setup.hits[p]) /\ order # <<>>
    BY <1>2, SetupAssumption
<1> HIDE DEF p
<1>4. Cardinality(S) \in Nat \ {0}
    <2> HIDE DEF order
    <2> DEFINE l == Len(order)
    <2>1. l \in Nat \ {0} /\ DOMAIN order = 1..l
        BY <1>3
    <2>2. S = {order[i] : i \in 1..l}
        BY <2>1 DEF ToSet
    <2>3. IsFiniteSet(1..l)
        BY <2>1, NumbersTo
    <2> HIDE DEF S, l
    <2>4. IsFiniteSet(S)
        BY <2>2, <2>3, ImageIsFinite
    <2>5. S # {}
        BY <2>1, <2>2
    <2> QED BY <2>4, <2>5, FS_CardinalityType, FS_EmptySet
<1> QED BY <1>1, <1>4 DEF ChosenN, p

LEMMA ShardInvCall == ASSUME ShardInv, NEW c \in Callers, Call(c) PROVE ShardInv'
<1>1. PICK q \in Queries, k \in TopKs, n \in TopNs :
          caller' = [caller EXCEPT ![c] = [NoCall EXCEPT !.step = "cache", !.query = q, !.k = k, !.n = ChosenN(k, n)]]
    BY DEF Call
<1> DEFINE r == [NoCall EXCEPT !.step = "cache", !.query = q, !.k = k, !.n = ChosenN(k, n)]
<1>2. /\ DOMAIN r = CallFields /\ r.step = "cache" /\ r.query = q /\ r.k = k /\ r.n = ChosenN(k, n)
      /\ r.got = <<>>
    BY DEF NoCall, CallFields
<1>3. setup \in Setups /\ DOMAIN caller = Callers /\ CacheOK(setup, cache)
    BY DEF ShardInv
<1>4. setup' = setup /\ cache' = cache
    BY DEF Call
<1> HIDE DEF r
<1>5. ChosenN(k, n) \in Nat \ {0}
    BY <1>3, ChosenNIsNumber
<1>6. CallOK(setup, r)
    BY <1>2, <1>5 DEF CallOK
<1>7. caller'[c] = r /\ DOMAIN caller' = Callers /\ \A d \in Callers \ {c} : caller'[d] = caller[d]
    BY <1>1, <1>3 DEF r
<1> QED BY <1>3, <1>4, <1>6, <1>7, OneCallGoesOn

LEMMA OthersAreKept ==
    ASSUME CacheOK(setup, cache), NEW c
    PROVE  /\ Others(c) \in Seq(EntriesOf(setup)) /\ Len(Others(c)) <= Len(cache)
           /\ HitsOf(c) # {} => /\ TheHit(c) \in DOMAIN cache /\ cache[TheHit(c)] \in EntriesOf(setup)
                                /\ cache[TheHit(c)].key = CacheKey(c)
                                /\ Len(Others(c)) = Len(cache) - 1
<1> DEFINE S == EntriesOf(setup)
           h == TheHit(c)
<1>1. cache \in Seq(S) /\ Len(cache) \in Nat
    BY DEF CacheOK
<1>2. CASE HitsOf(c) = {}
    BY <1>1, <1>2 DEF Others
<1>3. CASE HitsOf(c) # {}
    <2>1. h \in HitsOf(c)
        BY <1>3 DEF TheHit
    <2>2. h \in DOMAIN cache /\ cache[h].key = CacheKey(c)
        BY <2>1 DEF HitsOf
    <2> HIDE DEF h, S
    <2>3. RemoveAt(cache, h) \in Seq(S) /\ Len(RemoveAt(cache, h)) = Len(cache) - 1
        BY <1>1, <2>2, WithoutOne
    <2>4. cache[h] \in S
        BY <1>1, <2>2
    <2>5. Others(c) = RemoveAt(cache, h)
        BY <1>3 DEF Others, h
    <2>6. Len(cache) - 1 <= Len(cache)
        BY <1>1
    <2> QED BY <1>3, <2>2, <2>3, <2>4, <2>5, <2>6 DEF h, S
<1> QED BY <1>2, <1>3

LEMMA ShardInvHit == ASSUME ShardInv, NEW c \in Callers, HitCache(c) PROVE ShardInv'
<1> DEFINE hit == cache[TheHit(c)]
           r == caller[c]
           S == EntriesOf(setup)
<1>1. /\ r.step = "cache" /\ HitsOf(c) # {}
      /\ cache' = Append(Others(c), hit) /\ setup' = setup
      /\ caller' = [caller EXCEPT ![c].answer = hit.answer, ![c].step = "answered"]
    BY DEF HitCache, CallerAt
<1>2. setup \in Setups /\ DOMAIN caller = Callers /\ CacheOK(setup, cache) /\ CallOK(setup, r)
    BY DEF ShardInv
<1>3. /\ Others(c) \in Seq(S) /\ hit \in S /\ hit.key = <<r.query, r.k, r.n>>
      /\ Len(Others(c)) = Len(cache) - 1
    BY <1>1, <1>2, OthersAreKept DEF CacheKey
<1>4. DOMAIN r = CallFields /\ r.query \in Queries /\ r.k \in TopKs /\ r.n \in Nat \ {0}
    BY <1>1, <1>2 DEF CallOK
<1>5. hit.answer \in RightAnswers(setup, r.query, r.k, r.n)
    <2> HIDE DEF hit
    <2>0. hit \in EntriesOf(setup)
        BY <1>3
    <2>1. PICK x \in AnySearch : \E a \in RightAnswers(setup, x[1], x[2], x[3]) : hit = [key |-> x, answer |-> a]
        BY <2>0, EntryIs
    <2>2. hit.key = x /\ hit.answer \in RightAnswers(setup, x[1], x[2], x[3])
        BY <2>1
    <2>3. x[1] = r.query /\ x[2] = r.k /\ x[3] = r.n
        BY <1>3, <2>2
    <2> QED BY <2>2, <2>3
<1>6. /\ DOMAIN caller' = Callers /\ \A d \in Callers \ {c} : caller'[d] = caller[d]
      /\ caller'[c] = [r EXCEPT !.answer = hit.answer, !.step = "answered"]
    BY <1>1, <1>2
<1>7. Len(cache) <= setup.size /\ setup.size \in Nat /\ Len(cache) \in Nat
    BY <1>2, SetupAssumption DEF CacheOK
<1> HIDE DEF hit, r, S
<1>8. CacheOK(setup, cache')
    <2>1. Append(Others(c), hit) \in Seq(S) /\ Len(Append(Others(c), hit)) = Len(Others(c)) + 1
        BY <1>3, AppendProperties
    <2> QED BY <1>1, <1>3, <1>7, <2>1 DEF CacheOK, S
<1>9. CallOK(setup, caller'[c])
    <2> DEFINE t == [r EXCEPT !.answer = hit.answer, !.step = "answered"]
    <2>1. /\ DOMAIN t = CallFields /\ t.step = "answered" /\ t.query = r.query /\ t.k = r.k /\ t.n = r.n
          /\ t.answer = hit.answer
        BY <1>4 DEF CallFields
    <2> HIDE DEF t
    <2>2. CallOK(setup, t)
        BY <1>4, <1>5, <2>1 DEF CallOK
    <2> QED BY <1>6, <2>2 DEF t
<1> QED BY <1>1, <1>6, <1>8, <1>9, OneCallGoesOn

LEMMA ShardInvMiss == ASSUME ShardInv, NEW c \in Callers, MissCache(c) PROVE ShardInv'
<1> DEFINE r == caller[c]
           route == RouteOf(setup, r.query, r.n)
           t == [r EXCEPT !.left = route, !.step = "ask"]
<1>1. /\ r.step = "cache" /\ cache' = Others(c) /\ setup' = setup
      /\ caller' = [caller EXCEPT ![c].left = route, ![c].step = "ask"]
    BY RouteIsOf DEF MissCache, CallerAt
<1>2. setup \in Setups /\ DOMAIN caller = Callers /\ CacheOK(setup, cache) /\ CallOK(setup, r)
    BY DEF ShardInv
<1>3. CacheOK(setup, cache')
    <2>1. Others(c) \in Seq(EntriesOf(setup)) /\ Len(Others(c)) <= Len(cache)
        BY <1>2, OthersAreKept
    <2>2. Len(cache) <= setup.size /\ setup.size \in Nat /\ Len(cache) \in Nat /\ Len(Others(c)) \in Nat
        BY <1>2, <2>1, SetupAssumption DEF CacheOK
    <2> QED BY <1>1, <2>1, <2>2 DEF CacheOK
<1>4. /\ DOMAIN caller' = Callers /\ \A d \in Callers \ {c} : caller'[d] = caller[d]
      /\ caller'[c] = t
    BY <1>1, <1>2
<1>5. DOMAIN r = CallFields /\ r.query \in Queries /\ r.k \in TopKs /\ r.n \in Nat \ {0} /\ r.got = <<>>
    BY <1>1, <1>2 DEF CallOK
<1> HIDE DEF r, route
<1>6. route \in Seq(RoutedTo(setup, r.query, r.n)) /\ route # <<>>
    BY <1>2, <1>5, RouteFacts DEF route
<1>7. /\ DOMAIN t = CallFields /\ t.step = "ask" /\ t.query = r.query /\ t.k = r.k /\ t.n = r.n
      /\ t.got = <<>> /\ t.left = route
    BY <1>5 DEF CallFields
<1> HIDE DEF t
<1>8. CallOK(setup, t)
    <2>1. t.got \in Seq(AnswersOf(setup, r.query, r.k, r.n))
        BY <1>7
    <2> QED BY <1>5, <1>6, <1>7, <2>1 DEF CallOK
<1> QED BY <1>1, <1>3, <1>4, <1>8, OneCallGoesOn

LEMMA ShardInvAsk == ASSUME ShardInv, NEW c \in Callers, AskShard(c) PROVE ShardInv'
<1> DEFINE r == caller[c]
           shard == Head(r.left)
           results == TopOf(setup.hits[r.query][shard], r.k)
           shards == RoutedTo(setup, r.query, r.n)
           answers == AnswersOf(setup, r.query, r.k, r.n)
<1>1. PICK up \in BOOLEAN :
          caller' = [caller EXCEPT
               ![c].left = Tail(@),
               ![c].got  = IF up THEN Append(@, results) ELSE @,
               ![c].step = IF Len(caller[c].left) = 1 THEN "merge" ELSE "ask"]
    BY ShardAnswerIsTop DEF AskShard
<1>2. r.step = "ask" /\ setup' = setup /\ cache' = cache
    BY DEF AskShard, CallerAt
<1>3. setup \in Setups /\ DOMAIN caller = Callers /\ CacheOK(setup, cache) /\ CallOK(setup, r)
    BY DEF ShardInv
<1>4. /\ DOMAIN r = CallFields /\ r.query \in Queries /\ r.k \in TopKs /\ r.n \in Nat \ {0}
      /\ r.left \in Seq(shards) /\ r.left # <<>> /\ r.got \in Seq(answers)
    BY <1>2, <1>3 DEF CallOK
<1> DEFINE t == [r EXCEPT !.left = Tail(@), !.got = IF up THEN Append(@, results) ELSE @,
                          !.step = IF Len(r.left) = 1 THEN "merge" ELSE "ask"]
<1>5. /\ DOMAIN caller' = Callers /\ \A d \in Callers \ {c} : caller'[d] = caller[d]
      /\ caller'[c] = t
    BY <1>1, <1>3
<1> HIDE DEF r
<1>6. /\ DOMAIN t = CallFields /\ t.step = (IF Len(r.left) = 1 THEN "merge" ELSE "ask")
      /\ t.query = r.query /\ t.k = r.k /\ t.n = r.n
      /\ t.left = Tail(r.left) /\ t.got = (IF up THEN Append(r.got, results) ELSE r.got)
    BY <1>4 DEF CallFields
<1>7. shard \in shards /\ Tail(r.left) \in Seq(shards) /\ Len(Tail(r.left)) = Len(r.left) - 1
    <2> HIDE DEF shards
    <2> QED BY <1>4, HeadTailProperties
<1>8. results \in answers
    BY <1>7 DEF AnswersOf
<1> HIDE DEF t, results, answers, shards
<1>9. t.got \in Seq(answers)
    BY <1>4, <1>6, <1>8, AppendProperties
<1>10. t.step = "ask" => t.left # <<>>
    <2> SUFFICES ASSUME t.step = "ask", t.left = <<>> PROVE FALSE
        OBVIOUS
    <2>1. Len(r.left) # 1
        BY <1>6
    <2>2. Tail(r.left) = <<>>
        BY <1>6
    <2>3. Len(Tail(r.left)) = 0
        <3>1. \A x : x = <<>> => Len(x) = 0
            OBVIOUS
        <3> QED BY <2>2, <3>1
    <2>4. Len(r.left) \in Nat
        BY <1>4
    <2> QED BY <1>7, <2>1, <2>3, <2>4
<1>11. t.step \in {"ask", "merge"}
    BY <1>6
<1>12. CallOK(setup, t)
    BY <1>4, <1>6, <1>7, <1>9, <1>10, <1>11 DEF CallOK, answers, shards
<1> QED BY <1>2, <1>3, <1>5, <1>12, OneCallGoesOn

LEMMA ShardInvMerge == ASSUME ShardInv, NEW c \in Callers, MergeAndKeep(c) PROVE ShardInv'
<1> DEFINE r == caller[c]
           answer == BestK(MergedOf(setup, r.got, r.k), r.k)
           e == [key |-> CacheKey(c), answer |-> answer]
           entries == Append(Others(c), e)
           t == [r EXCEPT !.answer = answer, !.step = "answered"]
           S == EntriesOf(setup)
<1>1. /\ r.step = "merge" /\ setup' = setup
      /\ caller' = [caller EXCEPT ![c].answer = answer, ![c].step = "answered"]
      /\ cache' = IF Len(entries) > setup.size THEN Tail(entries) ELSE entries
    BY MergedIsOf DEF MergeAndKeep, CallerAt
<1>2. setup \in Setups /\ DOMAIN caller = Callers /\ CacheOK(setup, cache) /\ CallOK(setup, r)
    BY DEF ShardInv
<1>3. /\ DOMAIN caller' = Callers /\ \A d \in Callers \ {c} : caller'[d] = caller[d]
      /\ caller'[c] = t
    BY <1>1, <1>2
<1>4. /\ DOMAIN r = CallFields /\ r.query \in Queries /\ r.k \in TopKs /\ r.n \in Nat \ {0}
      /\ r.got \in Seq(AnswersOf(setup, r.query, r.k, r.n))
    BY <1>1, <1>2 DEF CallOK
<1>5. answer \in RightAnswers(setup, r.query, r.k, r.n)
    BY <1>4 DEF RightAnswers
<1>6. CacheKey(c) = <<r.query, r.k, r.n>>
    BY DEF CacheKey
<1> HIDE DEF r, answer
<1>7. CallOK(setup, t)
    <2>1. /\ DOMAIN t = CallFields /\ t.step = "answered" /\ t.query = r.query /\ t.k = r.k /\ t.n = r.n
          /\ t.answer = answer
        BY <1>4 DEF CallFields
    <2> HIDE DEF t
    <2> QED BY <1>4, <1>5, <2>1 DEF CallOK
<1>8. e \in S
    <2> DEFINE x == <<r.query, r.k, r.n>>
    <2>1. x \in AnySearch /\ x[1] = r.query /\ x[2] = r.k /\ x[3] = r.n /\ e = [key |-> x, answer |-> answer]
        BY <1>4, <1>6 DEF AnySearch
    <2> HIDE DEF x, e
    <2> QED BY <1>5, <2>1, EntryIs
<1>9. Others(c) \in Seq(S) /\ Len(Others(c)) <= Len(cache)
    BY <1>2, OthersAreKept
<1> HIDE DEF e, S, t
<1>10. entries \in Seq(S) /\ entries # <<>> /\ Len(entries) = Len(Others(c)) + 1
    BY <1>8, <1>9, AppendProperties
<1>11. Len(cache) <= setup.size /\ setup.size \in Nat /\ Len(cache) \in Nat /\ Len(Others(c)) \in Nat
    BY <1>2, <1>9, SetupAssumption DEF CacheOK
<1> HIDE DEF entries
<1>12. Tail(entries) \in Seq(S) /\ Len(Tail(entries)) = Len(entries) - 1
    BY <1>10, HeadTailProperties
<1>13. CacheOK(setup, cache')
    <2>1. CASE Len(entries) > setup.size
        BY <1>1, <1>9, <1>10, <1>11, <1>12, <2>1 DEF CacheOK, S
    <2>2. CASE ~(Len(entries) > setup.size)
        BY <1>1, <1>10, <1>11, <2>2 DEF CacheOK, S
    <2> QED BY <2>1, <2>2
<1> QED BY <1>1, <1>3, <1>7, <1>13, OneCallGoesOn

LEMMA ShardInvNext == ShardInv /\ [ShardNext]_shardVars => ShardInv'
<1> SUFFICES ASSUME ShardInv, [ShardNext]_shardVars PROVE ShardInv'
    OBVIOUS
<1>1. CASE UNCHANGED shardVars
    BY <1>1 DEF ShardInv, shardVars
<1>2. CASE ShardNext
    <2>1. PICK c \in Callers : Call(c) \/ HitCache(c) \/ MissCache(c) \/ AskShard(c) \/ MergeAndKeep(c)
        BY <1>2 DEF ShardNext, CallerStep
    <2> QED BY <2>1, ShardInvCall, ShardInvHit, ShardInvMiss, ShardInvAsk, ShardInvMerge
<1> QED BY <1>1, <1>2

\* The answers the shards of a route may give, merged, are right.
LEMMA MergedIsRight ==
    ASSUME setup \in Setups, NEW q \in Queries, NEW k \in TopKs, NEW n \in Nat \ {0},
           NEW a \in RightAnswers(setup, q, k, n)
    PROVE  IF setup.kind = "distributed"
           THEN \E up \in SUBSET RoutedTo(setup, q, n) : IsTop(a, UNION {setup.hits[q][s] : s \in up}, k)
           ELSE KeepsOrder(a, RoutedTo(setup, q, n), setup.hits[q])
<1> DEFINE shards == RoutedTo(setup, q, n)
           Hits == setup.hits[q]
           Ans == [s \in shards |-> TopOf(Hits[s], k)]
           answers == AnswersOf(setup, q, k, n)
<1>1. PICK got \in Seq(answers) : a = BestK(Merged(got, k), k)
    BY MergedIsOf DEF RightAnswers
<1>2. k \in Nat \ {0} /\ setup.kind \in {"distributed", "m10"}
    BY SetupAssumption
<1>3. IsFiniteSet(shards) /\ \A s \in shards : HitsOK(Hits[s])
    BY RouteFacts
<1>4. \A s \in shards : AnswerIs(Hits[s], k, Ans[s])
    <2> SUFFICES ASSUME NEW s \in shards PROVE AnswerIs(Hits[s], k, TopOf(Hits[s], k))
        OBVIOUS
    <2>1. AnswerIs(setup.hits[q][s], k, ShardAnswer(q, s, k))
        BY <1>2, <1>3, ShardAnswerIs
    <2> QED BY <2>1, ShardAnswerIsTop
<1>5. \A x \in answers : \E s \in shards : x = Ans[s]
    BY DEF AnswersOf
<1> DEFINE m == Len(got)
<1> HIDE DEF answers, shards, Hits, Ans
<1>6. m \in Nat /\ DOMAIN got = 1..m /\ \A i \in 1..m : \E s \in shards : got[i] = Ans[s]
    BY <1>5
<1> HIDE DEF m
<1>7. CASE setup.kind = "m10"
    <2>1. KeepsOrder(BestK(Merged(got, k), k), shards, Hits)
        BY <1>2, <1>3, <1>4, <1>6, <1>7, MergedKeepsOrder
    <2> QED BY <1>1, <1>7, <2>1 DEF shards, Hits
<1>8. CASE setup.kind = "distributed"
    <2> DEFINE up == {s \in shards : \E i \in 1..m : got[i] = Ans[s]}
    <2>1. up \in SUBSET shards /\ IsFiniteSet(up)
        BY <1>3, FS_Subset
    <2>2. GotFrom(got, k, Hits, up)
        BY <1>3, <1>4, <1>6, <2>1 DEF GotFrom
    <2>3. IsTop(a, AllHits(Hits, up), k)
        BY <1>1, <1>2, <1>8, <2>2, MergedIsTop
    <2> HIDE DEF up
    <2> QED BY <1>8, <2>1, <2>3 DEF AllHits, shards, Hits
<1> QED BY <1>2, <1>7, <1>8

LEMMA ShardInvIsOne == ShardInv => ShardsAnswerAsOne
<1> SUFFICES ASSUME ShardInv PROVE ShardsAnswerAsOne
    OBVIOUS
<1>1. setup \in Setups /\ Len(cache) <= setup.size
    BY DEF ShardInv, CacheOK
<1>2. ASSUME NEW c \in Callers, CallerAt(c, "answered")
      PROVE  LET shards == ToSet(Route(caller[c].query, caller[c].n))
                 hits   == setup.hits[caller[c].query]
             IN  IF setup.kind = "distributed"
                 THEN \E up \in SUBSET shards : IsTop(caller[c].answer, UNION {hits[s] : s \in up}, caller[c].k)
                 ELSE KeepsOrder(caller[c].answer, shards, hits)
    <2> DEFINE r == caller[c]
    <2>1. r.query \in Queries /\ r.k \in TopKs /\ r.n \in Nat \ {0} /\ r.answer \in RightAnswers(setup, r.query, r.k, r.n)
        BY <1>2 DEF ShardInv, CallOK, CallerAt
    <2>2. ToSet(Route(r.query, r.n)) = RoutedTo(setup, r.query, r.n)
        BY RouteIsOf DEF RoutedTo
    <2> HIDE DEF r
    <2>3. IF setup.kind = "distributed"
          THEN \E up \in SUBSET RoutedTo(setup, r.query, r.n) : IsTop(r.answer, UNION {setup.hits[r.query][s] : s \in up}, r.k)
          ELSE KeepsOrder(r.answer, RoutedTo(setup, r.query, r.n), setup.hits[r.query])
        BY <1>1, <2>1, MergedIsRight
    <2> QED BY <2>2, <2>3 DEF r
<1> QED BY <1>1, <1>2 DEF ShardsAnswerAsOne

-----------------------------------------------------------------------------
(* All services *)

\* A step of the whole is a step, or none, of each service.
LEMMA ServicesStep ==
    ASSUME [Next]_vars
    PROVE  /\ [PlanNext]_planVars /\ [RegionNext]_regionVars /\ [VideoNext]_videoVars
           /\ [OcrNext]_ocrVars /\ [DevNext]_devVars /\ [EncoderNext]_encoderVars /\ [SampleNext]_sampleVars
           /\ [ShardNext]_shardVars
    BY DEF vars, Next, UsePlans, UseRegions, UseVideos, UseShards, UseOcr, UseDev, UseSampler, UseEncoder,
           PlansOnly, RegionsOnly, VideosOnly, ShardsOnly, OcrOnly, DevOnly, SamplerOnly, EncoderOnly

ServicesInv == PlanInv /\ RegionInv /\ VideoInv /\ OcrInv /\ DevInv /\ EncoderInv /\ SampleInv /\ ShardInv

LEMMA ServicesInvSafe == Spec => []ServicesInv
<1>1. Init => site \in Sites
    BY SiteAssumption DEF Init, Setup, SomeSite
<1>2. Init => setup \in Setups
    BY SetupAssumption DEF Init, Setup, SomeSetup
<1>3. Init => ServicesInv
    BY <1>1, <1>2, PlanInvInit, RegionInvInit, VideoInvInit, OcrInvInit, DevInvInit, EncoderInvInit, SampleInvInit,
       ShardInvInit
       DEF Init, ServicesInv
<1>4. ServicesInv /\ [Next]_vars => ServicesInv'
    BY ServicesStep, PlanInvNext, RegionInvNext, VideoInvNext, OcrInvNext, DevInvNext, EncoderInvNext, SampleInvStep,
       ShardInvNext
       DEF ServicesInv
<1> QED BY <1>3, <1>4, PTL DEF Spec

\* Of all the services together, for any threads, queries, videos, readings, signals and
\* devices: a search is given a plan for its own text and task that leaves nothing of the
\* text out, a region is served whole,
\* the replies for a video are cut from one file, the first OCR engine is given up for a
\* reason, the development server leaves nothing behind, a component runs where it was
\* asked to, no image or text is lost from a batch, the sample of a video covers it, and the shards
\* answer as one index.
THEOREM ServicesAreSafe ==
    Spec => [](/\ PlanCacheIsSound /\ PlanKeepsTheQuery /\ RegionIsWhole /\ OneFileIsServed /\ BreakerIsEarned /\ SupervisorCleansUp
               /\ DevicesAreHonoured /\ EncodingIsComplete /\ SamplesCoverTheVideo
               /\ ShardsAnswerAsOne)
<1>1. ServicesInv => /\ PlanCacheIsSound /\ PlanKeepsTheQuery /\ RegionIsWhole /\ OneFileIsServed /\ BreakerIsEarned /\ SupervisorCleansUp
                     /\ DevicesAreHonoured /\ EncodingIsComplete /\ SamplesCoverTheVideo
                     /\ ShardsAnswerAsOne
    BY PlanInvIsSound, PlanInvKeeps, RegionInvIsWhole, OcrInvIsEarned, DeviceInvIsHonoured, EncoderInvIsComplete, SampleInvCovers,
       ShardInvIsOne
       DEF ServicesInv, VideoInv, DevInv, EncoderInv
<1> QED BY <1>1, ServicesInvSafe, PTL

\* QueryPlanCache and _ensure_loaded, with any number of searches, refiners and restarts.
COROLLARY QueryPlansAreSound == Spec => []PlanCacheIsSound
    BY ServicesAreSafe, PTL

\* DeterministicQueryParser, LocalLLMQueryRefiner and search_trake: whatever the words, the
\* terms, the exclusions and the model's answers, a plan that a search is given, from the parser,
\* the model or a cache, searches for all that its text says.
COROLLARY PlansKeepTheQuery == Spec => []PlanKeepsTheQuery
    BY ServicesAreSafe, PTL

\* AdaptiveOcr: the threshold was reached by images the first engine failed on, in a row.
COROLLARY BreakerTripsForAReason == Spec => []BreakerIsEarned
    BY ServicesAreSafe, PTL

\* device_policy: for any environment, options and hardware, every component made by the
\* server or by a command runs where it was asked to, and so does what /health shows.
COROLLARY ComponentsRunWhereAsked == Spec => []DevicesAreHonoured
    BY ServicesAreSafe, PTL

\* SigLIP2Encoder: for any batch sizes, window, overlap and number of pieces, however
\* often memory runs out, the embeddings are those of the items in their order.
COROLLARY EncodingLosesNothing == Spec => []EncodingIsComplete
    BY ServicesAreSafe, PTL

\* iter_sample_frames, the shots' middles and filter_near_duplicate_frames: for any frames,
\* gaps, interval and shots, every point in time has a nearest frame in the sample.
COROLLARY SamplingCoversTheVideo == Spec => []SamplesCoverTheVideo
    BY ServicesAreSafe, PTL

\* DistributedCoordinator, M10Coordinator: for any threads, shards, routes and failures, an
\* answer, also one from the cache, is that of one index over the shards that answered, and
\* with normalised scores the frames of one shard keep their order.
COROLLARY ShardsActAsOneIndex == Spec => []ShardsAnswerAsOne
    BY ServicesAreSafe, PTL
=============================================================================
