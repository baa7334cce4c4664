-------------------------------- MODULE S3 --------------------------------
(***************************************************************************)
(* The object store, src/openaws/s3.py.                                    *)
(*                                                                         *)
(* Time is the number of bodies received so far.  A body is the sequence   *)
(* of the numbers of the uploads it consists of: one for a put_object, one *)
(* per part for a multipart upload.  Types, ETags and metadata go with the *)
(* body.  Presigned tokens touch no table.                                 *)
(***************************************************************************)
EXTENDS Requests, SequencesExt

CONSTANTS
    Buckets, Keys, Tags,
    Uploads,      \* upload ids (uuid4)
    PartNumbers,
    Initial,      \* the versioning of the buckets of the data directory at start
    Settings,     \* the versioning clients ask for
    NoUpload, NoPart

Versioning == {"none", "disabled", "enabled", "suspended"}  \* "none": no row

Place == Buckets \X Keys

Time == 0 .. MaxRequests

Body == SeqOf(Time, MaxRequests)

Version == [place : Place, at : Time, body : Body, latest : BOOLEAN]

VARIABLES
    buckets,    \* table s3_buckets: the versioning column
    objects,    \* table s3_objects: the body column, by place
    versions,   \* table s3_object_versions; at is version_id and last_modified
    tags,       \* table s3_object_tags
    uploads,    \* table s3_multipart_uploads, by id: the place
    parts,      \* table s3_multipart_parts, by id and part number
    issued,     \* upload ids ever returned by uuid4
    clock,      \* bodies received so far
    given,      \* history: the part last stored for an upload and a number
    completed   \* history: [upload, at, list, body] of what completions put

objectTables == <<objects, versions, tags>>
uploadTables == <<uploads, parts, issued, given>>
tables == <<buckets, objectTables, uploadTables, completed>>
s3vars == <<tables, clock>>
vars == <<requests, s3vars>>

TypeOK ==
    /\ RequestsTypeOK(Place \cup Uploads)
    /\ \A t \in Workers : At(t, "version") \/ At(t, "object") =>
          local[t].place \in Place /\ local[t].body \in Body /\ local[t].at \in Time
    /\ buckets \in [Buckets -> Versioning]
    /\ DOMAIN objects \subseteq Place /\ \A p \in DOMAIN objects : objects[p] \in Body
    /\ versions \subseteq Version
    /\ \A v, w \in versions : v.at = w.at => v = w
    /\ tags \in [Place -> SUBSET Tags]
    /\ uploads \in [Uploads -> Place \cup {<<>>}]
    /\ \A u \in Uploads \ issued : uploads[u] = <<>>
    /\ {parts, given} \subseteq [Uploads -> [PartNumbers -> Time \cup {NoPart}]]
    /\ clock \in Time

-----------------------------------------------------------------------------
Exists(p) == buckets[p[1]] # "none"

VersionsOf(p) == {v \in versions : v.place = p}

(* A request whose first statement only looks. *)
Ask(t, s) == Begin(t, s) /\ UNCHANGED s3vars

(* A request for the object at p. *)
OnObject(p, todo) == [todo |-> todo, touches |-> {p}, place |-> p, upload |-> NoUpload]

-----------------------------------------------------------------------------
(* Buckets *)

OnBucket(b, step) == [todo |-> <<step>>, touches |-> {}, bucket |-> b]

CreateBucket(t, b) == buckets[b] = "none" /\ Ask(t, OnBucket(b, "create"))

(* The name is the primary key: a second INSERT of it raises. *)
CreateBucketInsert(t) ==
    /\ Does(t, "create")
    /\ buckets' = [buckets EXCEPT ![local[t].bucket] = IF @ = "none" THEN "disabled" ELSE @]
    /\ UNCHANGED <<objectTables, uploadTables, completed, clock>>

(* The bucket exists and holds no object; versions are not counted.        *)
DeleteBucketCount(t, b) ==
    /\ buckets[b] # "none"
    /\ \A k \in Keys : <<b, k>> \notin DOMAIN objects
    /\ Ask(t, OnBucket(b, "drop"))

DeleteBucketDrop(t) ==
    /\ Does(t, "drop")
    /\ buckets' = [buckets EXCEPT ![local[t].bucket] = "none"]
    /\ UNCHANGED <<objectTables, uploadTables, completed, clock>>

PutVersioningRequire(t, b) == buckets[b] # "none" /\ Ask(t, OnBucket(b, "versioning"))

PutVersioning(t) ==
    /\ Does(t, "versioning")
    /\ \E status \in Settings :
          buckets' = [buckets EXCEPT ![local[t].bucket] = IF @ = "none" THEN @ ELSE status]
    /\ UNCHANGED <<objectTables, uploadTables, completed, clock>>

-----------------------------------------------------------------------------
(* put_object *)

(* What follows once it has read the row of the bucket. *)
PutStatements(b) ==
    IF buckets[b] = "enabled" THEN <<"clear", "version", "object">> ELSE <<"object">>

(* Both _require_bucket of a client's put_object; the first can only refuse. *)
PutRequire(t, p) ==
    /\ Exists(p)
    /\ clock' = clock + 1
    /\ Begin(t, Also(OnObject(p, PutStatements(p[1])), [at |-> clock', body |-> <<clock'>>]))
    /\ UNCHANGED tables

(* Mutant: a copy has no version id of its own. *)
PutInsideUnnamed(t) ==
    LET s == local[t] IN
    /\ At(t, "put")
    /\ clock' = clock + 1
    /\ IF Exists(s.place)
       THEN Continue(t, [s EXCEPT !.todo = PutStatements(s.place[1]) \o Tail(@)])
       ELSE Ends(t)
    /\ UNCHANGED tables

(* The same, called by copy_object or complete_multipart_upload. *)
PutInside(t) ==
    LET s == local[t] IN
    /\ At(t, "put")
    /\ clock' = clock + 1
    /\ IF Exists(s.place)
       THEN Continue(t, [s EXCEPT !.todo = PutStatements(s.place[1]) \o Tail(@), !.at = clock'])
       ELSE Ends(t)
    /\ UNCHANGED tables

(* Mutant: the version that was the latest stays so. *)
PutClearNothing(t) == Does(t, "clear") /\ UNCHANGED s3vars

(* UPDATE ... SET is_latest=0 *)
PutClear(t) ==
    /\ Does(t, "clear")
    /\ versions' = (versions \ VersionsOf(local[t].place))
                   \cup {[v EXCEPT !.latest = FALSE] : v \in VersionsOf(local[t].place)}
    /\ UNCHANGED <<buckets, objects, tags, uploadTables, completed, clock>>

PutVersion(t) ==
    /\ Does(t, "version")
    /\ versions' = versions \cup {[place |-> local[t].place, at |-> local[t].at,
                                   body |-> local[t].body, latest |-> TRUE]}
    /\ UNCHANGED <<buckets, objects, tags, uploadTables, completed, clock>>

PutObject(t) ==
    LET s == local[t] IN
    /\ Does(t, "object")
    /\ objects' = Also([p \in {s.place} |-> s.body], objects)
    /\ completed' = IF s.upload = NoUpload THEN completed ELSE completed \cup
                      {[upload |-> s.upload, at |-> s.at, list |-> s.list, body |-> s.body]}
    /\ UNCHANGED <<buckets, versions, tags, uploadTables, clock>>

(* copy_object: get_object of the source, then put_object.                 *)
CopyRead(t, p, q) ==
    /\ Exists(p) /\ p \in DOMAIN objects
    /\ Ask(t, Also(OnObject(q, <<"put">>), [at |-> 0, body |-> objects[p]]))

-----------------------------------------------------------------------------
(* delete_object, without and with a version id *)

DeleteRequire(t, p) ==
    Exists(p) /\ Ask(t, OnObject(p, <<"delete object", "delete versions">>))

DeleteObject(t) ==
    /\ Does(t, "delete object")
    /\ objects' = [p \in DOMAIN objects \ {local[t].place} |-> objects[p]]
    /\ UNCHANGED <<buckets, versions, tags, uploadTables, completed, clock>>

DeleteVersions(t) ==
    /\ Does(t, "delete versions")
    /\ versions' = versions \ VersionsOf(local[t].place)
    /\ UNCHANGED <<buckets, objects, tags, uploadTables, completed, clock>>

DeleteVersionRequire(t, v) ==
    /\ Exists(v.place)
    /\ Ask(t, Also(OnObject(v.place, <<"delete version", "next">>), [at |-> v.at]))

DeleteVersion(t) ==
    /\ Does(t, "delete version")
    /\ versions' = {v \in versions : v.at # local[t].at}
    /\ UNCHANGED <<buckets, objects, tags, uploadTables, completed, clock>>

Newest(S) == {v \in S : \A w \in S : w.at <= v.at}

(* SELECT ... ORDER BY last_modified DESC LIMIT 1, and where it leads.     *)
DeleteVersionNext(t) ==
    LET next == Newest(VersionsOf(local[t].place)) IN
    /\ At(t, "next")
    /\ IF next = {} THEN Continue(t, [local[t] EXCEPT !.todo = <<"delete object">>])
       ELSE \E v \in next : Continue(t, [local[t] EXCEPT !.todo = <<"promote">>, !.at = v.at])
    /\ UNCHANGED s3vars

DeleteVersionPromote(t) ==
    /\ Does(t, "promote")
    /\ versions' = {IF v.at = local[t].at THEN [v EXCEPT !.latest = TRUE] ELSE v : v \in versions}
    /\ UNCHANGED <<buckets, objects, tags, uploadTables, completed, clock>>

-----------------------------------------------------------------------------
(* Tagging: the tags there are DELETEd, the new ones INSERTed one by one.  *)

OnTags(p, new) == [todo |-> <<"untag">>, touches |-> {}, place |-> p, new |-> new]

PutTaggingRequire(t, p, new) ==
    Exists(p) /\ p \in DOMAIN objects /\ Ask(t, OnTags(p, new))

DeleteTaggingRequire(t, p) ==
    Exists(p) /\ p \in DOMAIN objects /\ Ask(t, OnTags(p, {}))

Untag(t) ==
    /\ At(t, "untag")
    /\ tags' = [tags EXCEPT ![local[t].place] = {}]
    /\ Continue(t, [local[t] EXCEPT !.todo = IF local[t].new = {} THEN <<>> ELSE <<"tag">>])
    /\ UNCHANGED <<buckets, objects, versions, uploadTables, completed, clock>>

(* The primary key refuses a tag that another request has inserted.        *)
Tag(t) ==
    LET s == local[t] IN
    /\ At(t, "tag")
    /\ \E g \in s.new :
          /\ tags' = [tags EXCEPT ![s.place] = @ \cup {g}]
          /\ IF g \in tags[s.place] \/ s.new = {g} THEN Ends(t)
             ELSE Continue(t, [s EXCEPT !.new = @ \ {g}])
    /\ UNCHANGED <<buckets, objects, versions, uploadTables, completed, clock>>

-----------------------------------------------------------------------------
(* Multipart uploads *)

OnUpload(u, todo) ==
    [todo |-> todo, touches |-> {u}, place |-> uploads[u], upload |-> u, at |-> 0, list |-> {}]

CreateUploadRequire(t, p) ==
    Exists(p) /\ Ask(t, [OnObject(p, <<"create upload">>) EXCEPT !.touches = {}])

CreateUpload(t) ==
    /\ Does(t, "create upload")
    /\ \E u \in Uploads \ issued : /\ uploads' = [uploads EXCEPT ![u] = local[t].place]
                                   /\ issued' = issued \cup {u}
    /\ UNCHANGED <<buckets, objectTables, parts, given, completed, clock>>

UploadPartRequire(t, u, n) ==
    /\ uploads[u] # <<>>
    /\ clock' = clock + 1
    /\ Begin(t, [OnUpload(u, <<"part">>) EXCEPT !.at = clock', !.list = {n}])
    /\ UNCHANGED tables

UploadPart(t) ==
    LET s == local[t] IN
    /\ Does(t, "part")
    /\ parts' = [parts EXCEPT ![s.upload] = Also([n \in s.list |-> s.at], @)]
    /\ given' = [given EXCEPT ![s.upload] = Also([n \in s.list |-> s.at], @)]
    /\ UNCHANGED <<buckets, objectTables, uploads, issued, completed, clock>>

CompleteRequire(t, u, list) ==
    /\ uploads[u] # <<>>
    /\ Ask(t, [OnUpload(u, <<"select">>) EXCEPT !.touches = {u, uploads[u]}, !.list = list])

(* The listed parts in the order of their numbers. *)
Listed(list, have) == [i \in 1 .. Cardinality(list) |-> have[SetToSortSeq(list, <)[i]]]

(* Mutant: every part of the upload is joined, listed or not. *)
JoinedAll(u, list) == Listed({n \in PartNumbers : parts[u][n] # NoPart}, parts[u])

Joined(u, list) == Listed(list, parts[u])

(* The parts are SELECTed; a listed one that is missing ends the request.  *)
CompleteSelect(t) ==
    LET s == local[t] IN
    /\ At(t, "select")
    /\ IF \A n \in s.list : parts[s.upload][n] # NoPart
       THEN Continue(t, Also([s EXCEPT !.todo = <<"put", "drop parts", "drop upload">>],
                             [body |-> Joined(s.upload, s.list)]))
       ELSE Ends(t)
    /\ UNCHANGED s3vars

AbortRequire(t, u) ==
    uploads[u] # <<>> /\ Ask(t, OnUpload(u, <<"drop parts", "drop upload">>))

DropParts(t) ==
    /\ Does(t, "drop parts")
    /\ parts' = [parts EXCEPT ![local[t].upload] = [n \in PartNumbers |-> NoPart]]
    /\ UNCHANGED <<buckets, objectTables, uploads, issued, given, completed, clock>>

DropUpload(t) ==
    /\ Does(t, "drop upload")
    /\ uploads' = [uploads EXCEPT ![local[t].upload] = <<>>]
    /\ UNCHANGED <<buckets, objectTables, parts, issued, given, completed, clock>>

-----------------------------------------------------------------------------
InitTables ==
    /\ buckets = Initial
    /\ objects = <<>>
    /\ versions = {}
    /\ tags = [p \in Place |-> {}]
    /\ uploads = [u \in Uploads |-> <<>>]
    /\ parts = [u \in Uploads |-> [n \in PartNumbers |-> NoPart]]
    /\ given = parts
    /\ issued = {} /\ completed = {}
    /\ clock = 0

Init == InitRequests /\ InitTables

BucketStep(t) ==
    \/ \E b \in Buckets : CreateBucket(t, b) \/ DeleteBucketCount(t, b) \/ PutVersioningRequire(t, b)
    \/ CreateBucketInsert(t) \/ DeleteBucketDrop(t) \/ PutVersioning(t)

ObjectStep(t) ==
    \/ \E p \in Place : \/ PutRequire(t, p) \/ DeleteRequire(t, p)
                        \/ \E q \in Place : CopyRead(t, p, q)
    \/ \E v \in versions : DeleteVersionRequire(t, v)
    \/ PutInside(t) \/ PutClear(t) \/ PutVersion(t) \/ PutObject(t)
    \/ DeleteObject(t) \/ DeleteVersions(t)
    \/ DeleteVersion(t) \/ DeleteVersionNext(t) \/ DeleteVersionPromote(t)

TagStep(t) ==
    \/ \E p \in Place : \/ DeleteTaggingRequire(t, p)
                        \/ \E new \in SUBSET Tags : PutTaggingRequire(t, p, new)
    \/ Untag(t) \/ Tag(t)

UploadStep(t) ==
    \/ \E p \in Place : CreateUploadRequire(t, p)
    \/ \E u \in Uploads : \/ \E n \in PartNumbers : UploadPartRequire(t, u, n)
                          \/ \E list \in SUBSET PartNumbers : CompleteRequire(t, u, list)
                          \/ AbortRequire(t, u)
    \/ CreateUpload(t) \/ UploadPart(t) \/ CompleteSelect(t) \/ DropParts(t) \/ DropUpload(t)

Next ==
    \/ \E t \in Workers : BucketStep(t) \/ ObjectStep(t) \/ TagStep(t) \/ UploadStep(t)
    \/ (Crash \/ \E t \in Workers : Fails(t)) /\ UNCHANGED s3vars

Spec == Init /\ [][Next]_vars

-----------------------------------------------------------------------------
(* Properties *)

(* s3.py:113-140 and 254-286: where requests did not overlap, and none     *)
(* broke off, one version is the latest, it is the newest, and there is an *)
(* object as long as there is a version of it.                             *)
OneLatestVersion ==
    \A p \in Place : Quiet(p) /\ VersionsOf(p) # {} =>
        /\ {v \in VersionsOf(p) : v.latest} = Newest(VersionsOf(p))
        /\ p \in DOMAIN objects

(* s3.py:396-450: an upload nobody else works on meanwhile is completed at *)
(* most once, its object is the listed parts in the order of their numbers *)
(* and as they were last uploaded, and neither a completion nor an abort   *)
(* leaves parts behind.                                                    *)
MultipartWhole ==
    \A u \in Uploads \ disturbed :
        /\ \A c, d \in completed : c.upload = u /\ d.upload = u => c = d
        /\ \A c \in completed : c.upload = u => c.body = Listed(c.list, given[u])
        /\ Quiet(u) /\ uploads[u] = <<>> => \A n \in PartNumbers : parts[u][n] = NoPart
=============================================================================
