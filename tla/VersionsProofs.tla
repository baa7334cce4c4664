--------------------------- MODULE VersionsProofs ---------------------------
(* Theorems about the services of module Stores that keep versions: which  *)
(* version of an object a listing says is latest, what a multipart upload  *)
(* becomes, and which version of a secret is current.  They rest on the    *)
(* lemmas of StoresProofs about requests of every service.                 *)
EXTENDS StoresProofs, WellFoundedInduction

-----------------------------------------------------------------------------
(* S3: what requests have still to do; a put on its own, or the one of a   *)
(* completion, which drops the upload after it.                            *)
Drops == <<"drop parts", "drop upload">>
LastDrop == <<"drop upload">>
DeleteTodo == <<"delete object", "delete versions">>
LastDelete == <<"delete object">>
VersionsTodo == <<"delete versions">>
RemoveTodo == <<"delete version", "next">>
NextTodo == <<"next">>
PromoteTodo == <<"promote">>
PartTodo == <<"part">>
SelectTodo == <<"select">>
CreateTodo == <<"create upload">>

ToPut(up) == IF up = NoUpload THEN <<"put">> ELSE <<"put", "drop parts", "drop upload">>
ToClear(up) == IF up = NoUpload THEN <<"clear", "version", "object">>
               ELSE <<"clear", "version", "object", "drop parts", "drop upload">>
ToVersion(up) == IF up = NoUpload THEN <<"version", "object">>
                 ELSE <<"version", "object", "drop parts", "drop upload">>
ToObject(up) == IF up = NoUpload THEN <<"object">> ELSE <<"object", "drop parts", "drop upload">>

BucketSteps == {"create", "drop", "versioning", "untag", "tag"}
BucketTodos == {<<x>> : x \in BucketSteps}
ObjectTodos == BucketTodos \cup {<<>>, DeleteTodo, LastDelete, VersionsTodo, RemoveTodo, NextTodo,
                 PromoteTodo, PartTodo, SelectTodo, CreateTodo, Drops, LastDrop}
PutTodos(up) == {ToPut(up), ToClear(up), ToVersion(up), ToObject(up)}

(* The statement that comes next. *)
Ahead(s) == IF s.todo = <<>> THEN "nothing" ELSE Head(s.todo)

Numbering(s) == Ahead(s) \in {"clear", "version"}
Putting(s) == Ahead(s) \in {"put", "clear", "version", "object"}
Naming(s) == Ahead(s) \in {"delete version", "promote"}
Deleting(s) == Ahead(s) \in {"delete object", "delete versions", "delete version", "next", "promote"}

(* The fields of a request; c are the numbers given out. *)
ObjectFields(s) ==
    /\ {"todo", "touches"} \subseteq DOMAIN s
    /\ \/ s.todo \in ObjectTodos
       \/ "upload" \in DOMAIN s /\ s.todo \in PutTodos(s.upload)
    /\ Ahead(s) \in BucketSteps \cup {"nothing", "create upload"} => s.touches = {}
    /\ Ahead(s) = "create upload" => "place" \in DOMAIN s /\ s.place \in Store!Place
    /\ Deleting(s) => "place" \in DOMAIN s /\ s.place \in Store!Place /\ s.touches = {s.place}
    /\ Ahead(s) \in {"delete version", "next", "promote"} => "at" \in DOMAIN s
    /\ Ahead(s) \in {"part", "select", "drop parts", "drop upload"} =>
          /\ "upload" \in DOMAIN s /\ s.upload \in Uploads
          /\ s.upload \in s.touches /\ s.touches \subseteq {s.upload} \cup Store!Place
    /\ Ahead(s) = "part" => {"list", "at"} \subseteq DOMAIN s /\ s.touches = {s.upload}
    /\ Ahead(s) = "select" => /\ {"place", "list", "at"} \subseteq DOMAIN s /\ "body" \notin DOMAIN s
                              /\ s.place \in Store!Place /\ s.touches = {s.upload, s.place}
    /\ Putting(s) => /\ {"upload", "place", "at", "body"} \subseteq DOMAIN s /\ s.place \in Store!Place
                     /\ s.upload = NoUpload => s.touches = {s.place}
                     /\ s.upload # NoUpload => /\ s.upload \in Uploads /\ "list" \in DOMAIN s
                                               /\ s.touches = {s.upload, s.place}

ObjectLocal(s, c) == ObjectFields(s) /\ (Naming(s) \/ Numbering(s) => s.at \in Nat /\ s.at <= c)

VersionRow(v) ==
    /\ v = [place |-> v.place, at |-> v.at, body |-> v.body, latest |-> v.latest]
    /\ v.place \in Store!Place /\ v.at \in Nat /\ v.latest \in BOOLEAN

(* V are the versions: a number is one version's, or is about to be.       *)
Numbers(V, c, L) ==
    /\ c \in Nat
    /\ \A v \in V : VersionRow(v) /\ v.at <= c
    /\ \A v, w \in V : v.at = w.at => v = w
    /\ \A t \in Workers : Numbering(L[t]) =>
          /\ \A v \in V : v.at # L[t].at
          /\ \A u \in Workers : u # t /\ (Numbering(L[u]) \/ Naming(L[u])) => L[u].at # L[t].at
    /\ \A t \in Workers : Naming(L[t]) => \A v \in V : v.at = L[t].at => v.place = L[t].place

(* S are the versions of a place, there says whether it has an object, and *)
(* s is the request at work on it, if any.  No version need be the latest  *)
(* between some statements, nor need there be an object between others.    *)
NewestIn(S, v) == v \in S /\ \A w \in S : w.at <= v.at

Unlabelled(s) == Ahead(s) \in {"version", "next", "promote"}
Unstored(s) == Ahead(s) \in {"object", "delete versions"}

Stage(S, there, s) ==
    /\ \A v \in S : v.latest => NewestIn(S, v)
    /\ S # {} /\ ~Unlabelled(s) => \E v \in S : v.latest
    /\ S # {} /\ ~Unstored(s) => there
    /\ Ahead(s) = "version" => \A v \in S : ~v.latest
    /\ Numbering(s) => \A v \in S : v.at < s.at
    /\ Ahead(s) = "promote" => \E v \in S : NewestIn(S, v) /\ v.at = s.at
    /\ s.todo = LastDelete => S = {}

Of(p, V) == {v \in V : v.place = p}

Staged(p, V, O, L) ==
    /\ (\A t \in Workers : p \notin L[t].touches) => Stage(Of(p, V), p \in DOMAIN O, Idle)
    /\ \A t \in Workers : p \in L[t].touches => Stage(Of(p, V), p \in DOMAIN O, L[t])

(* Of an upload, row is the place, P and G are the parts stored and given, *)
(* and D what was completed.                                               *)
NoParts == [n \in PartNumbers |-> NoPart]

Carried(row, P, G, D, s) ==
    /\ \A c, d \in D : c = d
    /\ \A c \in D : c.body = Store!Listed(c.list, G)
    /\ Ahead(s) \notin {"drop parts", "drop upload"} => /\ row # <<>> => P = G /\ D = {}
                                                        /\ row = <<>> => P = NoParts
    /\ Ahead(s) = "drop upload" => P = NoParts
    /\ Ahead(s) \in {"part", "select"} \/ Putting(s) => row # <<>>
    /\ Putting(s) => s.body = Store!Listed(s.list, G)

Done(u, C) == {c \in C : c.upload = u}

Carries(u, R, P, G, C, L) ==
    /\ (\A t \in Workers : u \notin L[t].touches) => Carried(R[u], P[u], G[u], Done(u, C), Idle)
    /\ \A t \in Workers : u \in L[t].touches => Carried(R[u], P[u], G[u], Done(u, C), L[t])

Unissued(u, R, P, G, C, L) ==
    /\ R[u] = <<>> /\ P[u] = NoParts /\ G[u] = NoParts /\ Done(u, C) = {}
    /\ \A t \in Workers : u \notin L[t].touches

UploadsTyped(R, P, G) ==
    /\ R = [u \in Uploads |-> R[u]] /\ P = [u \in Uploads |-> P[u]] /\ G = [u \in Uploads |-> G[u]]
    /\ \A u \in Uploads : R[u] \in Store!Place \cup {<<>>}

ObjectShape ==
    /\ Threads /\ Apart
    /\ \A t \in Workers : ObjectLocal(local[t], clock)

UploadInv(u, disturbances, I, R, P, G, C, L) ==
    IF u \in I THEN u \notin disturbances => Carries(u, R, P, G, C, L)
    ELSE Unissued(u, R, P, G, C, L)

ObjectInv ==
    /\ ObjectShape
    /\ Numbers(versions, clock, local)
    /\ \A p \in Store!Place : p \notin disturbed => Staged(p, versions, objects, local)
    /\ UploadsTyped(uploads, parts, given)
    /\ \A u \in Uploads : UploadInv(u, disturbed, issued, uploads, parts, given, completed, local)

LEMMA ThreeTail ==
  ASSUME NEW x, NEW y, NEW a, NEW b, NEW c, x = <<a, b, c>>, y = <<b, c>>
  PROVE  x # <<>> /\ Head(x) = a /\ Tail(x) = y
  OBVIOUS

LEMMA FourTail ==
  ASSUME NEW x, NEW y, NEW a, NEW b, NEW c, NEW d, x = <<a, b, c, d>>, y = <<b, c, d>>
  PROVE  x # <<>> /\ Head(x) = a /\ Tail(x) = y
  OBVIOUS

LEMMA FiveTail ==
  ASSUME NEW x, NEW y, NEW a, NEW b, NEW c, NEW d, NEW e, x = <<a, b, c, d, e>>, y = <<b, c, d, e>>
  PROVE  x # <<>> /\ Head(x) = a /\ Tail(x) = y
  OBVIOUS

LEMMA ObjectHeads ==
  /\ Drops # <<>> /\ Head(Drops) = "drop parts" /\ Tail(Drops) = LastDrop
  /\ LastDrop # <<>> /\ Head(LastDrop) = "drop upload" /\ Tail(LastDrop) = <<>>
  /\ DeleteTodo # <<>> /\ Head(DeleteTodo) = "delete object" /\ Tail(DeleteTodo) = VersionsTodo
  /\ LastDelete # <<>> /\ Head(LastDelete) = "delete object" /\ Tail(LastDelete) = <<>>
  /\ VersionsTodo # <<>> /\ Head(VersionsTodo) = "delete versions" /\ Tail(VersionsTodo) = <<>>
  /\ RemoveTodo # <<>> /\ Head(RemoveTodo) = "delete version" /\ Tail(RemoveTodo) = NextTodo
  /\ NextTodo # <<>> /\ Head(NextTodo) = "next" /\ Tail(NextTodo) = <<>>
  /\ PromoteTodo # <<>> /\ Head(PromoteTodo) = "promote" /\ Tail(PromoteTodo) = <<>>
  /\ PartTodo # <<>> /\ Head(PartTodo) = "part" /\ Tail(PartTodo) = <<>>
  /\ SelectTodo # <<>> /\ Head(SelectTodo) = "select" /\ Tail(SelectTodo) = <<>>
  /\ CreateTodo # <<>> /\ Head(CreateTodo) = "create upload" /\ Tail(CreateTodo) = <<>>
<1>1. /\ Drops # <<>> /\ Head(Drops) = "drop parts" /\ Tail(Drops) = LastDrop
      /\ DeleteTodo # <<>> /\ Head(DeleteTodo) = "delete object" /\ Tail(DeleteTodo) = VersionsTodo
      /\ RemoveTodo # <<>> /\ Head(RemoveTodo) = "delete version" /\ Tail(RemoveTodo) = NextTodo
  BY Tails DEF Drops, LastDrop, DeleteTodo, VersionsTodo, RemoveTodo, NextTodo
<1>2. /\ LastDrop # <<>> /\ Head(LastDrop) = "drop upload" /\ Tail(LastDrop) = <<>>
      /\ LastDelete # <<>> /\ Head(LastDelete) = "delete object" /\ Tail(LastDelete) = <<>>
      /\ VersionsTodo # <<>> /\ Head(VersionsTodo) = "delete versions" /\ Tail(VersionsTodo) = <<>>
      /\ NextTodo # <<>> /\ Head(NextTodo) = "next" /\ Tail(NextTodo) = <<>>
  BY Tails DEF LastDrop, LastDelete, VersionsTodo, NextTodo
<1>3. /\ PromoteTodo # <<>> /\ Head(PromoteTodo) = "promote" /\ Tail(PromoteTodo) = <<>>
      /\ PartTodo # <<>> /\ Head(PartTodo) = "part" /\ Tail(PartTodo) = <<>>
      /\ SelectTodo # <<>> /\ Head(SelectTodo) = "select" /\ Tail(SelectTodo) = <<>>
      /\ CreateTodo # <<>> /\ Head(CreateTodo) = "create upload" /\ Tail(CreateTodo) = <<>>
  BY Tails DEF PromoteTodo, PartTodo, SelectTodo, CreateTodo
<1>. QED BY <1>1, <1>2, <1>3

LEMMA PutHeads ==
  ASSUME NEW up
  PROVE  /\ ToPut(up) # <<>> /\ Head(ToPut(up)) = "put"
         /\ Tail(ToPut(up)) = (IF up = NoUpload THEN <<>> ELSE Drops)
         /\ ToClear(up) # <<>> /\ Head(ToClear(up)) = "clear" /\ Tail(ToClear(up)) = ToVersion(up)
         /\ ToVersion(up) # <<>> /\ Head(ToVersion(up)) = "version" /\ Tail(ToVersion(up)) = ToObject(up)
         /\ ToObject(up) # <<>> /\ Head(ToObject(up)) = "object"
         /\ Tail(ToObject(up)) = (IF up = NoUpload THEN <<>> ELSE Drops)
<1>1. CASE up = NoUpload
  <2>1. ToPut(up) # <<>> /\ Head(ToPut(up)) = "put" /\ Tail(ToPut(up)) = <<>>
    BY <1>1, Tails DEF ToPut
  <2>2. ToClear(up) # <<>> /\ Head(ToClear(up)) = "clear" /\ Tail(ToClear(up)) = ToVersion(up)
    BY <1>1, Tails DEF ToClear, ToVersion
  <2>3. ToVersion(up) # <<>> /\ Head(ToVersion(up)) = "version" /\ Tail(ToVersion(up)) = ToObject(up)
    BY <1>1, Tails DEF ToObject, ToVersion
  <2>4. ToObject(up) # <<>> /\ Head(ToObject(up)) = "object" /\ Tail(ToObject(up)) = <<>>
    BY <1>1, Tails DEF ToObject
  <2>. QED BY <1>1, <2>1, <2>2, <2>3, <2>4
<1>2. CASE up # NoUpload
  <2>1. ToPut(up) # <<>> /\ Head(ToPut(up)) = "put" /\ Tail(ToPut(up)) = Drops
    <3>1. ToPut(up) = <<"put", "drop parts", "drop upload">> /\ Drops = <<"drop parts", "drop upload">>
      BY <1>2 DEF ToPut, Drops
    <3>. QED BY <3>1, ThreeTail
  <2>2. ToClear(up) # <<>> /\ Head(ToClear(up)) = "clear" /\ Tail(ToClear(up)) = ToVersion(up)
    <3>1. /\ ToClear(up) = <<"clear", "version", "object", "drop parts", "drop upload">>
          /\ ToVersion(up) = <<"version", "object", "drop parts", "drop upload">>
      BY <1>2 DEF ToClear, ToVersion
    <3>. QED BY <3>1, FiveTail
  <2>3. ToVersion(up) # <<>> /\ Head(ToVersion(up)) = "version" /\ Tail(ToVersion(up)) = ToObject(up)
    <3>1. /\ ToVersion(up) = <<"version", "object", "drop parts", "drop upload">>
          /\ ToObject(up) = <<"object", "drop parts", "drop upload">>
      BY <1>2 DEF ToVersion, ToObject
    <3>. QED BY <3>1, FourTail
  <2>4. ToObject(up) # <<>> /\ Head(ToObject(up)) = "object" /\ Tail(ToObject(up)) = Drops
    <3>1. ToObject(up) = <<"object", "drop parts", "drop upload">> /\ Drops = <<"drop parts", "drop upload">>
      BY <1>2 DEF ToObject, Drops
    <3>. QED BY <3>1, ThreeTail
  <2>. QED BY <1>2, <2>1, <2>2, <2>3, <2>4
<1>. QED BY <1>1, <1>2

LEMMA BucketHeads ==
  ASSUME NEW x \in BucketTodos
  PROVE  x # <<>> /\ Head(x) \in BucketSteps /\ Tail(x) = <<>>
<1>1. PICK a \in BucketSteps : x = <<a>>
  BY DEF BucketTodos
<1>2. <<a>> # <<>> /\ Head(<<a>>) = a /\ Tail(<<a>>) = <<>>
  OBVIOUS
<1>. QED BY <1>1, <1>2

(* A request is known by its next statement, but one that deletes.         *)
LEMMA ByAhead ==
  ASSUME NEW s, ObjectFields(s)
  PROVE  /\ s.todo = <<>> <=> Ahead(s) = "nothing"
         /\ Ahead(s) \in BucketSteps => Tail(s.todo) = <<>>
         /\ Ahead(s) = "create upload" => Tail(s.todo) = <<>>
         /\ Ahead(s) = "put" => s.todo = ToPut(s.upload)
         /\ Ahead(s) = "clear" => s.todo = ToClear(s.upload)
         /\ Ahead(s) = "version" => s.todo = ToVersion(s.upload)
         /\ Ahead(s) = "object" => s.todo = ToObject(s.upload)
         /\ Ahead(s) = "delete object" => s.todo \in {DeleteTodo, LastDelete}
         /\ Ahead(s) = "delete versions" => s.todo = VersionsTodo
         /\ Ahead(s) = "delete version" => s.todo = RemoveTodo
         /\ Ahead(s) = "next" => s.todo = NextTodo
         /\ Ahead(s) = "promote" => s.todo = PromoteTodo
         /\ Ahead(s) = "part" => s.todo = PartTodo
         /\ Ahead(s) = "select" => s.todo = SelectTodo
         /\ Ahead(s) = "drop parts" => s.todo = Drops
         /\ Ahead(s) = "drop upload" => s.todo = LastDrop
         /\ Ahead(s) \in BucketSteps \cup {"nothing", "create upload", "put", "clear", "version", "object",
               "delete object", "delete versions", "delete version", "next", "promote", "part", "select",
               "drop parts", "drop upload"}
<1>1. CASE s.todo \in BucketTodos
  <2>1. Ahead(s) \in BucketSteps /\ Tail(s.todo) = <<>> /\ s.todo # <<>>
    BY <1>1, BucketHeads DEF Ahead
  <2>. QED BY <2>1 DEF BucketSteps
<1>2. CASE s.todo = <<>>
  BY <1>2 DEF Ahead, BucketSteps
<1>3. CASE s.todo \in {DeleteTodo, LastDelete, VersionsTodo, RemoveTodo, NextTodo, PromoteTodo}
  BY <1>3, ObjectHeads DEF Ahead, BucketSteps
<1>4. CASE s.todo \in {PartTodo, SelectTodo, CreateTodo, Drops, LastDrop}
  BY <1>4, ObjectHeads DEF Ahead, BucketSteps
<1>5. CASE s.todo \in PutTodos(s.upload)
  BY <1>5, PutHeads DEF Ahead, BucketSteps, PutTodos
<1>. QED BY <1>1, <1>2, <1>3, <1>4, <1>5 DEF ObjectFields, ObjectTodos

LEMMA AheadOf ==
  ASSUME NEW s
  PROVE  /\ s.todo = <<>> => Ahead(s) = "nothing"
         /\ s.todo \in BucketTodos => Ahead(s) \in BucketSteps
         /\ s.todo = CreateTodo => Ahead(s) = "create upload"
         /\ s.todo = ToPut(s.upload) => Ahead(s) = "put"
         /\ s.todo = ToClear(s.upload) => Ahead(s) = "clear"
         /\ s.todo = ToVersion(s.upload) => Ahead(s) = "version"
         /\ s.todo = ToObject(s.upload) => Ahead(s) = "object"
         /\ s.todo \in {DeleteTodo, LastDelete} => Ahead(s) = "delete object"
         /\ s.todo = VersionsTodo => Ahead(s) = "delete versions"
         /\ s.todo = RemoveTodo => Ahead(s) = "delete version"
         /\ s.todo = NextTodo => Ahead(s) = "next"
         /\ s.todo = PromoteTodo => Ahead(s) = "promote"
         /\ s.todo = PartTodo => Ahead(s) = "part"
         /\ s.todo = SelectTodo => Ahead(s) = "select"
         /\ s.todo = Drops => Ahead(s) = "drop parts"
         /\ s.todo = LastDrop => Ahead(s) = "drop upload"
  BY ObjectHeads, PutHeads, BucketHeads DEF Ahead

LEMMA StoreThreads ==
  /\ \A t, s : Store!Begin(t, s) => Begins(t, s)
  /\ \A t, s : Store!Continue(t, s) => Goes(t, s)
  /\ \A t : Store!Advance(t) => Goes(t, Rest(local[t]))
  /\ \A t : Store!Ends(t) => Goes(t, Idle)
  /\ Threads /\ (Store!Crash \/ \E t \in Workers : Store!Fails(t)) => Breaks
<1>1. /\ \A t, s : Store!Begin(t, s) => Begins(t, s)
      /\ \A t, s : Store!Continue(t, s) => Goes(t, s)
  BY DEF Store!Begin, Begins, Store!Continue, Goes, Idle, Store!Idle
<1>2. /\ \A t : Store!Advance(t) => Goes(t, Rest(local[t]))
      /\ \A t : Store!Ends(t) => Goes(t, Idle)
  BY <1>1 DEF Store!Advance, Rest, Store!Ends, Idle, Store!Idle
<1>3. ASSUME Threads, NEW S, Store!BreakOff(S) PROVE Breaks
  <2>1. /\ local' = [u \in Workers |-> IF u \in S THEN Idle ELSE local[u]]
        /\ disturbed' = disturbed \cup UNION {local[u].touches : u \in S} /\ begun' = begun
    BY <1>3 DEF Store!BreakOff, Idle, Store!Idle
  <2>2. \A u \in S : local[u].touches \subseteq disturbed'
    BY <2>1
  <2>. QED BY <2>1, <2>2 DEF Breaks
<1>. QED BY <1>1, <1>2, <1>3 DEF Store!Crash, Store!Fails

LEMMA ObjectIdle == \A c : ObjectLocal(Idle, c) /\ Ahead(Idle) = "nothing" /\ Idle.touches = {} /\ Idle.todo # LastDelete
<1>1. DOMAIN Idle = {"todo", "touches"} /\ Idle.todo = <<>> /\ Idle.touches = {}
  BY DEF Idle
<1>2. Ahead(Idle) = "nothing"
  BY <1>1 DEF Ahead
<1>3. Idle.todo # LastDelete
  BY <1>1, ObjectHeads
<1>. QED BY <1>1, <1>2, <1>3 DEF ObjectLocal, ObjectFields, ObjectTodos, Putting, Numbering, Naming, Deleting, BucketSteps

(* What becomes of a request with its first statement. *)
LEMMA ObjectAfter ==
  ASSUME NEW s, NEW c, ObjectLocal(s, c), s.todo # <<>>, NEW r, r = AfterStep(s)
  PROVE  /\ ObjectLocal(r, c)
         /\ \/ r = Idle
            \/ /\ DOMAIN r = DOMAIN s /\ r.touches = s.touches
               /\ \A x \in DOMAIN s : x # "todo" => r[x] = s[x]
         /\ Ahead(s) \in BucketSteps \cup {"create upload", "delete versions", "next", "promote", "part",
                                           "select", "drop upload"} => r = Idle
         /\ Ahead(s) = "clear" => Ahead(r) = "version"
         /\ Ahead(s) = "version" => Ahead(r) = "object"
         /\ Ahead(s) \in {"put", "object"} =>
               IF s.upload = NoUpload THEN r = Idle ELSE Ahead(r) = "drop parts"
         /\ Ahead(s) = "delete object" => IF s.todo = LastDelete THEN r = Idle ELSE Ahead(r) = "delete versions"
         /\ Ahead(s) = "delete version" => Ahead(r) = "next"
         /\ Ahead(s) = "drop parts" => Ahead(r) = "drop upload"
         /\ r.todo # LastDelete
<1> DEFINE d == Tail(s.todo)
<1>0. Ahead(s) # "nothing"
  BY ByAhead DEF ObjectLocal
<1>1. /\ Ahead(s) \in BucketSteps \cup {"create upload", "delete versions", "next", "promote", "part",
                                        "select", "drop upload"} => d = <<>>
      /\ Ahead(s) = "clear" => d = ToVersion(s.upload)
      /\ Ahead(s) = "version" => d = ToObject(s.upload)
      /\ Ahead(s) \in {"put", "object"} => d = IF s.upload = NoUpload THEN <<>> ELSE Drops
      /\ Ahead(s) = "delete object" => d = IF s.todo = LastDelete THEN <<>> ELSE VersionsTodo
      /\ Ahead(s) = "delete version" => d = NextTodo
      /\ Ahead(s) = "drop parts" => d = LastDrop
  <2>0. ObjectFields(s)
    BY DEF ObjectLocal
  <2>1. Ahead(s) \in BucketSteps \cup {"create upload", "delete versions", "next", "promote", "part",
                                       "select", "drop upload"} => d = <<>>
    BY <2>0, ByAhead, ObjectHeads
  <2>2. /\ Ahead(s) = "clear" => d = ToVersion(s.upload)
        /\ Ahead(s) = "version" => d = ToObject(s.upload)
    <3>1. Ahead(s) = "clear" => s.todo = ToClear(s.upload)
      BY <2>0, ByAhead
    <3>2. Ahead(s) = "version" => s.todo = ToVersion(s.upload)
      BY <2>0, ByAhead
    <3>3. Tail(ToClear(s.upload)) = ToVersion(s.upload) /\ Tail(ToVersion(s.upload)) = ToObject(s.upload)
      BY PutHeads
    <3>. QED BY <3>1, <3>2, <3>3
  <2>3. Ahead(s) \in {"put", "object"} => d = IF s.upload = NoUpload THEN <<>> ELSE Drops
    <3>1. Ahead(s) \in {"put", "object"} => s.todo \in {ToPut(s.upload), ToObject(s.upload)}
      BY <2>0, ByAhead
    <3>2. /\ Tail(ToPut(s.upload)) = (IF s.upload = NoUpload THEN <<>> ELSE Drops)
          /\ Tail(ToObject(s.upload)) = (IF s.upload = NoUpload THEN <<>> ELSE Drops)
      BY PutHeads
    <3>. QED BY <3>1, <3>2
  <2>4. Ahead(s) = "delete object" => d = IF s.todo = LastDelete THEN <<>> ELSE VersionsTodo
    BY <2>0, ByAhead, ObjectHeads
  <2>5. /\ Ahead(s) = "delete version" => d = NextTodo
        /\ Ahead(s) = "drop parts" => d = LastDrop
    BY <2>0, ByAhead, ObjectHeads
  <2>. QED BY <2>1, <2>2, <2>3, <2>4, <2>5
<1>2. CASE d = <<>>
  <2>1. r = Idle
    BY <1>2 DEF AfterStep
  <2>2. Ahead(s) \notin {"clear", "version", "delete version", "drop parts"}
    BY <1>1, <1>2, ObjectHeads, PutHeads
  <2>3. Ahead(s) \in {"put", "object"} => s.upload = NoUpload
    BY <1>1, <1>2, ObjectHeads
  <2>4. Ahead(s) = "delete object" => s.todo = LastDelete
    BY <1>1, <1>2, ObjectHeads
  <2>. QED BY <2>1, <2>2, <2>3, <2>4, ObjectIdle
<1>3. CASE d # <<>>
  <2>1. r = Rest(s)
    BY <1>3 DEF AfterStep
  <2>2. DOMAIN r = DOMAIN s /\ r.todo = d /\ \A x \in DOMAIN s : x # "todo" => r[x] = s[x]
    BY <2>1, RestFields DEF ObjectLocal, ObjectFields
  <2>3. "touches" \in DOMAIN s /\ r.touches = s.touches
    BY <2>2 DEF ObjectLocal, ObjectFields
  <2>4. Ahead(s) \in {"clear", "version", "put", "object", "delete object", "delete version", "drop parts"}
    BY <1>0, <1>1, <1>3, ByAhead DEF ObjectLocal
  <2>5. /\ Ahead(s) = "clear" => Ahead(r) = "version"
        /\ Ahead(s) = "version" => Ahead(r) = "object"
        /\ Ahead(s) \in {"put", "object"} => s.upload # NoUpload /\ Ahead(r) = "drop parts"
        /\ Ahead(s) = "delete object" => s.todo # LastDelete /\ Ahead(r) = "delete versions"
        /\ Ahead(s) = "delete version" => Ahead(r) = "next"
        /\ Ahead(s) = "drop parts" => Ahead(r) = "drop upload"
    <3>1. Ahead(r) = Head(d)
      BY <1>3, <2>2 DEF Ahead
    <3>2. /\ Ahead(s) = "clear" => Ahead(r) = "version"
          /\ Ahead(s) = "version" => Ahead(r) = "object"
      BY <1>1, <3>1, PutHeads
    <3>3. Ahead(s) \in {"put", "object"} => s.upload # NoUpload /\ Ahead(r) = "drop parts"
      BY <1>1, <1>3, <3>1, ObjectHeads
    <3>4. /\ Ahead(s) = "delete object" => s.todo # LastDelete /\ Ahead(r) = "delete versions"
          /\ Ahead(s) = "delete version" => Ahead(r) = "next"
          /\ Ahead(s) = "drop parts" => Ahead(r) = "drop upload"
      BY <1>1, <1>3, <3>1, ObjectHeads
    <3>. QED BY <3>2, <3>3, <3>4
  <2>6. r.todo # LastDelete
    BY <2>4, <2>5, AheadOf
  <2>7. CASE Ahead(s) \in {"clear", "version"}
    <3>1. /\ {"upload", "place", "at", "body"} \subseteq DOMAIN s
          /\ r.upload = s.upload /\ r.place = s.place /\ r.at = s.at
      BY <2>2, <2>7 DEF ObjectLocal, ObjectFields, Putting
    <3>2. r.todo \in PutTodos(r.upload)
      BY <1>1, <2>2, <2>7, <3>1 DEF PutTodos
    <3>. QED BY <2>2, <2>3, <2>5, <2>6, <2>7, <3>1, <3>2
             DEF ObjectLocal, ObjectFields, Putting, Numbering, Naming, Deleting, BucketSteps
  <2>8. CASE Ahead(s) \in {"put", "object", "drop parts"}
    <3>1. "upload" \in DOMAIN s /\ r.upload = s.upload /\ s.upload \in Uploads
      BY <2>2, <2>5, <2>8 DEF ObjectLocal, ObjectFields, Putting
    <3>2. r.todo \in ObjectTodos
      BY <1>1, <2>2, <2>5, <2>8 DEF ObjectTodos
    <3>3. s.upload \in s.touches /\ s.touches \subseteq {s.upload} \cup Store!Place
      BY <2>5, <2>8 DEF ObjectLocal, ObjectFields, Putting
    <3>. QED BY <2>2, <2>3, <2>5, <2>6, <2>8, <3>1, <3>2, <3>3
             DEF ObjectLocal, ObjectFields, Putting, Numbering, Naming, Deleting, BucketSteps
  <2>9. CASE Ahead(s) \in {"delete object", "delete version"}
    <3>1. "place" \in DOMAIN s /\ r.place = s.place /\ s.place \in Store!Place /\ s.touches = {s.place}
      BY <2>2, <2>9 DEF ObjectLocal, ObjectFields, Deleting
    <3>2. r.todo \in ObjectTodos
      BY <1>1, <2>2, <2>5, <2>9 DEF ObjectTodos
    <3>3. Ahead(s) = "delete version" => "at" \in DOMAIN r
      BY <2>2 DEF ObjectLocal, ObjectFields
    <3>. QED BY <2>2, <2>3, <2>5, <2>6, <2>9, <3>1, <3>2, <3>3
             DEF ObjectLocal, ObjectFields, Putting, Numbering, Naming, Deleting, BucketSteps
  <2>. QED BY <2>4, <2>7, <2>8, <2>9, <2>2, <2>3, <2>5, <2>6 DEF BucketSteps
<1>. QED BY <1>2, <1>3

LEMMA ObjectLater ==
  ASSUME NEW s, NEW c \in Nat, NEW d \in Nat, c <= d, ObjectLocal(s, c)
  PROVE  ObjectLocal(s, d)
  BY DEF ObjectLocal

(* Steps of one request. *)
LEMMA ObjectGoes ==
  ASSUME ObjectShape, clock \in Nat, clock' \in Nat, clock <= clock', NEW t \in Workers, NEW s, Goes(t, s),
         s.touches \subseteq local[t].touches, NEW r, r = (IF s.todo = <<>> THEN Idle ELSE s), ObjectLocal(r, clock')
  PROVE  ObjectShape' /\ Only(t, r) /\ disturbed' = disturbed
<1>1. Threads' /\ Only(t, r) /\ Apart' /\ disturbed' = disturbed
  BY GoesOnly, GoesApart DEF ObjectShape, Goes
<1>2. \A u \in Workers : ObjectLocal(local[u], clock')
  BY ObjectLater DEF ObjectShape
<1>3. \A u \in Workers : ObjectLocal(local'[u], clock')
  BY <1>1, <1>2 DEF Only
<1>. QED BY <1>1, <1>3 DEF ObjectShape

LEMMA ObjectDoes ==
  ASSUME ObjectShape, clock \in Nat, clock' = clock, NEW t \in Workers, Store!Advance(t), local[t].todo # <<>>,
         NEW r, r = AfterStep(local[t])
  PROVE  ObjectShape' /\ Only(t, r) /\ disturbed' = disturbed
<1>. PICK q : q = Rest(local[t])
  OBVIOUS
<1>1. Goes(t, q)
  BY StoreThreads
<1>2. ObjectLocal(local[t], clock) /\ "todo" \in DOMAIN local[t] /\ "touches" \in DOMAIN local[t]
  BY DEF ObjectShape, ObjectLocal, ObjectFields
<1>3. q.todo = Tail(local[t].todo) /\ q.touches = local[t].touches
  BY <1>2, RestFields
<1>4. r = (IF q.todo = <<>> THEN Idle ELSE q)
  BY <1>3 DEF AfterStep
<1>5. ObjectLocal(r, clock')
  BY <1>2, ObjectAfter
<1>6. clock' \in Nat /\ clock <= clock' /\ q.touches \subseteq local[t].touches
  BY <1>3
<1>. QED BY <1>1, <1>4, <1>5, <1>6, ObjectGoes

LEMMA StagedStep ==
  ASSUME Apart, NEW t \in Workers, NEW r, Only(t, r), r = Idle \/ r.touches = local[t].touches,
         NEW p, p \notin disturbed, Staged(p, versions, objects, local),
         p \in local[t].touches /\ Stage(Of(p, versions), p \in DOMAIN objects, local[t])
            => Stage(Of(p, versions'), p \in DOMAIN objects', r),
         p \notin local[t].touches => Of(p, versions') = Of(p, versions) /\ (p \in DOMAIN objects' <=> p \in DOMAIN objects)
  PROVE  Staged(p, versions', objects', local')
<1>1. \A u \in Workers : local'[u] = IF u = t THEN r ELSE local[u]
  BY DEF Only
<1>2. Idle.touches = {}
  BY ObjectIdle
<1>3. CASE p \in local[t].touches
  <2>1. \A u \in Workers : u # t => p \notin local[u].touches
    BY <1>3 DEF Apart
  <2>2. Stage(Of(p, versions'), p \in DOMAIN objects', r)
    BY <1>3 DEF Staged
  <2>3. \A u \in Workers : u # t => p \notin local'[u].touches
    BY <1>1, <2>1
  <2>4. local'[t] = r
    BY <1>1
  <2>5. CASE r = Idle
    BY <1>2, <2>2, <2>3, <2>4, <2>5 DEF Staged
  <2>6. CASE r.touches = local[t].touches
    BY <1>3, <2>2, <2>3, <2>4, <2>6 DEF Staged
  <2>. QED BY <2>5, <2>6
<1>4. CASE p \notin local[t].touches
  <2>1. p \notin local'[t].touches
    BY <1>1, <1>2, <1>4
  <2>2. Of(p, versions') = Of(p, versions) /\ (p \in DOMAIN objects' <=> p \in DOMAIN objects)
    BY <1>4
  <2>3. (p \in DOMAIN objects') = (p \in DOMAIN objects)
    BY <2>2
  <2>4. \A u \in Workers : p \in local'[u].touches => u # t /\ local'[u] = local[u]
    BY <1>1, <2>1
  <2>5. \A u \in Workers : p \in local'[u].touches => Stage(Of(p, versions'), p \in DOMAIN objects', local'[u])
    BY <2>2, <2>3, <2>4 DEF Staged
  <2>6. (\A u \in Workers : p \notin local'[u].touches) => \A u \in Workers : p \notin local[u].touches
    BY <1>1, <1>4
  <2>. QED BY <2>2, <2>3, <2>5, <2>6 DEF Staged
<1>. QED BY <1>3, <1>4

LEMMA UploadStep ==
  ASSUME Apart, NEW t \in Workers, NEW r, Only(t, r), r = Idle \/ r.touches = local[t].touches,
         disturbed' = disturbed, NEW u, u \in issued' <=> u \in issued,
         UploadInv(u, disturbed, issued, uploads, parts, given, completed, local),
         u \in local[t].touches /\ Carried(uploads[u], parts[u], given[u], Done(u, completed), local[t])
            => Carried(uploads'[u], parts'[u], given'[u], Done(u, completed'), r),
         u \notin local[t].touches => /\ uploads'[u] = uploads[u] /\ parts'[u] = parts[u] /\ given'[u] = given[u]
                                      /\ Done(u, completed') = Done(u, completed)
  PROVE  UploadInv(u, disturbed', issued', uploads', parts', given', completed', local')
<1>1. \A w \in Workers : local'[w] = IF w = t THEN r ELSE local[w]
  BY DEF Only
<1>2. Idle.touches = {}
  BY ObjectIdle
<1>3. ASSUME u \in local[t].touches, u \in issued, u \notin disturbed
      PROVE  Carries(u, uploads', parts', given', completed', local')
  <2>1. \A w \in Workers : w # t => u \notin local[w].touches
    BY <1>3 DEF Apart
  <2>2. Carried(uploads'[u], parts'[u], given'[u], Done(u, completed'), r)
    BY <1>3 DEF Carries, UploadInv
  <2>3. \A w \in Workers : w # t => u \notin local'[w].touches
    BY <1>1, <2>1
  <2>4. local'[t] = r
    BY <1>1
  <2>5. CASE r = Idle
    BY <1>2, <2>2, <2>3, <2>4, <2>5 DEF Carries
  <2>6. CASE r.touches = local[t].touches
    BY <1>3, <2>2, <2>3, <2>4, <2>6 DEF Carries
  <2>. QED BY <2>5, <2>6
<1>4. ASSUME u \notin local[t].touches
      PROVE  UploadInv(u, disturbed', issued', uploads', parts', given', completed', local')
  <2>1. u \notin local'[t].touches
    BY <1>1, <1>2, <1>4
  <2>2. /\ uploads'[u] = uploads[u] /\ parts'[u] = parts[u] /\ given'[u] = given[u]
        /\ Done(u, completed') = Done(u, completed)
    BY <1>4
  <2>4. \A w \in Workers : u \in local'[w].touches => w # t /\ local'[w] = local[w]
    BY <1>1, <2>1
  <2>6. (\A w \in Workers : u \notin local'[w].touches) <=> \A w \in Workers : u \notin local[w].touches
    BY <1>1, <1>4, <2>1
  <2>7. Carries(u, uploads, parts, given, completed, local) => Carries(u, uploads', parts', given', completed', local')
    BY <2>2, <2>4, <2>6 DEF Carries
  <2>8. Unissued(u, uploads, parts, given, completed, local) => Unissued(u, uploads', parts', given', completed', local')
    BY <2>2, <2>6 DEF Unissued
  <2>. QED BY <2>7, <2>8 DEF UploadInv
<1>5. u \notin issued => u \notin local[t].touches
  BY DEF UploadInv, Unissued
<1>. QED BY <1>3, <1>4, <1>5 DEF UploadInv

(* The number of a request, and of a version. *)
LEMMA NumbersStep ==
  ASSUME NEW V, NEW c, Numbers(V, c, local), NEW t \in Workers, NEW r, Only(t, r),
         NEW W, \A v \in W : VersionRow(v) /\ \E w \in V : w.at = v.at /\ w.place = v.place,
         \A v, w \in W : v.at = w.at => v = w,
         Numbering(r) => Numbering(local[t]) /\ r.at = local[t].at,
         Naming(r) => Naming(local[t]) /\ r.at = local[t].at /\ r.place = local[t].place
  PROVE  Numbers(W, c, local')
<1>1. \A u \in Workers : local'[u] = IF u = t THEN r ELSE local[u]
  BY DEF Only
<1>2. \A v \in W : VersionRow(v) /\ v.at <= c
  BY DEF Numbers
<1>3. \A u \in Workers : Numbering(local'[u]) => Numbering(local[u]) /\ local'[u].at = local[u].at
  BY <1>1
<1>4. \A u \in Workers : Naming(local'[u]) => Naming(local[u]) /\ local'[u].at = local[u].at /\ local'[u].place = local[u].place
  BY <1>1
<1>5. ASSUME NEW u \in Workers, Numbering(local'[u])
      PROVE  /\ \A v \in W : v.at # local'[u].at
             /\ \A w \in Workers : w # u /\ (Numbering(local'[w]) \/ Naming(local'[w])) => local'[w].at # local'[u].at
  BY <1>3, <1>4, <1>5 DEF Numbers
<1>6. ASSUME NEW u \in Workers, Naming(local'[u]), NEW v \in W, v.at = local'[u].at
      PROVE  v.place = local'[u].place
  BY <1>4, <1>6 DEF Numbers
<1>. QED BY <1>2, <1>5, <1>6 DEF Numbers

LEMMA NumbersThread ==
  ASSUME NEW V, NEW c, Numbers(V, c, local), NEW t \in Workers, NEW r, Only(t, r),
         NEW d \in Nat, c <= d,
         \A u \in Workers : Numbering(local[u]) \/ Naming(local[u]) => local[u].at \in Nat /\ local[u].at <= c,
         Numbering(r) => r.at = d /\ d > c,
         Naming(r) => \E v \in V : v.at = r.at /\ v.place = r.place,
         ~(Numbering(r) /\ Naming(r))
  PROVE  Numbers(V, d, local')
<1>1. \A u \in Workers : local'[u] = IF u = t THEN r ELSE local[u]
  BY DEF Only
<1>2. \A v \in V : VersionRow(v) /\ v.at \in Nat /\ v.at <= c /\ v.at <= d
  BY DEF Numbers, VersionRow
<1>3. c \in Nat
  BY DEF Numbers
<1>4. ASSUME NEW u \in Workers, Numbering(local'[u])
      PROVE  /\ \A v \in V : v.at # local'[u].at
             /\ \A w \in Workers : w # u /\ (Numbering(local'[w]) \/ Naming(local'[w])) => local'[w].at # local'[u].at
  <2>1. CASE u = t
    <3>1. local'[u].at = d /\ d > c
      BY <1>1, <1>4, <2>1
    <3>2. \A w \in Workers : w # u => local'[w] = local[w]
      BY <1>1, <2>1
    <3>. QED BY <1>2, <1>3, <3>1, <3>2
  <2>2. CASE u # t
    <3>1. local'[u] = local[u] /\ Numbering(local[u])
      BY <1>1, <1>4, <2>2
    <3>2. \A v \in V : v.at # local[u].at
      BY <3>1 DEF Numbers
    <3>3. ASSUME NEW w \in Workers, w # u, Numbering(local'[w]) \/ Naming(local'[w]) PROVE local'[w].at # local[u].at
      <4>1. CASE w # t
        BY <1>1, <3>1, <3>3, <4>1 DEF Numbers
      <4>2. CASE w = t /\ Numbering(r)
        BY <1>1, <1>3, <3>1, <4>2
      <4>3. CASE w = t /\ Naming(r)
        BY <1>1, <3>2, <4>3
      <4>. QED BY <1>1, <3>3, <4>1, <4>2, <4>3
    <3>. QED BY <3>1, <3>2, <3>3
  <2>. QED BY <2>1, <2>2
<1>5. ASSUME NEW u \in Workers, Naming(local'[u]), NEW v \in V, v.at = local'[u].at
      PROVE  v.place = local'[u].place
  <2>1. CASE u = t
    BY <1>1, <1>5, <2>1 DEF Numbers
  <2>2. CASE u # t
    BY <1>1, <1>5, <2>2 DEF Numbers
  <2>. QED BY <2>1, <2>2
<1>6. \A v, w \in V : v.at = w.at => v = w
  BY DEF Numbers
<1>. QED BY <1>2, <1>4, <1>5, <1>6 DEF Numbers

LEMMA NumbersStored ==
  ASSUME NEW V, NEW c, Numbers(V, c, local), NEW t \in Workers, NEW r, Only(t, r), Numbering(local[t]),
         local[t].at \in Nat, local[t].at <= c, ~Numbering(r), ~Naming(r),
         NEW v, VersionRow(v), v.at = local[t].at
  PROVE  Numbers(V \cup {v}, c, local')
<1>1. \A u \in Workers : local'[u] = IF u = t THEN r ELSE local[u]
  BY DEF Only
<1>2. \A w \in V : w.at # v.at
  BY DEF Numbers
<1>3. \A x, y \in V \cup {v} : x.at = y.at => x = y
  BY <1>2 DEF Numbers
<1>4. \A u \in Workers : Numbering(local'[u]) \/ Naming(local'[u]) => u # t /\ local'[u] = local[u] /\ local[u].at # v.at
  BY <1>1 DEF Numbers
<1>5. ASSUME NEW u \in Workers, Numbering(local'[u])
      PROVE  /\ \A x \in V \cup {v} : x.at # local'[u].at
             /\ \A w \in Workers : w # u /\ (Numbering(local'[w]) \/ Naming(local'[w])) => local'[w].at # local'[u].at
  BY <1>4, <1>5 DEF Numbers
<1>6. ASSUME NEW u \in Workers, Naming(local'[u]), NEW x \in V \cup {v}, x.at = local'[u].at
      PROVE  x.place = local'[u].place
  BY <1>4, <1>6 DEF Numbers
<1>7. c \in Nat /\ \A x \in V \cup {v} : VersionRow(x) /\ x.at <= c
  BY DEF Numbers
<1>. QED BY <1>3, <1>5, <1>6, <1>7 DEF Numbers

LEMMA NumbersLess ==
  ASSUME NEW V, NEW c, Numbers(V, c, local), Breaks
  PROVE  Numbers(V, c, local')
<1>1. \A u \in Workers : Numbering(local'[u]) \/ Naming(local'[u]) => local'[u] = local[u]
  BY ObjectIdle DEF Breaks, Numbering, Naming
<1>2. ASSUME NEW u \in Workers, Numbering(local'[u])
      PROVE  /\ \A x \in V : x.at # local'[u].at
             /\ \A w \in Workers : w # u /\ (Numbering(local'[w]) \/ Naming(local'[w])) => local'[w].at # local'[u].at
  BY <1>1, <1>2 DEF Numbers
<1>3. ASSUME NEW u \in Workers, Naming(local'[u]), NEW x \in V, x.at = local'[u].at
      PROVE  x.place = local'[u].place
  BY <1>1, <1>3 DEF Numbers
<1>. QED BY <1>2, <1>3 DEF Numbers

(* The versions of a place, statement by statement. *)
LEMMA StageEnds ==
  ASSUME NEW S, NEW there, NEW s, Stage(S, there, s),
         Ahead(s) \notin {"version", "next", "promote", "object", "delete versions"}
  PROVE  Stage(S, there, Idle)
  BY ObjectIdle DEF Stage, Unlabelled, Unstored, Numbering

LEMMA StageBegins ==
  ASSUME NEW S, NEW there, NEW r, Stage(S, there, Idle), Ahead(r) \notin {"version", "promote"},
         Ahead(r) = "clear" => \A v \in S : v.at < r.at, r.todo # LastDelete
  PROVE  Stage(S, there, r)
  BY ObjectIdle DEF Stage, Unlabelled, Unstored, Numbering

LEMMA StageClear ==
  ASSUME NEW S, NEW there, NEW s, Stage(S, there, s), Ahead(s) = "clear",
         NEW r, Ahead(r) = "version", r.at = s.at, r.todo # LastDelete,
         NEW W, \A v \in W : ~v.latest /\ \E w \in S : w.at = v.at
  PROVE  Stage(W, there, r)
  BY DEF Stage, Unlabelled, Unstored, Numbering

LEMMA StageVersion ==
  ASSUME NEW S, NEW there, NEW s, Stage(S, there, s), Ahead(s) = "version",
         NEW r, Ahead(r) = "object", r.todo # LastDelete,
         NEW v, v.at = s.at, v.latest, v.at \in Nat, \A w \in S : w.at \in Nat
  PROVE  Stage(S \cup {v}, there, r)
<1>1. \A w \in S : ~w.latest /\ w.at < v.at /\ w.at <= v.at
  BY DEF Stage, Numbering
<1>2. v.at <= v.at
  OBVIOUS
<1>3. NewestIn(S \cup {v}, v)
  BY <1>1, <1>2 DEF NewestIn
<1>. QED BY <1>1, <1>3 DEF Stage, Unlabelled, Unstored, Numbering

LEMMA StageDelete ==
  ASSUME NEW S, NEW there, NEW s, Stage(S, there, s), Ahead(s) = "delete object",
         NEW r, IF s.todo = LastDelete THEN r = Idle ELSE Ahead(r) = "delete versions", r.todo # LastDelete,
         NEW left, ~left
  PROVE  Stage(S, left, r)
<1>1. CASE s.todo = LastDelete
  BY <1>1, ObjectIdle DEF Stage, Unlabelled, Unstored, Numbering
<1>2. CASE s.todo # LastDelete
  BY <1>2 DEF Stage, Unlabelled, Unstored, Numbering
<1>. QED BY <1>1, <1>2

LEMMA StageEmpty ==
  ASSUME NEW there, NEW r, Ahead(r) # "promote"
  PROVE  Stage({}, there, r)
  BY DEF Stage

LEMMA StageRemove ==
  ASSUME NEW S, NEW there, NEW s, Stage(S, there, s), Ahead(s) = "delete version",
         NEW r, Ahead(r) = "next", r.todo # LastDelete, NEW W \in SUBSET S
  PROVE  Stage(W, there, r)
  BY DEF Stage, Unlabelled, Unstored, Numbering, NewestIn

LEMMA StageNext ==
  ASSUME NEW S, NEW there, NEW s, Stage(S, there, s), Ahead(s) = "next",
         NEW r, Ahead(r) = "promote", r.todo # LastDelete, NEW v, NewestIn(S, v), r.at = v.at
  PROVE  Stage(S, there, r)
  BY DEF Stage, Unlabelled, Unstored, Numbering, NewestIn

LEMMA StagePromote ==
  ASSUME NEW S, NEW there, NEW s, Stage(S, there, s), Ahead(s) = "promote",
         \A v, w \in S : v.at = w.at => v = w, \A v \in S : v.at \in Nat,
         NEW W, \A w \in W : \E v \in S : w.at = v.at /\ (w.latest <=> v.latest \/ v.at = s.at),
         \A v \in S : \E w \in W : w.at = v.at /\ (v.at = s.at => w.latest)
  PROVE  Stage(W, there, Idle)
<1>1. PICK x \in S : NewestIn(S, x) /\ x.at = s.at
  BY DEF Stage
<1>2. ASSUME NEW w \in W, w.latest PROVE NewestIn(W, w)
  <2>1. PICK v \in S : w.at = v.at /\ (v.latest \/ v.at = s.at)
    BY <1>2
  <2>2. NewestIn(S, v)
    BY <1>1, <2>1 DEF Stage, NewestIn
  <2>. QED BY <2>1, <2>2 DEF NewestIn
<1>3. PICK y \in W : y.at = x.at /\ y.latest
  BY <1>1
<1>4. there
  BY DEF Stage, Unstored
<1>. QED BY <1>2, <1>3, <1>4, ObjectIdle DEF Stage, Unlabelled, Unstored, Numbering

LEMMA StageShows ==
  ASSUME NEW S, NEW there, Stage(S, there, Idle), S # {}, \A v \in S : v.at \in Nat,
         \A v, w \in S : v.at = w.at => v = w
  PROVE  {v \in S : v.latest} = Store!Newest(S)
<1>1. Ahead(Idle) = "nothing"
  BY ObjectIdle
<1>2. PICK x \in S : x.latest
  BY <1>1 DEF Stage, Unlabelled
<1>3. NewestIn(S, x)
  BY <1>2 DEF Stage
<1>4. \A v \in S : NewestIn(S, v) => v = x
  BY <1>3 DEF NewestIn
<1>5. \A v \in S : v.latest <=> NewestIn(S, v)
  BY <1>2, <1>4 DEF Stage
<1>. QED BY <1>5 DEF Store!Newest, NewestIn

(* A step of one request, with what it does to the place and the upload it *)
(* works on.                                                               *)
LEMMA ObjectStep ==
  ASSUME ObjectInv, NEW t \in Workers, NEW r, ObjectShape', Only(t, r), disturbed' = disturbed, issued' = issued,
         r = Idle \/ r.touches = local[t].touches,
         Numbers(versions', clock', local'), UploadsTyped(uploads', parts', given'),
         \A p \in Store!Place : p \in local[t].touches /\ Stage(Of(p, versions), p \in DOMAIN objects, local[t])
            => Stage(Of(p, versions'), p \in DOMAIN objects', r),
         \A p \in Store!Place : p \notin local[t].touches
            => Of(p, versions') = Of(p, versions) /\ (p \in DOMAIN objects' <=> p \in DOMAIN objects),
         \A u \in Uploads : u \in local[t].touches /\ Carried(uploads[u], parts[u], given[u], Done(u, completed), local[t])
            => Carried(uploads'[u], parts'[u], given'[u], Done(u, completed'), r),
         \A u \in Uploads : u \notin local[t].touches
            => /\ uploads'[u] = uploads[u] /\ parts'[u] = parts[u] /\ given'[u] = given[u]
               /\ Done(u, completed') = Done(u, completed)
  PROVE  ObjectInv'
<1>1. Apart
  BY DEF ObjectInv, ObjectShape
<1>2. ASSUME NEW p \in Store!Place, p \notin disturbed' PROVE Staged(p, versions', objects', local')
  <2>1. Staged(p, versions, objects, local)
    BY <1>2 DEF ObjectInv
  <2>. QED BY <1>1, <1>2, <2>1, StagedStep
<1>3. ASSUME NEW u \in Uploads
      PROVE  UploadInv(u, disturbed', issued', uploads', parts', given', completed', local')
  <2>1. UploadInv(u, disturbed, issued, uploads, parts, given, completed, local)
    BY DEF ObjectInv
  <2>. QED BY <1>1, <2>1, UploadStep
<1>. QED BY <1>2, <1>3 DEF ObjectInv

(* One that leaves the uploads alone, or the versions. *)
UploadsAlone == UNCHANGED <<uploads, parts, given, issued, completed>>

CarriedOn(s, r) ==
    /\ Putting(s) /\ Putting(r) => r.body = s.body /\ r.list = s.list
    /\ \/ Putting(s) /\ Putting(r)
       \/ Ahead(s) \notin {"drop parts", "drop upload"}
          /\ Ahead(r) \notin {"part", "select", "put", "clear", "version", "object", "drop parts", "drop upload"}

LEMMA CarriedGoesOn ==
  ASSUME NEW row, NEW P, NEW G, NEW D, NEW s, NEW r, Carried(row, P, G, D, s), CarriedOn(s, r)
  PROVE  Carried(row, P, G, D, r)
<1>1. Ahead(s) \notin {"drop parts", "drop upload"} /\ Ahead(r) \notin {"drop parts", "drop upload"}
  BY DEF CarriedOn, Putting
<1>2. Ahead(r) \in {"part", "select"} \/ Putting(r) => row # <<>>
  BY DEF CarriedOn, Putting, Carried
<1>3. Putting(r) => r.body = Store!Listed(r.list, G)
  BY DEF CarriedOn, Putting, Carried
<1>. QED BY <1>1, <1>2, <1>3 DEF Carried

LEMMA ObjectAt ==
  ASSUME ObjectInv, NEW t \in Workers, NEW x, Store!At(t, x)
  PROVE  /\ local[t].todo # <<>> /\ Ahead(local[t]) = x /\ ObjectLocal(local[t], clock)
         /\ ObjectFields(local[t]) /\ ObjectShape /\ clock \in Nat
         /\ Numbers(versions, clock, local) /\ UploadsTyped(uploads, parts, given)
  BY DEF Store!At, ObjectInv, ObjectShape, Ahead, ObjectLocal, Numbers

LEMMA Relabel ==
  ASSUME NEW v, VersionRow(v), NEW b \in BOOLEAN, NEW w, w = [v EXCEPT !.latest = b]
  PROVE  VersionRow(w) /\ w.at = v.at /\ w.place = v.place /\ w.body = v.body /\ w.latest = b
<1>1. w = [place |-> v.place, at |-> v.at, body |-> v.body, latest |-> b]
  BY DEF VersionRow
<1>. QED BY <1>1 DEF VersionRow

LEMMA PlacesNoUploads == \A u \in Uploads : u \notin Store!Place /\ u # NoUpload
  BY UploadAssumption DEF Store!Place

LEMMA NumbersSame ==
  ASSUME ObjectInv, NEW t \in Workers, NEW r, Only(t, r), versions' = versions, clock' = clock,
         Numbering(r) => Numbering(local[t]) /\ r.at = local[t].at,
         Naming(r) => Naming(local[t]) /\ r.at = local[t].at /\ r.place = local[t].place
  PROVE  Numbers(versions', clock', local')
<1>1. Numbers(versions, clock, local)
  BY DEF ObjectInv
<1>2. /\ \A v \in versions : VersionRow(v) /\ \E w \in versions : w.at = v.at /\ w.place = v.place
      /\ \A v, w \in versions : v.at = w.at => v = w
  BY <1>1 DEF Numbers
<1>. QED BY <1>1, <1>2, NumbersStep

(* Buckets and tags: no property is about them. *)
LEMMA ObjectAside ==
  ASSUME ObjectInv, NEW t \in Workers, NEW s, Goes(t, s), Ahead(local[t]) \in BucketSteps,
         {"todo", "touches"} \subseteq DOMAIN s, s.touches = {}, s.todo \in BucketTodos \cup {<<>>},
         UNCHANGED <<versions, objects, clock>>, UploadsAlone
  PROVE  ObjectInv'
<1>. PICK r : r = (IF s.todo = <<>> THEN Idle ELSE s)
  OBVIOUS
<1>0. ObjectShape /\ ObjectLocal(local[t], clock) /\ clock \in Nat /\ clock <= clock /\ UploadsTyped(uploads, parts, given)
  BY DEF ObjectInv, ObjectShape, Numbers
<1>1. Ahead(r) \in BucketSteps \cup {"nothing"} /\ r.touches = {}
  BY ObjectIdle, AheadOf
<1>2. ObjectLocal(r, clock)
  <2>1. CASE r = Idle
    BY <2>1, ObjectIdle
  <2>2. CASE r = s /\ s.todo \in BucketTodos
    BY <1>1, <2>2 DEF ObjectLocal, ObjectFields, ObjectTodos, Putting, Numbering, Naming, Deleting, BucketSteps
  <2>. QED BY <2>1, <2>2
<1>3. local[t].touches = {}
  BY <1>0 DEF ObjectLocal, ObjectFields
<1>4. s.touches \subseteq local[t].touches /\ clock' = clock
  BY <1>3
<1>5. ObjectShape' /\ Only(t, r) /\ disturbed' = disturbed
  BY <1>0, <1>2, <1>4, ObjectGoes
<1>6. ~Numbering(r) /\ ~Naming(r)
  BY <1>1 DEF Numbering, Naming, BucketSteps
<1>7. Numbers(versions', clock', local')
  BY <1>5, <1>6, NumbersSame
<1>8. UploadsTyped(uploads', parts', given')
  BY <1>0 DEF UploadsAlone
<1>. QED BY <1>1, <1>3, <1>5, <1>7, <1>8, ObjectStep DEF UploadsAlone

LEMMA ObjectAsideDoes ==
  ASSUME ObjectInv, NEW t \in Workers, NEW x \in BucketSteps, Store!Does(t, x),
         UNCHANGED <<versions, objects, clock>>, UploadsAlone
  PROVE  ObjectInv'
<1>. PICK s : s = Rest(local[t])
  OBVIOUS
<1>1. Store!At(t, x) /\ Goes(t, s)
  BY StoreThreads DEF Store!Does
<1>2. Ahead(local[t]) = x /\ ObjectFields(local[t])
  BY <1>1, ObjectAt
<1>3. {"todo", "touches"} \subseteq DOMAIN local[t] /\ local[t].touches = {} /\ Tail(local[t].todo) = <<>>
  BY <1>2, ByAhead DEF ObjectFields
<1>4. {"todo", "touches"} \subseteq DOMAIN s /\ s.touches = {} /\ s.todo = <<>>
  BY <1>3, RestFields
<1>. QED BY <1>1, <1>2, <1>4, ObjectAside

LEMMA ObjectUntag ==
  ASSUME ObjectInv, NEW t \in Workers, Store!Untag(t) \/ Store!Tag(t)
  PROVE  ObjectInv'
<1>0. UNCHANGED <<versions, objects, clock>> /\ UploadsAlone
  BY DEF Store!Untag, Store!Tag, UploadsAlone, Store!uploadTables
<1>1. PICK x \in {"untag", "tag"} : Store!At(t, x)
  BY DEF Store!Untag, Store!Tag
<1>2. Ahead(local[t]) = x /\ ObjectFields(local[t]) /\ local[t].todo \in BucketTodos
  <2>1. Ahead(local[t]) = x /\ ObjectFields(local[t])
    BY <1>1, ObjectAt
  <2>2. local[t].todo \notin PutTodos(local[t].upload)
    BY <2>1, AheadOf DEF PutTodos
  <2>3. /\ local[t].todo \notin {<<>>, DeleteTodo, LastDelete, VersionsTodo, RemoveTodo, NextTodo}
        /\ local[t].todo \notin {PromoteTodo, PartTodo, SelectTodo, CreateTodo, Drops, LastDrop}
    BY <2>1, AheadOf
  <2>. QED BY <2>1, <2>2, <2>3 DEF ObjectFields, ObjectTodos
<1>3. {"todo", "touches"} \subseteq DOMAIN local[t] /\ local[t].touches = {}
  BY <1>2 DEF ObjectFields, BucketSteps
<1>4. <<"tag">> \in BucketTodos /\ x \in BucketSteps
  BY DEF BucketTodos, BucketSteps
<1>5. CASE Store!Untag(t)
  <2>. PICK s : s = [local[t] EXCEPT !.todo = IF local[t].new = {} THEN <<>> ELSE <<"tag">>]
    OBVIOUS
  <2>1. Goes(t, s)
    BY <1>5, StoreThreads DEF Store!Untag
  <2>2. {"todo", "touches"} \subseteq DOMAIN s /\ s.touches = {} /\ s.todo \in BucketTodos \cup {<<>>}
    BY <1>3, <1>4
  <2>. QED BY <1>0, <1>2, <1>4, <2>1, <2>2, ObjectAside
<1>6. CASE Store!Tag(t)
  <2>1. PICK g : IF g \in tags[local[t].place] \/ local[t].new = {g} THEN Store!Ends(t)
                 ELSE Store!Continue(t, [local[t] EXCEPT !.new = @ \ {g}])
    BY <1>6 DEF Store!Tag
  <2>2. CASE Store!Ends(t)
    <3>1. Goes(t, Idle) /\ {"todo", "touches"} \subseteq DOMAIN Idle /\ Idle.todo = <<>> /\ Idle.touches = {}
      BY <2>2, StoreThreads DEF Idle
    <3>. QED BY <1>0, <1>2, <1>4, <3>1, ObjectAside
  <2>3. CASE Store!Continue(t, [local[t] EXCEPT !.new = @ \ {g}])
    <3>. PICK s : s = [local[t] EXCEPT !.new = @ \ {g}]
      OBVIOUS
    <3>1. Goes(t, s)
      BY <2>3, StoreThreads
    <3>2. {"todo", "touches"} \subseteq DOMAIN s /\ s.touches = {} /\ s.todo \in BucketTodos \cup {<<>>}
      BY <1>2, <1>3
    <3>. QED BY <1>0, <1>2, <1>4, <3>1, <3>2, ObjectAside
  <2>. QED BY <2>1, <2>2, <2>3
<1>. QED BY <1>5, <1>6

LEMMA ObjectAsides ==
  ASSUME ObjectInv, NEW t \in Workers,
         \/ Store!CreateBucketInsert(t) \/ Store!DeleteBucketDrop(t) \/ Store!PutVersioning(t)
         \/ Store!Untag(t) \/ Store!Tag(t)
  PROVE  ObjectInv'
<1>1. ASSUME Store!CreateBucketInsert(t) PROVE ObjectInv'
  <2>1. Store!Does(t, "create") /\ UNCHANGED <<versions, objects, clock>> /\ UploadsAlone /\ "create" \in BucketSteps
    BY <1>1 DEF Store!CreateBucketInsert, Store!objectTables, Store!uploadTables, UploadsAlone, BucketSteps
  <2>. QED BY <2>1, ObjectAsideDoes
<1>2. ASSUME Store!DeleteBucketDrop(t) PROVE ObjectInv'
  <2>1. Store!Does(t, "drop") /\ UNCHANGED <<versions, objects, clock>> /\ UploadsAlone /\ "drop" \in BucketSteps
    BY <1>2 DEF Store!DeleteBucketDrop, Store!objectTables, Store!uploadTables, UploadsAlone, BucketSteps
  <2>. QED BY <2>1, ObjectAsideDoes
<1>3. ASSUME Store!PutVersioning(t) PROVE ObjectInv'
  <2>1. Store!Does(t, "versioning") /\ UNCHANGED <<versions, objects, clock>> /\ UploadsAlone /\ "versioning" \in BucketSteps
    BY <1>3 DEF Store!PutVersioning, Store!objectTables, Store!uploadTables, UploadsAlone, BucketSteps
  <2>. QED BY <2>1, ObjectAsideDoes
<1>. QED BY <1>1, <1>2, <1>3, ObjectUntag

(* A statement after which the request goes on with its next. *)
LEMMA ObjectDid ==
  ASSUME ObjectInv, NEW t \in Workers, NEW x, Store!Does(t, x), clock' = clock, NEW r, r = AfterStep(local[t])
  PROVE  /\ ObjectShape' /\ Only(t, r) /\ disturbed' = disturbed
         /\ r = Idle \/ r.touches = local[t].touches
         /\ r.todo # LastDelete /\ ObjectLocal(r, clock)
<1>1. local[t].todo # <<>> /\ ObjectLocal(local[t], clock) /\ ObjectShape /\ clock \in Nat /\ Store!Advance(t)
  BY ObjectAt DEF Store!Does
<1>2. ObjectShape' /\ Only(t, r) /\ disturbed' = disturbed
  BY <1>1, ObjectDoes
<1>3. (r = Idle \/ r.touches = local[t].touches) /\ r.todo # LastDelete /\ ObjectLocal(r, clock)
  BY <1>1, ObjectAfter
<1>. QED BY <1>2, <1>3

(* Versions that stay but for their labels. *)
Mapped(f, V) == {f[v] : v \in V}

LEMMA NumbersRelabelled ==
  ASSUME ObjectInv, NEW t \in Workers, NEW r, Only(t, r), clock' = clock,
         NEW f, versions' = Mapped(f, versions),
         \A v \in versions : VersionRow(f[v]) /\ f[v].at = v.at /\ f[v].place = v.place,
         Numbering(r) => Numbering(local[t]) /\ r.at = local[t].at,
         Naming(r) => Naming(local[t]) /\ r.at = local[t].at /\ r.place = local[t].place
  PROVE  /\ Numbers(versions', clock', local')
         /\ \A p : (\A v \in versions : v.place = p => f[v] = v) => Of(p, versions') = Of(p, versions)
<1>1. Numbers(versions, clock, local)
  BY DEF ObjectInv
<1>2. \A w \in versions' : VersionRow(w) /\ \E v \in versions : v.at = w.at /\ v.place = w.place
  BY DEF Mapped
<1>3. \A v, w \in versions' : v.at = w.at => v = w
  BY <1>1 DEF Numbers, Mapped
<1>4. Numbers(versions', clock', local')
  BY <1>1, <1>2, <1>3, NumbersStep
<1>5. ASSUME NEW p, \A v \in versions : v.place = p => f[v] = v PROVE Of(p, versions') = Of(p, versions)
  <2>1. \A w \in Of(p, versions') : w \in Of(p, versions)
    BY <1>5 DEF Of, Mapped
  <2>2. \A w \in Of(p, versions) : w \in Of(p, versions')
    BY <1>5 DEF Of, Mapped
  <2>. QED BY <2>1, <2>2
<1>. QED BY <1>4, <1>5

(* What a put, or the put of a completion, works on. *)
LEMMA PutTouches ==
  ASSUME NEW s, NEW c, ObjectLocal(s, c), Putting(s)
  PROVE  /\ {"upload", "place", "at", "body", "todo", "touches"} \subseteq DOMAIN s /\ s.place \in Store!Place
         /\ s.place \in s.touches
         /\ \A p \in Store!Place : p \in s.touches => p = s.place
         /\ \A u \in Uploads : u \in s.touches <=> u = s.upload
         /\ \A u \in Uploads : u \in s.touches => "list" \in DOMAIN s
         /\ Numbering(s) => s.at \in Nat /\ s.at <= c
<1>1. /\ {"upload", "place", "at", "body", "todo", "touches"} \subseteq DOMAIN s /\ s.place \in Store!Place
      /\ s.upload = NoUpload => s.touches = {s.place}
      /\ s.upload # NoUpload => /\ s.upload \in Uploads /\ "list" \in DOMAIN s
                                /\ s.touches = {s.upload, s.place}
  BY DEF ObjectLocal, ObjectFields
<1>2. Numbering(s) => s.at \in Nat /\ s.at <= c
  BY DEF ObjectLocal
<1>. QED BY <1>1, <1>2, PlacesNoUploads

LEMMA DeleteTouches ==
  ASSUME NEW s, NEW c, ObjectLocal(s, c), Deleting(s)
  PROVE  /\ {"place", "todo", "touches"} \subseteq DOMAIN s /\ s.place \in Store!Place
         /\ s.place \in s.touches
         /\ \A p \in Store!Place : p \in s.touches => p = s.place
         /\ \A u \in Uploads : u \notin s.touches
         /\ Naming(s) => s.at \in Nat /\ s.at <= c
  BY PlacesNoUploads DEF ObjectLocal, ObjectFields

(* A put goes on from its numbering. *)
LEMMA PutGoesOn ==
  ASSUME NEW s, NEW c, ObjectLocal(s, c), Numbering(s), NEW r, r = AfterStep(s)
  PROVE  /\ Ahead(s) = "clear" => Ahead(r) = "version"
         /\ Ahead(s) = "version" => Ahead(r) = "object"
         /\ Putting(r) /\ ~Naming(r) /\ r.at = s.at
         /\ \A u \in Uploads : u \in s.touches => CarriedOn(s, r)
<1>1. s.todo # <<>> /\ Putting(s)
  BY DEF Numbering, Putting, Ahead
<1>2. /\ Ahead(s) = "clear" => Ahead(r) = "version"
      /\ Ahead(s) = "version" => Ahead(r) = "object"
  BY <1>1, ObjectAfter
<1>3. /\ \/ r = Idle
         \/ /\ DOMAIN r = DOMAIN s /\ r.touches = s.touches
            /\ \A x \in DOMAIN s : x # "todo" => r[x] = s[x]
  <2>1. "todo" \in DOMAIN s /\ "touches" \in DOMAIN s
    BY DEF ObjectLocal, ObjectFields
  <2>2. r = Idle \/ r = Rest(s)
    BY DEF AfterStep
  <2>. QED BY <2>1, <2>2, RestFields
<1>4. r # Idle
  BY <1>2, ObjectIdle DEF Numbering
<1>5. \A x \in DOMAIN s : x # "todo" => r[x] = s[x]
  BY <1>3, <1>4
<1>6. r.at = s.at /\ r.body = s.body
  BY <1>1, <1>5, PutTouches
<1>7. \A u \in Uploads : u \in s.touches => r.list = s.list
  BY <1>1, <1>5, PutTouches
<1>8. Putting(r) /\ ~Naming(r)
  BY <1>2 DEF Numbering, Putting, Naming
<1>9. \A u \in Uploads : u \in s.touches => CarriedOn(s, r)
  BY <1>1, <1>6, <1>7, <1>8 DEF CarriedOn
<1>. QED BY <1>2, <1>6, <1>8, <1>9

(* A step that works on one place, and leaves the uploads alone. *)
LEMMA ObjectPlaced ==
  ASSUME ObjectInv, NEW t \in Workers, NEW r, ObjectShape', Only(t, r), disturbed' = disturbed,
         r = Idle \/ r.touches = local[t].touches,
         Numbers(versions', clock', local'), UploadsAlone,
         NEW p, \A q \in Store!Place : q \in local[t].touches => q = p, p \in local[t].touches,
         \A q \in Store!Place : q # p => Of(q, versions') = Of(q, versions),
         \A q \in Store!Place : q # p => (q \in DOMAIN objects' <=> q \in DOMAIN objects),
         Stage(Of(p, versions), p \in DOMAIN objects, local[t]) => Stage(Of(p, versions'), p \in DOMAIN objects', r),
         \A u \in Uploads : u \in local[t].touches => CarriedOn(local[t], r)
  PROVE  ObjectInv'
<1>1. UploadsTyped(uploads', parts', given') /\ issued' = issued
  BY DEF UploadsAlone, ObjectInv
<1>2. \A q \in Store!Place : q \in local[t].touches /\ Stage(Of(q, versions), q \in DOMAIN objects, local[t])
          => Stage(Of(q, versions'), q \in DOMAIN objects', r)
  OBVIOUS
<1>3. \A q \in Store!Place : q \notin local[t].touches
          => Of(q, versions') = Of(q, versions) /\ (q \in DOMAIN objects' <=> q \in DOMAIN objects)
  OBVIOUS
<1>4. \A u \in Uploads : u \in local[t].touches /\ Carried(uploads[u], parts[u], given[u], Done(u, completed), local[t])
          => Carried(uploads'[u], parts'[u], given'[u], Done(u, completed'), r)
  BY CarriedGoesOn DEF UploadsAlone
<1>5. \A u \in Uploads : u \notin local[t].touches
          => /\ uploads'[u] = uploads[u] /\ parts'[u] = parts[u] /\ given'[u] = given[u]
             /\ Done(u, completed') = Done(u, completed)
  BY DEF UploadsAlone
<1>. QED BY <1>1, <1>2, <1>3, <1>4, <1>5, ObjectStep

LEMMA ObjectClear ==
  ASSUME ObjectInv, NEW t \in Workers, Store!PutClear(t)
  PROVE  ObjectInv'
<1>. PICK s, p : s = local[t] /\ p = s.place
  OBVIOUS
<1>. PICK r : r = AfterStep(s)
  OBVIOUS
<1>0. PICK f : f = [v \in versions |-> IF v.place = p THEN [v EXCEPT !.latest = FALSE] ELSE v]
  OBVIOUS
<1>1. /\ Store!Does(t, "clear") /\ clock' = clock /\ objects' = objects /\ UploadsAlone
      /\ versions' = (versions \ Store!VersionsOf(p)) \cup {[v EXCEPT !.latest = FALSE] : v \in Store!VersionsOf(p)}
  BY DEF Store!PutClear, Store!uploadTables, UploadsAlone
<1>2. /\ Ahead(s) = "clear" /\ ObjectLocal(s, clock) /\ clock \in Nat /\ s.todo # <<>>
      /\ Numbers(versions, clock, local) /\ Numbering(s) /\ Putting(s)
  BY <1>1, ObjectAt DEF Store!Does, Numbering, Putting
<1>3. /\ ObjectShape' /\ Only(t, r) /\ disturbed' = disturbed
      /\ r = Idle \/ r.touches = s.touches
      /\ r.todo # LastDelete
  BY <1>1, ObjectDid
<1>4. /\ Ahead(r) = "version" /\ ~Naming(r) /\ r.at = s.at
      /\ \A u \in Uploads : u \in s.touches => CarriedOn(s, r)
  BY <1>2, PutGoesOn
<1>5. \A v \in versions : VersionRow(v)
  BY <1>2 DEF Numbers
<1>6. ASSUME NEW v \in versions
      PROVE  /\ VersionRow(f[v]) /\ f[v].at = v.at /\ f[v].place = v.place
             /\ v.place = p => f[v].latest = FALSE
             /\ v.place # p => f[v] = v
  <2>1. CASE v.place = p
    <3>1. PICK w : w = [v EXCEPT !.latest = FALSE]
      OBVIOUS
    <3>2. f[v] = w
      BY <1>0, <2>1, <3>1
    <3>3. VersionRow(w) /\ w.at = v.at /\ w.place = v.place /\ w.latest = FALSE
      BY <1>5, <3>1, Relabel
    <3>. QED BY <2>1, <3>2, <3>3
  <2>2. CASE v.place # p
    <3>1. f[v] = v
      BY <1>0, <2>2
    <3>. QED BY <1>5, <2>2, <3>1
  <2>. QED BY <2>1, <2>2
<1>7. versions' = Mapped(f, versions)
  <2>1. {f[v] : v \in versions} = {v \in versions : v.place # p} \cup {[v EXCEPT !.latest = FALSE] : v \in {w \in versions : w.place = p}}
    BY <1>0
  <2>. QED BY <1>1, <2>1 DEF Store!VersionsOf, Mapped
<1>8. Numbers(versions', clock', local') /\ \A q \in Store!Place : q # p => Of(q, versions') = Of(q, versions)
  <2>1. Numbering(r) => Numbering(local[t]) /\ r.at = local[t].at
    BY <1>2, <1>4
  <2>2. \A v \in versions : VersionRow(f[v]) /\ f[v].at = v.at /\ f[v].place = v.place
    BY <1>6
  <2>3. clock' = clock
    BY <1>1
  <2>4. Naming(r) => Naming(local[t]) /\ r.at = local[t].at /\ r.place = local[t].place
    BY <1>4
  <2>5. Only(t, r)
    BY <1>3
  <2>6. /\ Numbers(versions', clock', local')
        /\ \A q : (\A v \in versions : v.place = q => f[v] = v) => Of(q, versions') = Of(q, versions)
    BY <1>7, <2>1, <2>2, <2>3, <2>4, <2>5, NumbersRelabelled
  <2>. QED BY <1>6, <2>6
<1>9. \A w \in Of(p, versions') : ~w.latest /\ \E v \in Of(p, versions) : w.at = v.at
  <2>1. SUFFICES ASSUME NEW w \in Of(p, versions') PROVE ~w.latest /\ \E v \in Of(p, versions) : w.at = v.at
    OBVIOUS
  <2>2. w.place = p /\ w \in {f[v] : v \in versions}
    BY <1>7 DEF Of, Mapped
  <2>3. PICK v \in versions : w = f[v]
    BY <2>2
  <2>4. v.place = p /\ w.at = v.at /\ w.latest = FALSE
    BY <1>6, <2>2, <2>3
  <2>. QED BY <2>4 DEF Of
<1>10. ASSUME Stage(Of(p, versions), p \in DOMAIN objects, s)
       PROVE  Stage(Of(p, versions'), p \in DOMAIN objects', r)
  <2>1. Stage(Of(p, versions'), p \in DOMAIN objects, r)
    BY <1>2, <1>3, <1>4, <1>9, <1>10, StageClear
  <2>. QED BY <1>1, <2>1
<1>11. (\A q \in Store!Place : q \in s.touches => q = p) /\ p \in s.touches
  BY <1>2, PutTouches
<1>. QED BY <1>1, <1>3, <1>4, <1>8, <1>10, <1>11, ObjectPlaced

LEMMA ObjectVersion ==
  ASSUME ObjectInv, NEW t \in Workers, Store!PutVersion(t)
  PROVE  ObjectInv'
<1>. PICK s, p : s = local[t] /\ p = s.place
  OBVIOUS
<1>. PICK r : r = AfterStep(s)
  OBVIOUS
<1>. PICK v : v = [place |-> s.place, at |-> s.at, body |-> s.body, latest |-> TRUE]
  OBVIOUS
<1>1. /\ Store!Does(t, "version") /\ clock' = clock /\ objects' = objects /\ UploadsAlone
      /\ versions' = versions \cup {v}
  BY DEF Store!PutVersion, Store!uploadTables, UploadsAlone
<1>2. /\ Ahead(s) = "version" /\ ObjectLocal(s, clock) /\ clock \in Nat /\ s.todo # <<>>
      /\ Numbers(versions, clock, local) /\ Numbering(s) /\ Putting(s)
  BY <1>1, ObjectAt DEF Store!Does, Numbering, Putting
<1>3. /\ ObjectShape' /\ Only(t, r) /\ disturbed' = disturbed
      /\ r = Idle \/ r.touches = s.touches
      /\ r.todo # LastDelete
  BY <1>1, ObjectDid
<1>4. /\ Ahead(r) = "object" /\ ~Naming(r) /\ ~Numbering(r)
      /\ \A u \in Uploads : u \in s.touches => CarriedOn(s, r)
  BY <1>2, PutGoesOn DEF Numbering
<1>5. /\ s.at \in Nat /\ s.at <= clock /\ p \in Store!Place
      /\ (\A q \in Store!Place : q \in s.touches => q = p) /\ p \in s.touches
  BY <1>2, PutTouches
<1>6. VersionRow(v) /\ v.at = s.at /\ v.latest /\ v.place = p
  BY <1>5 DEF VersionRow
<1>7. Numbers(versions', clock', local')
  <2>1. Numbers(versions \cup {v}, clock, local')
    BY <1>2, <1>3, <1>4, <1>5, <1>6, NumbersStored
  <2>. QED BY <1>1, <2>1
<1>8. /\ \A q \in Store!Place : q # p => Of(q, versions') = Of(q, versions)
      /\ Of(p, versions') = Of(p, versions) \cup {v}
  BY <1>1, <1>6 DEF Of
<1>9. \A w \in Of(p, versions) : w.at \in Nat
  BY <1>2 DEF Numbers, VersionRow, Of
<1>10. ASSUME Stage(Of(p, versions), p \in DOMAIN objects, s)
       PROVE  Stage(Of(p, versions'), p \in DOMAIN objects', r)
  <2>1. v.at \in Nat
    BY <1>5, <1>6
  <2>2. Stage(Of(p, versions) \cup {v}, p \in DOMAIN objects, r)
    BY <1>2, <1>3, <1>4, <1>6, <1>9, <1>10, <2>1, StageVersion
  <2>. QED BY <1>1, <1>8, <2>2
<1>. QED BY <1>1, <1>3, <1>4, <1>5, <1>7, <1>8, <1>10, ObjectPlaced

(* The greatest of some numbers up to another. *)
LEMMA Greatest ==
  ASSUME NEW c \in Nat, NEW S, \A v \in S : v.at \in Nat /\ v.at <= c, S # {}
  PROVE  \E v \in S : NewestIn(S, v)
<1>. PICK R : R = {x \in Nat \X Nat : x[1] < x[2]}
  OBVIOUS
<1>. PICK T : T = {c - v.at : v \in S}
  OBVIOUS
<1>1. IsWellFoundedOn(R, Nat)
  BY NatLessThanWellFounded DEF OpToRel
<1>2. \A x, y \in Nat : <<y, x>> \notin R => x <= y
  OBVIOUS
<1>3. T \subseteq Nat /\ T # {}
  OBVIOUS
<1>4. PICK x \in T : \A y \in T : <<y, x>> \notin R
  BY <1>1, <1>3, WFMin
<1>5. PICK v \in S : x = c - v.at
  OBVIOUS
<1>6. ASSUME NEW w \in S PROVE w.at <= v.at
  <2>1. c - w.at \in T /\ x \in Nat /\ c - w.at \in Nat
    BY <1>3
  <2>2. x <= c - w.at
    BY <1>2, <1>4, <2>1
  <2>. QED BY <1>5, <2>2
<1>. QED BY <1>6 DEF NewestIn

LEMMA NumbersFewer ==
  ASSUME ObjectInv, NEW t \in Workers, NEW r, Only(t, r), versions' \subseteq versions, clock' = clock,
         ~Numbering(r), ~Naming(r)
  PROVE  Numbers(versions', clock', local')
<1>1. Numbers(versions, clock, local)
  BY DEF ObjectInv
<1>2. /\ \A v \in versions' : VersionRow(v) /\ \E w \in versions : w.at = v.at /\ w.place = v.place
      /\ \A v, w \in versions' : v.at = w.at => v = w
  BY <1>1 DEF Numbers
<1>. QED BY <1>1, <1>2, NumbersStep

(* A deletion does its next statement. *)
LEMMA ObjectDeletes ==
  ASSUME ObjectInv, NEW t \in Workers, NEW s, s = local[t], NEW r, r = AfterStep(s),
         NEW x, Store!Does(t, x), Deleting(s), clock' = clock, UploadsAlone,
         Numbers(versions', clock', local'),
         \A q \in Store!Place : q # s.place => Of(q, versions') = Of(q, versions),
         \A q \in Store!Place : q # s.place => (q \in DOMAIN objects' <=> q \in DOMAIN objects),
         Stage(Of(s.place, versions), s.place \in DOMAIN objects, s)
           => Stage(Of(s.place, versions'), s.place \in DOMAIN objects', r)
  PROVE  ObjectInv'
<1>1. /\ ObjectShape' /\ Only(t, r) /\ disturbed' = disturbed
      /\ r = Idle \/ r.touches = s.touches
  BY ObjectDid
<1>2. ObjectLocal(s, clock)
  BY ObjectAt DEF Store!Does
<1>3. /\ (\A q \in Store!Place : q \in s.touches => q = s.place) /\ s.place \in s.touches
      /\ \A u \in Uploads : u \notin s.touches
  BY <1>2, DeleteTouches
<1>. QED BY <1>1, <1>3, ObjectPlaced

LEMMA ObjectDelete ==
  ASSUME ObjectInv, NEW t \in Workers, Store!DeleteObject(t)
  PROVE  ObjectInv'
<1>. PICK s, p : s = local[t] /\ p = s.place
  OBVIOUS
<1>. PICK r : r = AfterStep(s)
  OBVIOUS
<1>1. /\ Store!Does(t, "delete object") /\ clock' = clock /\ versions' = versions /\ UploadsAlone
      /\ DOMAIN objects' = DOMAIN objects \ {p}
  BY DEF Store!DeleteObject, Store!uploadTables, UploadsAlone
<1>2. /\ Ahead(s) = "delete object" /\ ObjectLocal(s, clock) /\ s.todo # <<>> /\ Deleting(s)
  BY <1>1, ObjectAt DEF Store!Does, Deleting
<1>3. Only(t, r) /\ r.todo # LastDelete
  BY <1>1, ObjectDid
<1>4. IF s.todo = LastDelete THEN r = Idle ELSE Ahead(r) = "delete versions"
  <2>1. CASE s.todo = LastDelete
    BY <2>1, ObjectHeads DEF AfterStep
  <2>2. CASE s.todo # LastDelete
    BY <1>2, <2>2, ObjectAfter
  <2>. QED BY <2>1, <2>2
<1>5. ~Numbering(r) /\ ~Naming(r)
  BY <1>4, ObjectIdle DEF Numbering, Naming
<1>6. Numbers(versions', clock', local')
  BY <1>1, <1>3, <1>5, NumbersFewer
<1>7. ASSUME Stage(Of(p, versions), p \in DOMAIN objects, s)
      PROVE  Stage(Of(p, versions'), p \in DOMAIN objects', r)
  <2>1. ~(p \in DOMAIN objects')
    BY <1>1
  <2>2. Stage(Of(p, versions), p \in DOMAIN objects', r)
    BY <1>2, <1>3, <1>4, <1>7, <2>1, StageDelete
  <2>. QED BY <1>1, <2>2
<1>8. \A q \in Store!Place : q # p => (q \in DOMAIN objects' <=> q \in DOMAIN objects)
  BY <1>1
<1>9. \A q \in Store!Place : q # p => Of(q, versions') = Of(q, versions)
  BY <1>1
<1>. QED BY <1>1, <1>2, <1>6, <1>7, <1>8, <1>9, ObjectDeletes

LEMMA ObjectVersionsGo ==
  ASSUME ObjectInv, NEW t \in Workers, Store!DeleteVersions(t)
  PROVE  ObjectInv'
<1>. PICK s, p : s = local[t] /\ p = s.place
  OBVIOUS
<1>. PICK r : r = AfterStep(s)
  OBVIOUS
<1>1. /\ Store!Does(t, "delete versions") /\ clock' = clock /\ objects' = objects /\ UploadsAlone
      /\ versions' = versions \ Of(p, versions)
  BY DEF Store!DeleteVersions, Store!uploadTables, UploadsAlone, Store!VersionsOf, Of
<1>2. /\ Ahead(s) = "delete versions" /\ ObjectLocal(s, clock) /\ s.todo # <<>> /\ Deleting(s)
  BY <1>1, ObjectAt DEF Store!Does, Deleting
<1>3. Only(t, r) /\ r = Idle
  <2>1. Only(t, r)
    BY <1>1, ObjectDid
  <2>. QED BY <1>2, <2>1, ObjectAfter
<1>5. ~Numbering(r) /\ ~Naming(r) /\ Ahead(r) # "promote"
  BY <1>3, ObjectIdle DEF Numbering, Naming
<1>6. Numbers(versions', clock', local')
  BY <1>1, <1>3, <1>5, NumbersFewer
<1>7. Of(p, versions') = {} /\ \A q \in Store!Place : q # p => Of(q, versions') = Of(q, versions)
  BY <1>1 DEF Of
<1>8. Stage(Of(p, versions'), p \in DOMAIN objects', r)
  BY <1>5, <1>7, StageEmpty
<1>9. \A q \in Store!Place : q # p => (q \in DOMAIN objects' <=> q \in DOMAIN objects)
  BY <1>1
<1>. QED BY <1>1, <1>2, <1>6, <1>7, <1>8, <1>9, ObjectDeletes

LEMMA ObjectVersionGoes ==
  ASSUME ObjectInv, NEW t \in Workers, Store!DeleteVersion(t)
  PROVE  ObjectInv'
<1>. PICK s, p : s = local[t] /\ p = s.place
  OBVIOUS
<1>. PICK r : r = AfterStep(s)
  OBVIOUS
<1>1. /\ Store!Does(t, "delete version") /\ clock' = clock /\ objects' = objects /\ UploadsAlone
      /\ versions' = {v \in versions : v.at # s.at}
  BY DEF Store!DeleteVersion, Store!uploadTables, UploadsAlone
<1>2. /\ Ahead(s) = "delete version" /\ ObjectLocal(s, clock) /\ s.todo # <<>> /\ Deleting(s) /\ Naming(s)
      /\ Numbers(versions, clock, local)
  BY <1>1, ObjectAt DEF Store!Does, Deleting, Naming
<1>3. Only(t, r) /\ r.todo # LastDelete
  BY <1>1, ObjectDid
<1>4. Ahead(r) = "next"
  BY <1>2, ObjectAfter
<1>5. ~Numbering(r) /\ ~Naming(r)
  BY <1>4 DEF Numbering, Naming
<1>6. Numbers(versions', clock', local')
  BY <1>1, <1>3, <1>5, NumbersFewer
<1>7. \A v \in versions : v.at = s.at => v.place = p
  BY <1>2 DEF Numbers
<1>8. Of(p, versions') \in SUBSET Of(p, versions) /\ \A q \in Store!Place : q # p => Of(q, versions') = Of(q, versions)
  BY <1>1, <1>7 DEF Of
<1>9. ASSUME Stage(Of(p, versions), p \in DOMAIN objects, s)
      PROVE  Stage(Of(p, versions'), p \in DOMAIN objects', r)
  <2>1. Stage(Of(p, versions'), p \in DOMAIN objects, r)
    BY <1>2, <1>3, <1>4, <1>8, <1>9, StageRemove
  <2>. QED BY <1>1, <2>1
<1>10. \A q \in Store!Place : q # p => (q \in DOMAIN objects' <=> q \in DOMAIN objects)
  BY <1>1
<1>. QED BY <1>1, <1>2, <1>6, <1>8, <1>9, <1>10, ObjectDeletes

(* What follows the deletion of a version. *)
LEMMA ObjectLooks ==
  ASSUME ObjectInv, NEW t \in Workers, Store!DeleteVersionNext(t)
  PROVE  ObjectInv'
<1>. PICK s, p : s = local[t] /\ p = s.place
  OBVIOUS
<1>. PICK S : S = Of(p, versions)
  OBVIOUS
<1>1. /\ Store!At(t, "next")
      /\ UNCHANGED <<versions, objects, clock>> /\ UploadsAlone
  BY DEF Store!DeleteVersionNext, Store!s3vars, Store!tables, Store!objectTables, Store!uploadTables, UploadsAlone
<1>2. /\ Ahead(s) = "next" /\ ObjectLocal(s, clock) /\ ObjectFields(s) /\ Deleting(s) /\ ObjectShape /\ clock \in Nat
      /\ Numbers(versions, clock, local)
  BY <1>1, ObjectAt DEF Deleting
<1>3. /\ {"todo", "touches", "place", "at"} \subseteq DOMAIN s /\ p \in Store!Place
      /\ s.touches = {p}
  BY <1>2 DEF ObjectFields
<1>4. /\ (\A q \in Store!Place : q \in s.touches => q = p) /\ p \in s.touches
      /\ \A u \in Uploads : u \notin s.touches
  BY <1>2, DeleteTouches
<1>5. ASSUME NEW r, Goes(t, r), r.todo # <<>>, r.touches = s.touches, ObjectLocal(r, clock), Numbers(versions, clock, local'),
             Stage(S, p \in DOMAIN objects, s) => Stage(S, p \in DOMAIN objects, r)
      PROVE  ObjectInv'
  <2>1. clock' \in Nat /\ clock <= clock' /\ r = (IF r.todo = <<>> THEN Idle ELSE r) /\ ObjectLocal(r, clock')
        /\ r.touches \subseteq s.touches
    BY <1>1, <1>2, <1>5
  <2>2. ObjectShape' /\ Only(t, r) /\ disturbed' = disturbed
    BY <1>2, <1>5, <2>1, ObjectGoes
  <2>3. Numbers(versions', clock', local')
    BY <1>1, <1>5
  <2>4. Stage(Of(p, versions), p \in DOMAIN objects, s) => Stage(Of(p, versions'), p \in DOMAIN objects', r)
    BY <1>1, <1>5
  <2>5. /\ \A q \in Store!Place : q # p => Of(q, versions') = Of(q, versions)
        /\ \A q \in Store!Place : q # p => (q \in DOMAIN objects' <=> q \in DOMAIN objects)
    BY <1>1
  <2>. QED BY <1>1, <1>4, <1>5, <2>2, <2>3, <2>4, <2>5, ObjectPlaced
<1>6. \A v \in S : v \in versions /\ v.place = p /\ v.at \in Nat /\ v.at <= clock
  BY <1>2 DEF Numbers, VersionRow, Of
<1>7. Store!Newest(Store!VersionsOf(p)) = {v \in S : NewestIn(S, v)}
  BY DEF Store!Newest, Store!VersionsOf, Of, NewestIn
<1>8. \A u \in Workers : Numbering(local[u]) \/ Naming(local[u]) => local[u].at \in Nat /\ local[u].at <= clock
  BY <1>2 DEF ObjectShape, ObjectLocal
<1>9. CASE Store!Newest(Store!VersionsOf(p)) = {}
  <2>. PICK q : q = [s EXCEPT !.todo = LastDelete]
    OBVIOUS
  <2>1. Goes(t, q)
    BY <1>9, StoreThreads DEF Store!DeleteVersionNext, LastDelete
  <2>2. DOMAIN q = DOMAIN s /\ q.todo = LastDelete /\ q.touches = s.touches /\ q.place = s.place
    BY <1>3
  <2>3. q.todo # <<>> /\ Ahead(q) = "delete object"
    BY <2>2, ObjectHeads, AheadOf
  <2>4. ObjectLocal(q, clock) /\ ~Numbering(q) /\ ~Naming(q)
    BY <1>3, <2>2, <2>3 DEF ObjectLocal, ObjectFields, ObjectTodos, Numbering, Naming, Putting, Deleting, BucketSteps
  <2>5. S = {}
    BY <1>2, <1>6, <1>7, <1>9, Greatest
  <2>6. Stage(S, p \in DOMAIN objects, q)
    BY <2>3, <2>5, StageEmpty
  <2>7. Only(t, q)
    BY <1>2, <2>1, <2>3, GoesOnly DEF ObjectShape
  <2>8. Numbers(versions, clock, local')
    BY <1>1, <2>4, <2>7, NumbersFewer
  <2>. QED BY <1>5, <2>1, <2>2, <2>3, <2>4, <2>6, <2>8
<1>10. CASE Store!Newest(Store!VersionsOf(p)) # {}
  <2>1. PICK v \in S : NewestIn(S, v) /\ Store!Continue(t, [s EXCEPT !.todo = <<"promote">>, !.at = v.at])
    BY <1>7, <1>10 DEF Store!DeleteVersionNext
  <2>. PICK q : q = [s EXCEPT !.todo = PromoteTodo, !.at = v.at]
    OBVIOUS
  <2>2. Goes(t, q)
    BY <2>1, StoreThreads DEF PromoteTodo
  <2>3. DOMAIN q = DOMAIN s /\ q.todo = PromoteTodo /\ q.touches = s.touches /\ q.place = s.place /\ q.at = v.at
    BY <1>3
  <2>4. q.todo # <<>> /\ Ahead(q) = "promote"
    BY <2>3, ObjectHeads, AheadOf
  <2>5. ObjectLocal(q, clock) /\ ~Numbering(q)
    BY <1>3, <1>6, <2>3, <2>4 DEF ObjectLocal, ObjectFields, ObjectTodos, Numbering, Naming, Putting, Deleting, BucketSteps
  <2>6. q.todo # LastDelete
    BY <2>4, AheadOf
  <2>7. Stage(S, p \in DOMAIN objects, s) => Stage(S, p \in DOMAIN objects, q)
    BY <1>2, <2>1, <2>3, <2>4, <2>6, StageNext
  <2>8. Only(t, q)
    BY <1>2, <2>2, <2>4, GoesOnly DEF ObjectShape
  <2>9. Naming(q) => \E w \in versions : w.at = q.at /\ w.place = q.place
    BY <1>6, <2>3
  <2>10. clock <= clock
    BY <1>2
  <2>11. Numbers(versions, clock, local')
    BY <1>2, <1>8, <2>5, <2>8, <2>9, <2>10, NumbersThread
  <2>. QED BY <1>5, <2>2, <2>3, <2>4, <2>5, <2>7, <2>11
<1>. QED BY <1>9, <1>10

LEMMA ObjectPromote ==
  ASSUME ObjectInv, NEW t \in Workers, Store!DeleteVersionPromote(t)
  PROVE  ObjectInv'
<1>. PICK s, p : s = local[t] /\ p = s.place
  OBVIOUS
<1>. PICK r : r = AfterStep(s)
  OBVIOUS
<1>0. PICK f : f = [v \in versions |-> IF v.at = s.at THEN [v EXCEPT !.latest = TRUE] ELSE v]
  OBVIOUS
<1>1. /\ Store!Does(t, "promote") /\ clock' = clock /\ objects' = objects /\ UploadsAlone
      /\ versions' = {IF v.at = s.at THEN [v EXCEPT !.latest = TRUE] ELSE v : v \in versions}
  BY DEF Store!DeleteVersionPromote, Store!uploadTables, UploadsAlone
<1>2. /\ Ahead(s) = "promote" /\ ObjectLocal(s, clock) /\ clock \in Nat /\ s.todo # <<>>
      /\ Numbers(versions, clock, local) /\ Naming(s) /\ Deleting(s)
  BY <1>1, ObjectAt DEF Store!Does, Naming, Deleting
<1>3. Only(t, r) /\ r = Idle /\ ~Numbering(r) /\ ~Naming(r)
  <2>1. Only(t, r)
    BY <1>1, ObjectDid
  <2>2. r = Idle
    BY <1>2, ObjectAfter
  <2>. QED BY <2>1, <2>2, ObjectIdle DEF Numbering, Naming
<1>4. /\ \A v \in versions : VersionRow(v) /\ (v.at = s.at => v.place = p)
      /\ \A v, w \in versions : v.at = w.at => v = w
  BY <1>2 DEF Numbers
<1>5. ASSUME NEW v \in versions
      PROVE  /\ VersionRow(f[v]) /\ f[v].at = v.at /\ f[v].place = v.place
             /\ f[v].latest <=> v.latest \/ v.at = s.at
             /\ v.place # p => f[v] = v
  <2>1. CASE v.at = s.at
    <3>1. PICK w : w = [v EXCEPT !.latest = TRUE]
      OBVIOUS
    <3>2. f[v] = w
      BY <1>0, <2>1, <3>1
    <3>3. VersionRow(w) /\ w.at = v.at /\ w.place = v.place /\ w.latest = TRUE
      BY <1>4, <3>1, Relabel
    <3>. QED BY <1>4, <2>1, <3>2, <3>3
  <2>2. CASE v.at # s.at
    <3>1. f[v] = v
      BY <1>0, <2>2
    <3>. QED BY <1>4, <2>2, <3>1
  <2>. QED BY <2>1, <2>2
<1>6. versions' = Mapped(f, versions)
  <2>1. Mapped(f, versions) = {IF v.at = s.at THEN [v EXCEPT !.latest = TRUE] ELSE v : v \in versions}
    BY <1>0 DEF Mapped
  <2>. QED BY <1>1, <2>1
<1>7. Numbers(versions', clock', local') /\ \A q \in Store!Place : q # p => Of(q, versions') = Of(q, versions)
  <2>1. Numbering(r) => Numbering(local[t]) /\ r.at = local[t].at
    BY <1>3
  <2>2. Naming(r) => Naming(local[t]) /\ r.at = local[t].at /\ r.place = local[t].place
    BY <1>3
  <2>3. \A v \in versions : VersionRow(f[v]) /\ f[v].at = v.at /\ f[v].place = v.place
    BY <1>5
  <2>4. clock' = clock /\ Only(t, r)
    BY <1>1, <1>3
  <2>5. /\ Numbers(versions', clock', local')
        /\ \A q : (\A v \in versions : v.place = q => f[v] = v) => Of(q, versions') = Of(q, versions)
    BY <1>6, <2>1, <2>2, <2>3, <2>4, NumbersRelabelled
  <2>. QED BY <1>5, <2>5
<1>8. \A w \in Of(p, versions') : \E v \in Of(p, versions) : w.at = v.at /\ (w.latest <=> v.latest \/ v.at = s.at)
  <2>1. SUFFICES ASSUME NEW w \in Of(p, versions')
                 PROVE \E v \in Of(p, versions) : w.at = v.at /\ (w.latest <=> v.latest \/ v.at = s.at)
    OBVIOUS
  <2>2. w.place = p /\ w \in {f[v] : v \in versions}
    BY <1>6 DEF Of, Mapped
  <2>3. PICK v \in versions : w = f[v]
    BY <2>2
  <2>4. v.place = p /\ w.at = v.at /\ (w.latest <=> v.latest \/ v.at = s.at)
    BY <1>5, <2>2, <2>3
  <2>. QED BY <2>4 DEF Of
<1>9. \A v \in Of(p, versions) : \E w \in Of(p, versions') : w.at = v.at /\ (v.at = s.at => w.latest)
  <2>1. SUFFICES ASSUME NEW v \in Of(p, versions)
                 PROVE \E w \in Of(p, versions') : w.at = v.at /\ (v.at = s.at => w.latest)
    OBVIOUS
  <2>2. v \in versions /\ v.place = p
    BY DEF Of
  <2>3. f[v] \in versions'
    BY <1>6, <2>2 DEF Mapped
  <2>4. f[v].place = p /\ f[v].at = v.at /\ (v.at = s.at => f[v].latest)
    BY <1>5, <2>2
  <2>. QED BY <2>3, <2>4 DEF Of
<1>10. ASSUME Stage(Of(p, versions), p \in DOMAIN objects, s)
       PROVE  Stage(Of(p, versions'), p \in DOMAIN objects', r)
  <2>1. /\ \A v, w \in Of(p, versions) : v.at = w.at => v = w
        /\ \A v \in Of(p, versions) : v.at \in Nat
    BY <1>4 DEF Of, VersionRow
  <2>2. Stage(Of(p, versions'), p \in DOMAIN objects, Idle)
    BY <1>2, <1>8, <1>9, <1>10, <2>1, StagePromote
  <2>. QED BY <1>1, <1>3, <2>2
<1>11. \A q \in Store!Place : q # p => (q \in DOMAIN objects' <=> q \in DOMAIN objects)
  BY <1>1
<1>. QED BY <1>1, <1>2, <1>7, <1>10, <1>11, ObjectDeletes

LEMMA PutJoins ==
  ASSUME NEW up, NEW z, z = IF up = NoUpload THEN <<>> ELSE Drops
  PROVE  /\ <<"clear", "version", "object">> \o z = ToClear(up)
         /\ <<"object">> \o z = ToObject(up)
<1>1. CASE up = NoUpload
  <2>1. z = <<>>
    BY <1>1
  <2>2. <<"clear", "version", "object">> \o <<>> = <<"clear", "version", "object">> /\ <<"object">> \o <<>> = <<"object">>
    OBVIOUS
  <2>. QED BY <1>1, <2>1, <2>2 DEF ToClear, ToObject
<1>2. CASE up # NoUpload
  <2>1. z = <<"drop parts", "drop upload">>
    BY <1>2 DEF Drops
  <2>2. <<"object">> \o <<"drop parts", "drop upload">> = <<"object", "drop parts", "drop upload">>
    BY PairJoins
  <2>3. <<"clear", "version", "object">> \o <<"drop parts", "drop upload">>
          = <<"clear", "version", "object", "drop parts", "drop upload">>
    BY PairJoinsThree
  <2>. QED BY <1>2, <2>1, <2>2, <2>3 DEF ToClear, ToObject
<1>. QED BY <1>1, <1>2

LEMMA ObjectPut ==
  ASSUME ObjectInv, NEW t \in Workers, Store!PutObject(t)
  PROVE  ObjectInv'
<1>. PICK s, p : s = local[t] /\ p = s.place
  OBVIOUS
<1>. PICK r : r = AfterStep(s)
  OBVIOUS
<1>0. PICK C : C = [upload |-> s.upload, at |-> s.at, list |-> s.list, body |-> s.body]
  OBVIOUS
<1>1. /\ Store!Does(t, "object") /\ UNCHANGED <<versions, uploads, parts, given, issued, clock>>
      /\ completed' = IF s.upload = NoUpload THEN completed ELSE completed \cup {C}
      /\ objects' = Also([q \in {p} |-> s.body], objects)
  BY <1>0 DEF Store!PutObject, Store!uploadTables, Store!Also, Also
<1>2. /\ Ahead(s) = "object" /\ ObjectLocal(s, clock) /\ s.todo # <<>> /\ Putting(s)
      /\ Numbers(versions, clock, local) /\ UploadsTyped(uploads, parts, given)
  BY <1>1, ObjectAt DEF Store!Does, Putting
<1>3. /\ ObjectShape' /\ Only(t, r) /\ disturbed' = disturbed
      /\ r = Idle \/ r.touches = s.touches
      /\ r.todo # LastDelete
  BY <1>1, ObjectDid
<1>4. IF s.upload = NoUpload THEN r = Idle ELSE Ahead(r) = "drop parts"
  <2>1. CASE s.upload = NoUpload
    <3>0. s.todo = ToObject(s.upload)
      BY <1>2, ByAhead DEF ObjectLocal
    <3>1. Tail(s.todo) = <<>>
      BY <2>1, <3>0, PutHeads
    <3>. QED BY <2>1, <3>1 DEF AfterStep
  <2>2. CASE s.upload # NoUpload
    BY <1>2, <2>2, ObjectAfter
  <2>. QED BY <2>1, <2>2
<1>5. Ahead(r) \in {"nothing", "drop parts"}
  BY <1>4, ObjectIdle
<1>6. ~Numbering(r) /\ ~Naming(r)
  BY <1>5 DEF Numbering, Naming
<1>7. Numbers(versions', clock', local')
  BY <1>1, <1>3, <1>6, NumbersFewer
<1>8. UploadsTyped(uploads', parts', given')
  BY <1>1, <1>2
<1>9. /\ \A q \in Store!Place : q \in s.touches => q = p
      /\ \A u \in Uploads : u \in s.touches <=> u = s.upload
      /\ p \in s.touches
  BY <1>2, PutTouches
<1>10. p \in DOMAIN objects' /\ \A q \in Store!Place : q # p => (q \in DOMAIN objects' <=> q \in DOMAIN objects)
  BY <1>1 DEF Also
<1>11. ASSUME Stage(Of(p, versions), p \in DOMAIN objects, s)
       PROVE  Stage(Of(p, versions'), p \in DOMAIN objects', r)
  <2>0. p \in DOMAIN objects' /\ r.todo # LastDelete /\ Ahead(s) = "object"
    BY <1>2, <1>3, <1>10
  <2>1. Stage(Of(p, versions), p \in DOMAIN objects', r)
    BY <1>3, <1>5, <1>11, <2>0 DEF Stage, Unlabelled, Unstored, Numbering
  <2>. QED BY <1>1, <2>1
<1>12. \A q \in Store!Place : q \in s.touches /\ Stage(Of(q, versions), q \in DOMAIN objects, s)
            => Stage(Of(q, versions'), q \in DOMAIN objects', r)
  BY <1>9, <1>11
<1>13. \A q \in Store!Place : q \notin s.touches
            => Of(q, versions') = Of(q, versions) /\ (q \in DOMAIN objects' <=> q \in DOMAIN objects)
  BY <1>1, <1>9, <1>10
<1>14. ASSUME NEW u \in Uploads, u \in s.touches, Carried(uploads[u], parts[u], given[u], Done(u, completed), s)
       PROVE  Carried(uploads'[u], parts'[u], given'[u], Done(u, completed'), r)
  <2>1. u = s.upload /\ u # NoUpload
    BY <1>9, <1>14, PlacesNoUploads
  <2>2. Ahead(r) = "drop parts" /\ completed' = completed \cup {C}
    BY <1>1, <1>4, <2>1
  <2>3. Done(u, completed) = {} /\ s.body = Store!Listed(s.list, given[u])
    BY <1>2, <1>14 DEF Carried
  <2>4. C.upload = u /\ C.list = s.list /\ C.body = s.body
    BY <1>0, <2>1
  <2>5. Done(u, completed') = {C}
    BY <2>2, <2>3, <2>4 DEF Done
  <2>. QED BY <1>1, <2>2, <2>3, <2>4, <2>5 DEF Carried, Putting
<1>15. ASSUME NEW u \in Uploads, u \notin s.touches
       PROVE  Done(u, completed') = Done(u, completed)
  <2>1. u # s.upload /\ C.upload = s.upload
    BY <1>0, <1>9, <1>15
  <2>. QED BY <1>1, <2>1 DEF Done
<1>16. \A u \in Uploads : u \notin s.touches
          => /\ uploads'[u] = uploads[u] /\ parts'[u] = parts[u] /\ given'[u] = given[u]
             /\ Done(u, completed') = Done(u, completed)
  BY <1>1, <1>15
<1>17. issued' = issued
  BY <1>1
<1>. QED BY <1>3, <1>7, <1>8, <1>12, <1>13, <1>14, <1>16, <1>17, ObjectStep

LEMMA ObjectPutInside ==
  ASSUME ObjectInv, NEW t \in Workers, Store!PutInside(t)
  PROVE  ObjectInv'
<1>. PICK s, p, d : s = local[t] /\ p = s.place /\ d = clock + 1
  OBVIOUS
<1>1. /\ Store!At(t, "put") /\ clock' = d /\ UNCHANGED <<versions, objects>> /\ UploadsAlone
      /\ \/ Store!Continue(t, [s EXCEPT !.todo = Store!PutStatements(p[1]) \o Tail(@), !.at = d])
         \/ Store!Ends(t)
  BY DEF Store!PutInside, Store!tables, Store!objectTables, Store!uploadTables, UploadsAlone
<1>2. /\ Ahead(s) = "put" /\ ObjectLocal(s, clock) /\ ObjectFields(s) /\ s.todo # <<>> /\ Putting(s) /\ ObjectShape
      /\ Numbers(versions, clock, local) /\ clock \in Nat /\ d \in Nat /\ clock <= d /\ clock < d
  BY <1>1, ObjectAt DEF Putting
<1>3. /\ {"upload", "place", "at", "body", "todo", "touches"} \subseteq DOMAIN s
      /\ (\A q \in Store!Place : q \in s.touches => q = p) /\ p \in s.touches
      /\ \A u \in Uploads : u \in s.touches => "list" \in DOMAIN s
  BY <1>2, PutTouches
<1>4. ASSUME NEW q, Goes(t, q), NEW r, r = (IF q.todo = <<>> THEN Idle ELSE q), q.touches \subseteq s.touches,
             r = Idle \/ r.touches = s.touches, ObjectLocal(r, d), ~Naming(r),
             Numbering(r) => r.at = d, Ahead(r) \in {"nothing", "clear", "object"}, r.todo # LastDelete,
             \A u \in Uploads : u \in s.touches => CarriedOn(s, r)
      PROVE  ObjectInv'
  <2>1. clock' \in Nat /\ clock <= clock' /\ ObjectLocal(r, clock')
    BY <1>1, <1>2, <1>4
  <2>2. ObjectShape' /\ Only(t, r) /\ disturbed' = disturbed
    BY <1>2, <1>4, <2>1, ObjectGoes
  <2>3. \A u \in Workers : Numbering(local[u]) \/ Naming(local[u]) => local[u].at \in Nat /\ local[u].at <= clock
    BY <1>2 DEF ObjectShape, ObjectLocal
  <2>4. Numbering(r) => r.at = d /\ d > clock
    BY <1>2, <1>4
  <2>5. Numbers(versions, d, local')
    BY <1>2, <1>4, <2>2, <2>3, <2>4, NumbersThread
  <2>6. Numbers(versions', clock', local')
    BY <1>1, <2>5
  <2>7. ASSUME Stage(Of(p, versions), p \in DOMAIN objects, s)
        PROVE  Stage(Of(p, versions'), p \in DOMAIN objects', r)
    <3>1. Stage(Of(p, versions), p \in DOMAIN objects, Idle)
      BY <1>2, <2>7, StageEnds
    <3>2. Ahead(r) = "clear" => \A v \in Of(p, versions) : v.at < r.at
      BY <1>2, <1>4 DEF Numbers, VersionRow, Of, Numbering
    <3>3. Stage(Of(p, versions), p \in DOMAIN objects, r)
      BY <1>4, <3>1, <3>2, StageBegins
    <3>. QED BY <1>1, <3>3
  <2>8. /\ \A q0 \in Store!Place : q0 # p => Of(q0, versions') = Of(q0, versions)
        /\ \A q0 \in Store!Place : q0 # p => (q0 \in DOMAIN objects' <=> q0 \in DOMAIN objects)
    BY <1>1
  <2>. QED BY <1>1, <1>3, <1>4, <2>2, <2>6, <2>7, <2>8, ObjectPlaced
<1>5. CASE Store!Continue(t, [s EXCEPT !.todo = Store!PutStatements(p[1]) \o Tail(@), !.at = d])
  <2>. PICK x : x = Store!PutStatements(p[1]) \o Tail(s.todo)
    OBVIOUS
  <2>. PICK q : q = [s EXCEPT !.todo = x, !.at = d]
    OBVIOUS
  <2>1. Goes(t, q)
    BY <1>5, StoreThreads
  <2>2. x = ToClear(s.upload) \/ x = ToObject(s.upload)
    <3>1. s.todo = ToPut(s.upload)
      BY <1>2, ByAhead
    <3>. PICK z : z = Tail(s.todo)
      OBVIOUS
    <3>2. z = IF s.upload = NoUpload THEN <<>> ELSE Drops
      BY <3>1, PutHeads
    <3>3. Store!PutStatements(p[1]) = <<"clear", "version", "object">> \/ Store!PutStatements(p[1]) = <<"object">>
      BY DEF Store!PutStatements
    <3>. QED BY <3>2, <3>3, PutJoins
  <2>3. /\ DOMAIN q = DOMAIN s /\ q.todo = x /\ q.at = d /\ q.touches = s.touches
        /\ q.place = s.place /\ q.upload = s.upload /\ q.body = s.body
        /\ \A u \in Uploads : u \in s.touches => q.list = s.list
    BY <1>3
  <2>4. q.todo # <<>> /\ Ahead(q) \in {"clear", "object"}
    <3>1. CASE x = ToClear(s.upload)
      <4>1. q.todo = ToClear(q.upload)
        BY <2>3, <3>1
      <4>2. ToClear(q.upload) # <<>>
        BY PutHeads
      <4>. QED BY <4>1, <4>2, AheadOf
    <3>2. CASE x = ToObject(s.upload)
      <4>1. q.todo = ToObject(q.upload)
        BY <2>3, <3>2
      <4>2. ToObject(q.upload) # <<>>
        BY PutHeads
      <4>. QED BY <4>1, <4>2, AheadOf
    <3>. QED BY <2>2, <3>1, <3>2
  <2>5. q.todo # LastDelete
    BY <2>4, AheadOf
  <2>6. q.todo \in PutTodos(q.upload)
    BY <2>2, <2>3 DEF PutTodos
  <2>7. ObjectLocal(q, d) /\ ~Naming(q) /\ Putting(q)
    <3>1. ~Naming(q) /\ Putting(q) /\ Ahead(q) \notin BucketSteps /\ ~Deleting(q)
      BY <2>4 DEF Naming, Putting, Deleting, BucketSteps
    <3>2. /\ s.place \in Store!Place
          /\ s.upload = NoUpload => s.touches = {s.place}
          /\ s.upload # NoUpload => /\ s.upload \in Uploads /\ "list" \in DOMAIN s
                                    /\ s.touches = {s.upload, s.place}
      BY <1>2 DEF ObjectFields
    <3>3. ObjectFields(q)
      BY <1>3, <2>3, <2>4, <2>6, <3>1, <3>2 DEF ObjectFields
    <3>. QED BY <1>2, <2>3, <3>1, <3>3 DEF ObjectLocal
  <2>8. \A u \in Uploads : u \in s.touches => CarriedOn(s, q)
    BY <1>2, <2>3, <2>7 DEF CarriedOn
  <2>9. q = (IF q.todo = <<>> THEN Idle ELSE q) /\ Ahead(q) \in {"nothing", "clear", "object"}
    BY <2>4
  <2>. QED BY <1>4, <2>1, <2>3, <2>5, <2>7, <2>8, <2>9
<1>6. CASE Store!Ends(t)
  <2>1. Goes(t, Idle) /\ Idle.touches = {} /\ Idle.todo = <<>> /\ Ahead(Idle) = "nothing" /\ ObjectLocal(Idle, d)
        /\ Idle.todo # LastDelete
    BY <1>6, StoreThreads, ObjectIdle DEF Idle
  <2>2. ~Naming(Idle) /\ ~Numbering(Idle) /\ Idle = (IF Idle.todo = <<>> THEN Idle ELSE Idle)
    BY <2>1 DEF Naming, Numbering
  <2>3. CarriedOn(s, Idle)
    BY <1>2, <2>1 DEF CarriedOn, Putting
  <2>4. Idle.touches \subseteq s.touches /\ Ahead(Idle) \in {"nothing", "clear", "object"}
    BY <2>1
  <2>. QED BY <1>4, <2>1, <2>2, <2>3, <2>4
<1>. QED BY <1>1, <1>5, <1>6

ObjectsAlone == versions' = versions /\ objects' = objects /\ clock' = clock /\ completed' = completed

UploadOnly(x) ==
    \A u \in Uploads : u # x => /\ uploads'[u] = uploads[u] /\ parts'[u] = parts[u] /\ given'[u] = given[u]

(* A step that works on one upload. *)
LEMMA ObjectUploads ==
  ASSUME ObjectInv, NEW t \in Workers, NEW r, ObjectShape', Only(t, r), disturbed' = disturbed, issued' = issued,
         r = Idle \/ r.touches = local[t].touches,
         ObjectsAlone, ~Numbering(r), ~Naming(r), UploadsTyped(uploads', parts', given'),
         NEW x, x \in local[t].touches, \A u \in Uploads : u \in local[t].touches => u = x, UploadOnly(x),
         Carried(uploads[x], parts[x], given[x], Done(x, completed), local[t])
            => Carried(uploads'[x], parts'[x], given'[x], Done(x, completed), r),
         Ahead(local[t]) \notin {"version", "next", "promote", "object", "delete versions"},
         Ahead(r) \notin {"version", "promote", "clear"}, r.todo # LastDelete
  PROVE  ObjectInv'
<1>1. Numbers(versions', clock', local')
  BY NumbersFewer DEF ObjectsAlone
<1>2. ASSUME NEW p \in Store!Place, Stage(Of(p, versions), p \in DOMAIN objects, local[t])
      PROVE  Stage(Of(p, versions'), p \in DOMAIN objects', r)
  <2>1. Stage(Of(p, versions), p \in DOMAIN objects, Idle)
    BY <1>2, StageEnds
  <2>2. Stage(Of(p, versions), p \in DOMAIN objects, r)
    BY <2>1, StageBegins
  <2>. QED BY <2>2 DEF ObjectsAlone
<1>3. \A p \in Store!Place : Of(p, versions') = Of(p, versions) /\ (p \in DOMAIN objects' <=> p \in DOMAIN objects)
  BY DEF ObjectsAlone
<1>4. \A u \in Uploads : u \in local[t].touches /\ Carried(uploads[u], parts[u], given[u], Done(u, completed), local[t])
          => Carried(uploads'[u], parts'[u], given'[u], Done(u, completed'), r)
  BY DEF ObjectsAlone
<1>5. \A u \in Uploads : u \notin local[t].touches
          => /\ uploads'[u] = uploads[u] /\ parts'[u] = parts[u] /\ given'[u] = given[u]
             /\ Done(u, completed') = Done(u, completed)
  BY DEF ObjectsAlone, UploadOnly
<1>. QED BY <1>1, <1>2, <1>3, <1>4, <1>5, ObjectStep

LEMMA UploadTouches ==
  ASSUME NEW s, NEW c, ObjectLocal(s, c), Ahead(s) \in {"part", "select", "drop parts", "drop upload"}
  PROVE  /\ "upload" \in DOMAIN s /\ s.upload \in Uploads /\ s.upload \in s.touches
         /\ \A u \in Uploads : u \in s.touches => u = s.upload
  BY PlacesNoUploads DEF ObjectLocal, ObjectFields

LEMMA ObjectPart ==
  ASSUME ObjectInv, NEW t \in Workers, Store!UploadPart(t)
  PROVE  ObjectInv'
<1>. PICK s, x : s = local[t] /\ x = s.upload
  OBVIOUS
<1>. PICK r : r = AfterStep(s)
  OBVIOUS
<1>0. PICK y : y = [n \in s.list |-> s.at]
  OBVIOUS
<1>1. /\ Store!Does(t, "part") /\ UNCHANGED <<versions, objects, clock, uploads, issued, completed>>
      /\ parts' = [parts EXCEPT ![x] = Also(y, @)]
      /\ given' = [given EXCEPT ![x] = Also(y, @)]
  BY <1>0 DEF Store!UploadPart, Store!objectTables, Store!Also, Also
<1>2. /\ Ahead(s) = "part" /\ ObjectLocal(s, clock) /\ s.todo # <<>> /\ UploadsTyped(uploads, parts, given)
  BY <1>1, ObjectAt DEF Store!Does
<1>3. /\ ObjectShape' /\ Only(t, r) /\ disturbed' = disturbed
      /\ r = Idle \/ r.touches = s.touches
      /\ r.todo # LastDelete
  BY <1>1, ObjectDid
<1>4. r = Idle
  BY <1>2, ObjectAfter
<1>5. Ahead(r) = "nothing" /\ ~Numbering(r) /\ ~Naming(r)
  BY <1>4, ObjectIdle DEF Numbering, Naming
<1>6. x \in Uploads /\ x \in s.touches /\ \A u \in Uploads : u \in s.touches => u = x
  BY <1>2, UploadTouches
<1>7. /\ parts' = [u \in Uploads |-> parts'[u]] /\ given' = [u \in Uploads |-> given'[u]]
      /\ parts'[x] = Also(y, parts[x]) /\ given'[x] = Also(y, given[x])
      /\ \A u \in Uploads : u # x => parts'[u] = parts[u] /\ given'[u] = given[u]
  BY <1>1, <1>2, <1>6 DEF UploadsTyped
<1>8. UploadsTyped(uploads', parts', given')
  BY <1>1, <1>2, <1>7 DEF UploadsTyped
<1>9. ASSUME Carried(uploads[x], parts[x], given[x], Done(x, completed), s)
      PROVE  Carried(uploads'[x], parts'[x], given'[x], Done(x, completed), r)
  <2>1. uploads[x] # <<>> /\ parts[x] = given[x] /\ Done(x, completed) = {}
    BY <1>2, <1>9 DEF Carried
  <2>2. uploads'[x] # <<>> /\ parts'[x] = given'[x]
    BY <1>1, <1>7, <2>1
  <2>. QED BY <1>5, <2>1, <2>2 DEF Carried, Putting
<1>10. UploadOnly(x)
  BY <1>1, <1>7 DEF UploadOnly
<1>11. ObjectsAlone /\ issued' = issued
  BY <1>1 DEF ObjectsAlone
<1>12. /\ Ahead(s) \notin {"version", "next", "promote", "object", "delete versions"}
       /\ Ahead(r) \notin {"version", "promote", "clear"}
  BY <1>2, <1>5
<1>. QED BY <1>3, <1>5, <1>6, <1>8, <1>9, <1>10, <1>11, <1>12, ObjectUploads

LEMMA ObjectDropParts ==
  ASSUME ObjectInv, NEW t \in Workers, Store!DropParts(t)
  PROVE  ObjectInv'
<1>. PICK s, x : s = local[t] /\ x = s.upload
  OBVIOUS
<1>. PICK r : r = AfterStep(s)
  OBVIOUS
<1>1. /\ Store!Does(t, "drop parts") /\ UNCHANGED <<versions, objects, clock, uploads, given, issued, completed>>
      /\ parts' = [parts EXCEPT ![x] = NoParts]
  BY DEF Store!DropParts, Store!objectTables, NoParts
<1>2. /\ Ahead(s) = "drop parts" /\ ObjectLocal(s, clock) /\ s.todo # <<>> /\ UploadsTyped(uploads, parts, given)
  BY <1>1, ObjectAt DEF Store!Does
<1>3. /\ ObjectShape' /\ Only(t, r) /\ disturbed' = disturbed
      /\ r = Idle \/ r.touches = s.touches
      /\ r.todo # LastDelete
  BY <1>1, ObjectDid
<1>4. Ahead(r) = "drop upload"
  BY <1>2, ObjectAfter
<1>5. ~Numbering(r) /\ ~Naming(r)
  BY <1>4 DEF Numbering, Naming
<1>6. x \in Uploads /\ x \in s.touches /\ \A u \in Uploads : u \in s.touches => u = x
  BY <1>2, UploadTouches
<1>7. /\ parts' = [u \in Uploads |-> parts'[u]] /\ parts'[x] = NoParts
      /\ \A u \in Uploads : u # x => parts'[u] = parts[u]
  BY <1>1, <1>2, <1>6 DEF UploadsTyped
<1>8. UploadsTyped(uploads', parts', given')
  BY <1>1, <1>2, <1>7 DEF UploadsTyped
<1>9. ASSUME Carried(uploads[x], parts[x], given[x], Done(x, completed), s)
      PROVE  Carried(uploads'[x], parts'[x], given'[x], Done(x, completed), r)
  <2>1. /\ \A c, d \in Done(x, completed) : c = d
        /\ \A c \in Done(x, completed) : c.body = Store!Listed(c.list, given[x])
    BY <1>9 DEF Carried
  <2>. QED BY <1>1, <1>4, <1>7, <2>1 DEF Carried, Putting
<1>10. UploadOnly(x)
  BY <1>1, <1>7 DEF UploadOnly
<1>11. ObjectsAlone /\ issued' = issued
  BY <1>1 DEF ObjectsAlone
<1>12. /\ Ahead(s) \notin {"version", "next", "promote", "object", "delete versions"}
       /\ Ahead(r) \notin {"version", "promote", "clear"}
  BY <1>2, <1>4
<1>. QED BY <1>3, <1>5, <1>6, <1>8, <1>9, <1>10, <1>11, <1>12, ObjectUploads

LEMMA ObjectDropUpload ==
  ASSUME ObjectInv, NEW t \in Workers, Store!DropUpload(t)
  PROVE  ObjectInv'
<1>. PICK s, x : s = local[t] /\ x = s.upload
  OBVIOUS
<1>. PICK r : r = AfterStep(s)
  OBVIOUS
<1>1. /\ Store!Does(t, "drop upload") /\ UNCHANGED <<versions, objects, clock, parts, given, issued, completed>>
      /\ uploads' = [uploads EXCEPT ![x] = <<>>]
  BY DEF Store!DropUpload, Store!objectTables
<1>2. /\ Ahead(s) = "drop upload" /\ ObjectLocal(s, clock) /\ s.todo # <<>> /\ UploadsTyped(uploads, parts, given)
  BY <1>1, ObjectAt DEF Store!Does
<1>3. /\ ObjectShape' /\ Only(t, r) /\ disturbed' = disturbed
      /\ r = Idle \/ r.touches = s.touches
      /\ r.todo # LastDelete
  BY <1>1, ObjectDid
<1>4. r = Idle
  BY <1>2, ObjectAfter
<1>5. Ahead(r) = "nothing" /\ ~Numbering(r) /\ ~Naming(r)
  BY <1>4, ObjectIdle DEF Numbering, Naming
<1>6. x \in Uploads /\ x \in s.touches /\ \A u \in Uploads : u \in s.touches => u = x
  BY <1>2, UploadTouches
<1>7. /\ uploads' = [u \in Uploads |-> uploads'[u]] /\ uploads'[x] = <<>>
      /\ \A u \in Uploads : u # x => uploads'[u] = uploads[u]
  BY <1>1, <1>2, <1>6 DEF UploadsTyped
<1>8. UploadsTyped(uploads', parts', given')
  BY <1>1, <1>2, <1>7 DEF UploadsTyped
<1>9. ASSUME Carried(uploads[x], parts[x], given[x], Done(x, completed), s)
      PROVE  Carried(uploads'[x], parts'[x], given'[x], Done(x, completed), r)
  <2>1. /\ \A c, d \in Done(x, completed) : c = d
        /\ \A c \in Done(x, completed) : c.body = Store!Listed(c.list, given[x])
        /\ parts[x] = NoParts
    BY <1>2, <1>9 DEF Carried
  <2>. QED BY <1>1, <1>5, <1>7, <2>1 DEF Carried, Putting
<1>10. UploadOnly(x)
  BY <1>1, <1>7 DEF UploadOnly
<1>11. ObjectsAlone /\ issued' = issued
  BY <1>1 DEF ObjectsAlone
<1>12. /\ Ahead(s) \notin {"version", "next", "promote", "object", "delete versions"}
       /\ Ahead(r) \notin {"version", "promote", "clear"}
  BY <1>2, <1>5
<1>. QED BY <1>3, <1>5, <1>6, <1>8, <1>9, <1>10, <1>11, <1>12, ObjectUploads

(* A completion has what it puts, or ends. *)
LEMMA ObjectSelect ==
  ASSUME ObjectInv, NEW t \in Workers, Store!CompleteSelect(t)
  PROVE  ObjectInv'
<1>. PICK s, x : s = local[t] /\ x = s.upload
  OBVIOUS
<1>1. /\ Store!At(t, "select") /\ UNCHANGED <<versions, objects, clock, uploads, parts, given, issued, completed>>
  BY DEF Store!CompleteSelect, Store!s3vars, Store!tables, Store!objectTables, Store!uploadTables
<1>2. /\ Ahead(s) = "select" /\ ObjectLocal(s, clock) /\ ObjectFields(s) /\ ObjectShape /\ clock \in Nat
      /\ UploadsTyped(uploads, parts, given)
  BY <1>1, ObjectAt
<1>3. x \in Uploads /\ x \in s.touches /\ x # NoUpload /\ \A u \in Uploads : u \in s.touches => u = x
  BY <1>2, UploadTouches, PlacesNoUploads
<1>4. ASSUME NEW q, Goes(t, q), NEW r, r = (IF q.todo = <<>> THEN Idle ELSE q), q.touches \subseteq s.touches,
             r = Idle \/ r.touches = s.touches, ObjectLocal(r, clock), Ahead(r) \in {"nothing", "put"},
             Carried(uploads[x], parts[x], given[x], Done(x, completed), s)
               => Carried(uploads[x], parts[x], given[x], Done(x, completed), r)
      PROVE  ObjectInv'
  <2>1. clock' \in Nat /\ clock <= clock' /\ ObjectLocal(r, clock')
    BY <1>1, <1>2, <1>4
  <2>2. ObjectShape' /\ Only(t, r) /\ disturbed' = disturbed
    BY <1>2, <1>4, <2>1, ObjectGoes
  <2>3. ~Numbering(r) /\ ~Naming(r)
    BY <1>4 DEF Numbering, Naming
  <2>4. UploadsTyped(uploads', parts', given') /\ ObjectsAlone /\ issued' = issued
    BY <1>1, <1>2 DEF ObjectsAlone
  <2>5. /\ Ahead(s) \notin {"version", "next", "promote", "object", "delete versions"}
        /\ Ahead(r) \notin {"version", "promote", "clear"} /\ r.todo # LastDelete
    BY <1>2, <1>4, AheadOf
  <2>6. UploadOnly(x)
    BY <1>1 DEF UploadOnly
  <2>7. Carried(uploads[x], parts[x], given[x], Done(x, completed), s)
               => Carried(uploads'[x], parts'[x], given'[x], Done(x, completed), r)
    BY <1>1, <1>4
  <2>. QED BY <1>3, <1>4, <2>2, <2>3, <2>4, <2>5, <2>6, <2>7, ObjectUploads
<1>5. CASE Store!Ends(t)
  <2>1. Goes(t, Idle) /\ Idle.touches = {} /\ Idle.todo = <<>> /\ Ahead(Idle) = "nothing" /\ ObjectLocal(Idle, clock)
    BY <1>5, StoreThreads, ObjectIdle DEF Idle
  <2>2. CarriedOn(s, Idle)
    BY <1>2, <2>1 DEF CarriedOn, Putting
  <2>3. Idle = (IF Idle.todo = <<>> THEN Idle ELSE Idle) /\ Idle.touches \subseteq s.touches
        /\ Ahead(Idle) \in {"nothing", "put"}
    BY <2>1
  <2>4. Carried(uploads[x], parts[x], given[x], Done(x, completed), s)
               => Carried(uploads[x], parts[x], given[x], Done(x, completed), Idle)
    BY <2>2, CarriedGoesOn
  <2>. QED BY <1>4, <2>1, <2>3, <2>4
<1>6. ASSUME NEW q, q = Also([s EXCEPT !.todo = <<"put", "drop parts", "drop upload">>], [body |-> Store!Joined(x, s.list)]),
             Goes(t, q)
      PROVE  ObjectInv'
  <2>. PICK b, y : b = Store!Joined(x, s.list) /\ y = [s EXCEPT !.todo = ToPut(x)]
    OBVIOUS
  <2>1. ToPut(x) = <<"put", "drop parts", "drop upload">>
    BY <1>3 DEF ToPut
  <2>2. q = Also(y, [body |-> b])
    BY <1>6, <2>1
  <2>3. /\ {"todo", "touches", "upload", "place", "list", "at"} \subseteq DOMAIN s /\ "body" \notin DOMAIN s
        /\ s.place \in Store!Place /\ s.touches = {x, s.place}
    BY <1>2 DEF ObjectFields
  <2>4. /\ DOMAIN y = DOMAIN s /\ y.todo = ToPut(x) /\ y.touches = s.touches /\ y.upload = x
        /\ y.place = s.place /\ y.list = s.list
    BY <2>3
  <2>5. /\ {"todo", "touches", "upload", "place", "list", "at", "body"} \subseteq DOMAIN q
        /\ q.todo = ToPut(x) /\ q.touches = s.touches /\ q.upload = x
        /\ q.place = s.place /\ q.list = s.list /\ q.body = b
    BY <2>2, <2>3, <2>4 DEF Also
  <2>6. q.todo # <<>> /\ Ahead(q) = "put" /\ q.todo \in PutTodos(q.upload)
    BY <2>5, PutHeads, AheadOf DEF PutTodos
  <2>7. Putting(q) /\ ~Naming(q) /\ ~Numbering(q) /\ ~Deleting(q) /\ Ahead(q) \notin BucketSteps
    BY <2>6 DEF Putting, Naming, Numbering, Deleting, BucketSteps
  <2>8. ObjectLocal(q, clock)
    BY <1>3, <2>3, <2>5, <2>6, <2>7 DEF ObjectLocal, ObjectFields
  <2>9. ASSUME Carried(uploads[x], parts[x], given[x], Done(x, completed), s)
        PROVE  Carried(uploads[x], parts[x], given[x], Done(x, completed), q)
    <3>1. uploads[x] # <<>> /\ parts[x] = given[x] /\ Done(x, completed) = {}
      BY <1>2, <2>9 DEF Carried
    <3>2. q.body = Store!Listed(q.list, given[x])
      BY <2>5, <3>1 DEF Store!Joined
    <3>. QED BY <2>6, <3>1, <3>2 DEF Carried
  <2>10. q = (IF q.todo = <<>> THEN Idle ELSE q) /\ q.touches \subseteq s.touches /\ Ahead(q) \in {"nothing", "put"}
    BY <2>5, <2>6
  <2>. QED BY <1>4, <1>6, <2>5, <2>8, <2>9, <2>10
<1>7. \/ Store!Ends(t)
      \/ Store!Continue(t, Also([s EXCEPT !.todo = <<"put", "drop parts", "drop upload">>], [body |-> Store!Joined(x, s.list)]))
  BY DEF Store!CompleteSelect, Store!Also, Also
<1>. QED BY <1>5, <1>6, <1>7, StoreThreads

(* The id is new. *)
LEMMA ObjectCreateUpload ==
  ASSUME ObjectInv, NEW t \in Workers, Store!CreateUpload(t)
  PROVE  ObjectInv'
<1>. PICK s : s = local[t]
  OBVIOUS
<1>. PICK r : r = AfterStep(s)
  OBVIOUS
<1>1. Store!Does(t, "create upload") /\ UNCHANGED <<versions, objects, clock, parts, given, completed>>
  BY DEF Store!CreateUpload, Store!objectTables
<1>2. PICK x \in Uploads \ issued : uploads' = [uploads EXCEPT ![x] = s.place] /\ issued' = issued \cup {x}
  BY DEF Store!CreateUpload
<1>3. /\ Ahead(s) = "create upload" /\ ObjectLocal(s, clock) /\ s.todo # <<>> /\ UploadsTyped(uploads, parts, given)
  BY <1>1, ObjectAt DEF Store!Does
<1>4. ObjectShape' /\ Only(t, r) /\ disturbed' = disturbed
  BY <1>1, ObjectDid
<1>5. r = Idle
  BY <1>3, ObjectAfter
<1>6. Ahead(r) = "nothing" /\ ~Numbering(r) /\ ~Naming(r) /\ r.touches = {}
  BY <1>5, ObjectIdle DEF Numbering, Naming
<1>7. s.touches = {} /\ s.place \in Store!Place
  BY <1>3 DEF ObjectLocal, ObjectFields
<1>8. Numbers(versions', clock', local')
  BY <1>1, <1>4, <1>6, NumbersFewer
<1>9. /\ uploads' = [u \in Uploads |-> uploads'[u]] /\ uploads'[x] = s.place
      /\ \A u \in Uploads : u # x => uploads'[u] = uploads[u]
  BY <1>2, <1>3 DEF UploadsTyped
<1>10. UploadsTyped(uploads', parts', given')
  BY <1>1, <1>3, <1>7, <1>9 DEF UploadsTyped
<1>11. Apart
  BY DEF ObjectInv, ObjectShape
<1>12. ASSUME NEW p \in Store!Place, p \notin disturbed' PROVE Staged(p, versions', objects', local')
  <2>1. Staged(p, versions, objects, local) /\ p \notin disturbed
    BY <1>4, <1>12 DEF ObjectInv
  <2>2. p \notin s.touches /\ Of(p, versions') = Of(p, versions) /\ (p \in DOMAIN objects' <=> p \in DOMAIN objects)
    BY <1>1, <1>7
  <2>. QED BY <1>4, <1>5, <1>11, <2>1, <2>2, StagedStep
<1>13. ASSUME NEW u \in Uploads, u # x
       PROVE  UploadInv(u, disturbed', issued', uploads', parts', given', completed', local')
  <2>1. UploadInv(u, disturbed, issued, uploads, parts, given, completed, local)
    BY DEF ObjectInv
  <2>2. u \in issued' <=> u \in issued
    BY <1>2, <1>13
  <2>3. /\ uploads'[u] = uploads[u] /\ parts'[u] = parts[u] /\ given'[u] = given[u]
        /\ Done(u, completed') = Done(u, completed) /\ u \notin s.touches
    BY <1>1, <1>7, <1>9, <1>13
  <2>. QED BY <1>4, <1>5, <1>11, <2>1, <2>2, <2>3, UploadStep
<1>14. UploadInv(x, disturbed', issued', uploads', parts', given', completed', local')
  <2>1. Unissued(x, uploads, parts, given, completed, local)
    BY <1>2 DEF ObjectInv, UploadInv
  <2>2. \A v \in Workers : x \notin local'[v].touches
    BY <1>4, <1>6, <2>1 DEF Only, Unissued
  <2>3. parts'[x] = NoParts /\ given'[x] = NoParts /\ Done(x, completed') = {}
    BY <1>1, <2>1 DEF Unissued
  <2>4. uploads'[x] \in Store!Place /\ uploads'[x] # <<>>
    <3>1. s.place # <<>>
      BY <1>7 DEF Store!Place
    <3>. QED BY <1>7, <1>9, <3>1
  <2>5. Carried(uploads'[x], parts'[x], given'[x], Done(x, completed'), Idle)
    BY <2>3, <2>4, ObjectIdle DEF Carried, Putting
  <2>6. x \in issued'
    BY <1>2
  <2>. QED BY <2>2, <2>5, <2>6 DEF UploadInv, Carries
<1>. QED BY <1>4, <1>8, <1>10, <1>12, <1>13, <1>14 DEF ObjectInv

(* A request begins. *)
LEMMA ObjectBegins ==
  ASSUME ObjectInv, NEW t \in Workers, NEW s, Begins(t, s), ObjectLocal(s, clock'), clock' \in Nat, clock <= clock',
         versions' = versions, objects' = objects, UploadsAlone,
         Numbering(s) => s.at = clock' /\ clock' > clock,
         Naming(s) => \E v \in versions : v.at = s.at /\ v.place = s.place,
         Ahead(s) \notin {"version", "promote"}, s.todo # LastDelete,
         \A u \in Uploads : u \in s.touches =>
            uploads[u] # <<>> /\ ~Putting(s) /\ Ahead(s) # "drop upload"
  PROVE  ObjectInv'
<1>1. /\ ObjectShape /\ Threads /\ Apart /\ Numbers(versions, clock, local) /\ UploadsTyped(uploads, parts, given)
      /\ clock \in Nat
  BY DEF ObjectInv, ObjectShape, Numbers
<1>2. /\ Threads' /\ Apart' /\ Only(t, s) /\ local[t] = Idle
      /\ disturbed' = disturbed \cup {row \in s.touches : \E u \in Workers : row \in local[u].touches}
  BY <1>1, BeginsOnly, BeginsApart DEF Begins
<1>3. ObjectShape'
  <2>1. \A u \in Workers : ObjectLocal(local[u], clock')
    BY <1>1, ObjectLater DEF ObjectShape
  <2>2. \A u \in Workers : ObjectLocal(local'[u], clock')
    BY <1>2, <2>1 DEF Only
  <2>. QED BY <1>2, <2>2 DEF ObjectShape
<1>4. Numbers(versions', clock', local')
  <2>1. \A u \in Workers : Numbering(local[u]) \/ Naming(local[u]) => local[u].at \in Nat /\ local[u].at <= clock
    BY <1>1 DEF ObjectShape, ObjectLocal
  <2>2. ~(Numbering(s) /\ Naming(s))
    BY DEF Numbering, Naming
  <2>3. Numbers(versions, clock', local')
    BY <1>1, <1>2, <2>1, <2>2, NumbersThread
  <2>. QED BY <2>3
<1>5. UploadsTyped(uploads', parts', given') /\ issued' = issued
  BY <1>1 DEF UploadsAlone
<1>6. \A u \in Workers : local'[u] = IF u = t THEN s ELSE local[u]
  BY <1>2 DEF Only
<1>7. Idle.touches = {}
  BY ObjectIdle
<1>8. ASSUME NEW p \in Store!Place, p \notin disturbed' PROVE Staged(p, versions', objects', local')
  <2>1. Staged(p, versions, objects, local)
    BY <1>2, <1>8 DEF ObjectInv
  <2>2. CASE p \in s.touches
    <3>1. \A u \in Workers : p \notin local[u].touches
      BY <1>2, <1>8, <2>2
    <3>2. Stage(Of(p, versions), p \in DOMAIN objects, Idle)
      BY <2>1, <3>1 DEF Staged
    <3>3. Ahead(s) = "clear" => \A v \in Of(p, versions) : v.at < s.at
      BY <1>1 DEF Numbers, VersionRow, Of, Numbering
    <3>4. Stage(Of(p, versions), p \in DOMAIN objects, s)
      BY <3>2, <3>3, StageBegins
    <3>5. \A u \in Workers : p \in local'[u].touches => u = t
      BY <1>6, <3>1
    <3>6. local'[t] = s
      BY <1>6
    <3>. QED BY <2>2, <3>4, <3>5, <3>6 DEF Staged
  <2>3. CASE p \notin s.touches
    <3>1. \A u \in Workers : p \in local'[u].touches => u # t /\ local'[u] = local[u]
      BY <1>6, <2>3
    <3>2. \A u \in Workers : p \in local[u].touches => p \in local'[u].touches
      BY <1>2, <1>6, <1>7
    <3>3. (\A u \in Workers : p \notin local'[u].touches) => \A u \in Workers : p \notin local[u].touches
      BY <3>2
    <3>. QED BY <2>1, <3>1, <3>3 DEF Staged
  <2>. QED BY <2>2, <2>3
<1>9. ASSUME NEW u \in Uploads
      PROVE  UploadInv(u, disturbed', issued', uploads', parts', given', completed', local')
  <2>1. UploadInv(u, disturbed, issued, uploads, parts, given, completed, local)
    BY DEF ObjectInv
  <2>2. CASE u \in s.touches
    <3>1. u \in issued /\ uploads[u] # <<>> /\ ~Putting(s)
      BY <2>1, <2>2 DEF UploadInv, Unissued
    <3>2. ASSUME u \notin disturbed' PROVE Carries(u, uploads', parts', given', completed', local')
      <4>1. \A w \in Workers : u \notin local[w].touches
        BY <1>2, <2>2, <3>2
      <4>2. u \notin disturbed
        BY <1>2, <3>2
      <4>3. Carried(uploads[u], parts[u], given[u], Done(u, completed), Idle)
        BY <2>1, <3>1, <4>1, <4>2 DEF UploadInv, Carries
      <4>4. Carried(uploads[u], parts[u], given[u], Done(u, completed), s)
        <5>1. parts[u] = given[u] /\ Done(u, completed) = {}
          BY <3>1, <4>3, ObjectIdle DEF Carried
        <5>2. Ahead(s) # "drop upload"
          BY <2>2
        <5>. QED BY <3>1, <4>3, <5>1, <5>2 DEF Carried
      <4>5. \A w \in Workers : u \in local'[w].touches => w = t
        BY <1>6, <4>1
      <4>6. local'[t] = s
        BY <1>6
      <4>. QED BY <2>2, <4>4, <4>5, <4>6 DEF Carries, UploadsAlone
    <3>. QED BY <1>5, <3>1, <3>2 DEF UploadInv
  <2>3. CASE u \notin s.touches
    <3>1. \A w \in Workers : u \in local'[w].touches => w # t /\ local'[w] = local[w]
      BY <1>6, <2>3
    <3>2. (\A w \in Workers : u \notin local'[w].touches) <=> \A w \in Workers : u \notin local[w].touches
      BY <1>2, <1>6, <1>7, <2>3
    <3>3. Carries(u, uploads, parts, given, completed, local) => Carries(u, uploads', parts', given', completed', local')
      BY <3>1, <3>2 DEF Carries, UploadsAlone
    <3>4. Unissued(u, uploads, parts, given, completed, local) => Unissued(u, uploads', parts', given', completed', local')
      BY <3>2 DEF Unissued, UploadsAlone
    <3>5. u \notin disturbed' => u \notin disturbed
      BY <1>2
    <3>. QED BY <1>5, <2>1, <3>3, <3>4, <3>5 DEF UploadInv
  <2>. QED BY <2>2, <2>3
<1>. QED BY <1>3, <1>4, <1>5, <1>8, <1>9 DEF ObjectInv

LEMMA ClockStays ==
  ASSUME clock \in Nat, clock' = clock
  PROVE  clock' \in Nat /\ clock <= clock'
  OBVIOUS

(* One whose first statement only looks. *)
LEMMA ObjectAsks ==
  ASSUME ObjectInv, NEW t \in Workers, NEW s, Store!Ask(t, s), ObjectLocal(s, clock),
         ~Numbering(s), Ahead(s) # "promote", s.todo # LastDelete,
         Naming(s) => \E v \in versions : v.at = s.at /\ v.place = s.place,
         \A u \in Uploads : u \in s.touches => uploads[u] # <<>> /\ ~Putting(s) /\ Ahead(s) # "drop upload"
  PROVE  ObjectInv'
<1>1. /\ Begins(t, s) /\ versions' = versions /\ objects' = objects /\ clock' = clock /\ UploadsAlone
  BY StoreThreads DEF Store!Ask, Store!s3vars, Store!tables, Store!objectTables, Store!uploadTables, UploadsAlone
<1>2. clock \in Nat
  BY DEF ObjectInv, Numbers
<1>0. clock' = clock
  BY <1>1
<1>3. ObjectLocal(s, clock') /\ clock' \in Nat /\ clock <= clock'
  <2>1. clock' \in Nat /\ clock <= clock'
    BY <1>0, <1>2, ClockStays
  <2>. QED BY <1>0, <2>1
<1>4. Ahead(s) \notin {"version", "promote"}
  BY DEF Numbering
<1>. QED BY <1>1, <1>3, <1>4, ObjectBegins

LEMMA ObjectAsksAside ==
  ASSUME ObjectInv, NEW t \in Workers, NEW s, Store!Ask(t, s), {"todo", "touches"} \subseteq DOMAIN s,
         NEW x \in BucketSteps, s.todo = <<x>>, s.touches = {}
  PROVE  ObjectInv'
<1>1. s.todo \in BucketTodos
  BY DEF BucketTodos
<1>2. Ahead(s) \in BucketSteps
  BY <1>1, AheadOf
<1>3. ~Numbering(s) /\ ~Naming(s) /\ ~Putting(s) /\ ~Deleting(s) /\ Ahead(s) # "promote" /\ Ahead(s) # "delete object"
  BY <1>2 DEF Numbering, Naming, Putting, Deleting, BucketSteps
<1>4. s.todo # LastDelete
  BY <1>3, AheadOf
<1>5. ObjectLocal(s, clock)
  BY <1>1, <1>2, <1>3 DEF ObjectLocal, ObjectFields, ObjectTodos, BucketSteps
<1>. QED BY <1>3, <1>4, <1>5, ObjectAsks

LEMMA ObjectAsideBegins ==
  ASSUME ObjectInv, NEW t \in Workers,
         \/ \E b \in Buckets : Store!CreateBucket(t, b) \/ Store!DeleteBucketCount(t, b) \/ Store!PutVersioningRequire(t, b)
         \/ \E p \in Store!Place : \/ Store!DeleteTaggingRequire(t, p)
                                   \/ \E new \in SUBSET Tags : Store!PutTaggingRequire(t, p, new)
  PROVE  ObjectInv'
<1>1. ASSUME NEW b, NEW x \in BucketSteps, Store!Ask(t, Store!OnBucket(b, x)) PROVE ObjectInv'
  <2>. PICK s : s = Store!OnBucket(b, x)
    OBVIOUS
  <2>1. s.todo = <<x>> /\ s.touches = {} /\ {"todo", "touches"} \subseteq DOMAIN s
    BY DEF Store!OnBucket
  <2>. QED BY <1>1, <2>1, ObjectAsksAside
<1>2. ASSUME NEW p, NEW new, Store!Ask(t, Store!OnTags(p, new)) PROVE ObjectInv'
  <2>. PICK s : s = Store!OnTags(p, new)
    OBVIOUS
  <2>1. s.todo = <<"untag">> /\ s.touches = {} /\ {"todo", "touches"} \subseteq DOMAIN s /\ "untag" \in BucketSteps
    BY DEF Store!OnTags, BucketSteps
  <2>. QED BY <1>2, <2>1, ObjectAsksAside
<1>3. "create" \in BucketSteps /\ "drop" \in BucketSteps /\ "versioning" \in BucketSteps
  BY DEF BucketSteps
<1>4. CASE \E b \in Buckets : Store!CreateBucket(t, b) \/ Store!DeleteBucketCount(t, b) \/ Store!PutVersioningRequire(t, b)
  BY <1>1, <1>3, <1>4 DEF Store!CreateBucket, Store!DeleteBucketCount, Store!PutVersioningRequire
<1>5. CASE \E p \in Store!Place : \/ Store!DeleteTaggingRequire(t, p)
                                  \/ \E new \in SUBSET Tags : Store!PutTaggingRequire(t, p, new)
  BY <1>2, <1>5 DEF Store!DeleteTaggingRequire, Store!PutTaggingRequire
<1>. QED BY <1>4, <1>5

(* Requests for an object. *)
LEMMA OnObjectFields ==
  ASSUME NEW p, NEW todo, NEW s, s = Store!OnObject(p, todo)
  PROVE  /\ DOMAIN s = {"todo", "touches", "place", "upload"}
         /\ s.todo = todo /\ s.touches = {p} /\ s.place = p /\ s.upload = NoUpload
  BY DEF Store!OnObject

LEMMA ObjectDeleteBegins ==
  ASSUME ObjectInv, NEW t \in Workers, NEW p \in Store!Place, Store!DeleteRequire(t, p)
  PROVE  ObjectInv'
<1>. PICK s : s = Store!OnObject(p, DeleteTodo)
  OBVIOUS
<1>1. Store!Ask(t, s)
  BY DEF Store!DeleteRequire, DeleteTodo
<1>2. /\ DOMAIN s = {"todo", "touches", "place", "upload"}
      /\ s.todo = DeleteTodo /\ s.touches = {p} /\ s.place = p
  BY OnObjectFields
<1>3. Ahead(s) = "delete object"
  BY <1>2, AheadOf
<1>4. ~Numbering(s) /\ ~Naming(s) /\ ~Putting(s) /\ Ahead(s) # "promote" /\ Ahead(s) \notin BucketSteps
  BY <1>3 DEF Numbering, Naming, Putting, BucketSteps
<1>5. s.todo # LastDelete
  <2>1. Tail(DeleteTodo) # Tail(LastDelete)
    BY ObjectHeads
  <2>. QED BY <1>2, <2>1
<1>6. ObjectLocal(s, clock)
  BY <1>2, <1>3, <1>4 DEF ObjectLocal, ObjectFields, ObjectTodos, Deleting
<1>7. \A u \in Uploads : u \notin s.touches
  BY <1>2, PlacesNoUploads
<1>. QED BY <1>1, <1>4, <1>5, <1>6, <1>7, ObjectAsks

LEMMA ObjectDeleteVersionBegins ==
  ASSUME ObjectInv, NEW t \in Workers, NEW v \in versions, Store!DeleteVersionRequire(t, v)
  PROVE  ObjectInv'
<1>. PICK p, y : p = v.place /\ y = Store!OnObject(p, RemoveTodo)
  OBVIOUS
<1>. PICK s : s = Also(y, [at |-> v.at])
  OBVIOUS
<1>0. Numbers(versions, clock, local) /\ VersionRow(v) /\ v.at <= clock /\ v.at \in Nat /\ p \in Store!Place
  BY DEF ObjectInv, Numbers, VersionRow
<1>1. Store!Ask(t, s)
  BY DEF Store!DeleteVersionRequire, RemoveTodo, Store!Also, Also
<1>2. /\ {"todo", "touches", "place", "upload", "at"} \subseteq DOMAIN s
      /\ s.todo = RemoveTodo /\ s.touches = {p} /\ s.place = p /\ s.at = v.at
  <2>1. /\ DOMAIN y = {"todo", "touches", "place", "upload"}
        /\ y.todo = RemoveTodo /\ y.touches = {p} /\ y.place = p
    BY OnObjectFields
  <2>. QED BY <2>1 DEF Also
<1>3. Ahead(s) = "delete version"
  BY <1>2, AheadOf
<1>4. ~Numbering(s) /\ ~Putting(s) /\ Ahead(s) # "promote" /\ Ahead(s) \notin BucketSteps
  BY <1>3 DEF Numbering, Putting, BucketSteps
<1>5. s.todo # LastDelete
  BY <1>3, AheadOf
<1>6. ObjectLocal(s, clock)
  BY <1>0, <1>2, <1>3, <1>4 DEF ObjectLocal, ObjectFields, ObjectTodos, Deleting
<1>7. \A u \in Uploads : u \notin s.touches
  BY <1>0, <1>2, PlacesNoUploads
<1>8. Naming(s) => \E w \in versions : w.at = s.at /\ w.place = s.place
  BY <1>2
<1>. QED BY <1>1, <1>4, <1>5, <1>6, <1>7, <1>8, ObjectAsks

(* A put on its own, or that of a copy. *)
LEMMA PutLocal ==
  ASSUME NEW s, NEW c \in Nat, {"todo", "touches", "place", "upload", "at", "body"} \subseteq DOMAIN s,
         s.place \in Store!Place, s.touches = {s.place}, s.upload = NoUpload,
         s.todo \in {ToPut(NoUpload), ToClear(NoUpload), ToObject(NoUpload)},
         Numbering(s) => s.at = c
  PROVE  /\ ObjectLocal(s, c) /\ Ahead(s) \in {"put", "clear", "object"} /\ ~Naming(s) /\ s.todo # LastDelete
         /\ s.todo = ToPut(NoUpload) => ~Numbering(s)
         /\ \A u \in Uploads : u \notin s.touches
<1>1. s.todo \in PutTodos(s.upload)
  BY DEF PutTodos
<1>2. Ahead(s) \in {"put", "clear", "object"}
  BY AheadOf
<1>3. s.todo = ToPut(NoUpload) => Ahead(s) = "put"
  BY AheadOf
<1>4. ~Naming(s) /\ Putting(s) /\ ~Deleting(s) /\ Ahead(s) \notin BucketSteps
  BY <1>2 DEF Naming, Putting, Deleting, BucketSteps
<1>5. s.todo # LastDelete
  BY <1>2, AheadOf
<1>6. ObjectFields(s)
  BY <1>1, <1>2, <1>4 DEF ObjectFields
<1>7. ObjectLocal(s, c)
  BY <1>4, <1>6 DEF ObjectLocal
<1>8. \A u \in Uploads : u \notin s.touches
  BY PlacesNoUploads
<1>. QED BY <1>2, <1>3, <1>4, <1>5, <1>7, <1>8 DEF Numbering

LEMMA ObjectCopyBegins ==
  ASSUME ObjectInv, NEW t \in Workers, NEW p \in Store!Place, NEW q \in Store!Place, Store!CopyRead(t, p, q)
  PROVE  ObjectInv'
<1>. PICK b, y : b = objects[p] /\ y = Store!OnObject(q, ToPut(NoUpload))
  OBVIOUS
<1>. PICK s : s = Also(y, [at |-> 0, body |-> b])
  OBVIOUS
<1>1. Store!Ask(t, s)
  BY DEF Store!CopyRead, ToPut, Store!Also, Also
<1>2. /\ {"todo", "touches", "place", "upload", "at", "body"} \subseteq DOMAIN s
      /\ s.todo = ToPut(NoUpload) /\ s.touches = {q} /\ s.place = q /\ s.upload = NoUpload
  <2>1. /\ DOMAIN y = {"todo", "touches", "place", "upload"}
        /\ y.todo = ToPut(NoUpload) /\ y.touches = {q} /\ y.place = q /\ y.upload = NoUpload
    BY OnObjectFields
  <2>. QED BY <2>1 DEF Also
<1>3. clock \in Nat /\ Ahead(s) = "put"
  BY <1>2, AheadOf DEF ObjectInv, Numbers
<1>4. ~Numbering(s) /\ Ahead(s) # "promote"
  BY <1>3 DEF Numbering
<1>5. ObjectLocal(s, clock) /\ ~Naming(s) /\ s.todo # LastDelete /\ \A u \in Uploads : u \notin s.touches
  BY <1>2, <1>3, <1>4, PutLocal
<1>. QED BY <1>1, <1>4, <1>5, ObjectAsks

LEMMA ObjectPutBegins ==
  ASSUME ObjectInv, NEW t \in Workers, NEW p \in Store!Place, Store!PutRequire(t, p)
  PROVE  ObjectInv'
<1>. PICK todo, y, d : todo = Store!PutStatements(p[1]) /\ y = Store!OnObject(p, todo) /\ d = clock + 1
  OBVIOUS
<1>. PICK s : s = Also(y, [at |-> d, body |-> <<d>>])
  OBVIOUS
<1>1. Begins(t, s) /\ clock' = d /\ versions' = versions /\ objects' = objects /\ UploadsAlone
  <2>1. Store!Begin(t, s) /\ clock' = d /\ versions' = versions /\ objects' = objects /\ UploadsAlone
    BY DEF Store!PutRequire, Store!Also, Also, Store!tables, Store!objectTables, Store!uploadTables, UploadsAlone
  <2>. QED BY <2>1, StoreThreads
<1>2. /\ {"todo", "touches", "place", "upload", "at", "body"} \subseteq DOMAIN s
      /\ s.todo = todo /\ s.touches = {p} /\ s.place = p /\ s.upload = NoUpload /\ s.at = d
  <2>1. /\ DOMAIN y = {"todo", "touches", "place", "upload"}
        /\ y.todo = todo /\ y.touches = {p} /\ y.place = p /\ y.upload = NoUpload
    BY OnObjectFields
  <2>. QED BY <2>1 DEF Also
<1>3. clock \in Nat /\ d \in Nat /\ clock <= d /\ d > clock
  BY DEF ObjectInv, Numbers
<1>4. todo \in {ToClear(NoUpload), ToObject(NoUpload)}
  BY DEF Store!PutStatements, ToClear, ToObject
<1>5. /\ ObjectLocal(s, d) /\ ~Naming(s) /\ s.todo # LastDelete /\ Ahead(s) \in {"put", "clear", "object"}
      /\ \A u \in Uploads : u \notin s.touches
  BY <1>2, <1>3, <1>4, PutLocal
<1>6. /\ ObjectLocal(s, clock') /\ clock' \in Nat /\ clock <= clock'
      /\ Numbering(s) => s.at = clock' /\ clock' > clock
  BY <1>1, <1>2, <1>3, <1>5
<1>7. Ahead(s) \notin {"version", "promote"}
  BY <1>5
<1>. QED BY <1>1, <1>5, <1>6, <1>7, ObjectBegins

(* Requests for an upload. *)
LEMMA ObjectCreateUploadBegins ==
  ASSUME ObjectInv, NEW t \in Workers, NEW p \in Store!Place, Store!CreateUploadRequire(t, p)
  PROVE  ObjectInv'
<1>. PICK y : y = Store!OnObject(p, CreateTodo)
  OBVIOUS
<1>. PICK s : s = [y EXCEPT !.touches = {}]
  OBVIOUS
<1>1. Store!Ask(t, s)
  BY DEF Store!CreateUploadRequire, CreateTodo
<1>2. /\ {"todo", "touches", "place", "upload"} \subseteq DOMAIN s
      /\ s.todo = CreateTodo /\ s.touches = {} /\ s.place = p
  <2>1. DOMAIN y = {"todo", "touches", "place", "upload"} /\ y.todo = CreateTodo /\ y.place = p
    BY OnObjectFields
  <2>. QED BY <2>1
<1>3. Ahead(s) = "create upload"
  BY <1>2, AheadOf
<1>4. ~Numbering(s) /\ ~Naming(s) /\ ~Putting(s) /\ ~Deleting(s) /\ Ahead(s) # "promote" /\ Ahead(s) \notin BucketSteps
  BY <1>3 DEF Numbering, Naming, Putting, Deleting, BucketSteps
<1>5. s.todo # LastDelete
  BY <1>3, AheadOf
<1>6. ObjectLocal(s, clock)
  BY <1>2, <1>3, <1>4 DEF ObjectLocal, ObjectFields, ObjectTodos
<1>7. \A u \in Uploads : u \notin s.touches
  BY <1>2
<1>. QED BY <1>1, <1>4, <1>5, <1>6, <1>7, ObjectAsks

(* One for an upload there is. *)
LEMMA UploadLocal ==
  ASSUME ObjectInv, NEW u \in Uploads, uploads[u] # <<>>, NEW s,
         {"todo", "touches", "place", "upload", "at", "list"} \subseteq DOMAIN s, "body" \notin DOMAIN s,
         s.upload = u, s.place = uploads[u], NEW c,
         \/ s.todo = PartTodo /\ s.touches = {u}
         \/ s.todo = SelectTodo /\ s.touches = {u, uploads[u]}
         \/ s.todo = Drops /\ s.touches = {u}
  PROVE  /\ ObjectLocal(s, c) /\ ~Numbering(s) /\ ~Naming(s) /\ s.todo # LastDelete
         /\ Ahead(s) \notin {"version", "promote"}
         /\ \A x \in Uploads : x \in s.touches => uploads[x] # <<>> /\ ~Putting(s) /\ Ahead(s) # "drop upload"
<1>1. uploads[u] \in Store!Place
  BY DEF ObjectInv, UploadsTyped
<1>2. \/ Ahead(s) = "part" /\ s.touches = {u}
      \/ Ahead(s) = "select" /\ s.touches = {u, uploads[u]}
      \/ Ahead(s) = "drop parts" /\ s.touches = {u}
  BY AheadOf
<1>3. ~Numbering(s) /\ ~Naming(s) /\ ~Putting(s) /\ ~Deleting(s) /\ Ahead(s) \notin BucketSteps
  BY <1>2 DEF Numbering, Naming, Putting, Deleting, BucketSteps
<1>4. s.todo # LastDelete /\ Ahead(s) \notin {"version", "promote"}
  BY <1>2, AheadOf
<1>5. s.todo \in ObjectTodos
  BY DEF ObjectTodos
<1>6. u \in s.touches /\ s.touches \subseteq {u} \cup Store!Place /\ \A x \in Uploads : x \in s.touches => x = u
  BY <1>1, <1>2, PlacesNoUploads
<1>7. ObjectLocal(s, c)
  BY <1>1, <1>2, <1>3, <1>5, <1>6 DEF ObjectLocal, ObjectFields
<1>8. \A x \in Uploads : x \in s.touches => uploads[x] # <<>> /\ ~Putting(s) /\ Ahead(s) # "drop upload"
  BY <1>2, <1>3, <1>6
<1>. QED BY <1>3, <1>4, <1>7, <1>8

LEMMA OnUploadFields ==
  ASSUME NEW u, NEW todo, NEW s, s = Store!OnUpload(u, todo)
  PROVE  /\ DOMAIN s = {"todo", "touches", "place", "upload", "at", "list"} /\ "body" \notin DOMAIN s
         /\ s.todo = todo /\ s.touches = {u} /\ s.place = uploads[u] /\ s.upload = u
  BY DEF Store!OnUpload

LEMMA ObjectPartBegins ==
  ASSUME ObjectInv, NEW t \in Workers, NEW u \in Uploads, NEW n, Store!UploadPartRequire(t, u, n)
  PROVE  ObjectInv'
<1>. PICK y, d : y = Store!OnUpload(u, PartTodo) /\ d = clock + 1
  OBVIOUS
<1>. PICK s : s = [y EXCEPT !.at = d, !.list = {n}]
  OBVIOUS
<1>1. Begins(t, s) /\ clock' = d /\ versions' = versions /\ objects' = objects /\ UploadsAlone /\ uploads[u] # <<>>
  <2>1. /\ Store!Begin(t, s) /\ clock' = d /\ versions' = versions /\ objects' = objects /\ UploadsAlone
        /\ uploads[u] # <<>>
    BY DEF Store!UploadPartRequire, PartTodo, Store!tables, Store!objectTables, Store!uploadTables, UploadsAlone
  <2>. QED BY <2>1, StoreThreads
<1>2. /\ {"todo", "touches", "place", "upload", "at", "list"} \subseteq DOMAIN s /\ "body" \notin DOMAIN s
      /\ s.todo = PartTodo /\ s.touches = {u} /\ s.place = uploads[u] /\ s.upload = u
  <2>1. /\ DOMAIN y = {"todo", "touches", "place", "upload", "at", "list"} /\ "body" \notin DOMAIN y
        /\ y.todo = PartTodo /\ y.touches = {u} /\ y.place = uploads[u] /\ y.upload = u
    BY OnUploadFields
  <2>. QED BY <2>1
<1>3. clock \in Nat /\ d \in Nat /\ clock <= d
  BY DEF ObjectInv, Numbers
<1>4. /\ ObjectLocal(s, d) /\ ~Numbering(s) /\ ~Naming(s) /\ s.todo # LastDelete
      /\ Ahead(s) \notin {"version", "promote"}
      /\ \A x \in Uploads : x \in s.touches => uploads[x] # <<>> /\ ~Putting(s) /\ Ahead(s) # "drop upload"
  BY <1>1, <1>2, UploadLocal
<1>5. ObjectLocal(s, clock') /\ clock' \in Nat /\ clock <= clock'
  BY <1>1, <1>3, <1>4
<1>. QED BY <1>1, <1>4, <1>5, ObjectBegins

LEMMA ObjectCompleteBegins ==
  ASSUME ObjectInv, NEW t \in Workers, NEW u \in Uploads, NEW list, Store!CompleteRequire(t, u, list)
  PROVE  ObjectInv'
<1>. PICK y : y = Store!OnUpload(u, SelectTodo)
  OBVIOUS
<1>. PICK s : s = [y EXCEPT !.touches = {u, uploads[u]}, !.list = list]
  OBVIOUS
<1>1. Store!Ask(t, s) /\ uploads[u] # <<>>
  BY DEF Store!CompleteRequire, SelectTodo
<1>2. /\ {"todo", "touches", "place", "upload", "at", "list"} \subseteq DOMAIN s /\ "body" \notin DOMAIN s
      /\ s.todo = SelectTodo /\ s.touches = {u, uploads[u]} /\ s.place = uploads[u] /\ s.upload = u
  <2>1. /\ DOMAIN y = {"todo", "touches", "place", "upload", "at", "list"} /\ "body" \notin DOMAIN y
        /\ y.todo = SelectTodo /\ y.place = uploads[u] /\ y.upload = u
    BY OnUploadFields
  <2>. QED BY <2>1
<1>3. /\ ObjectLocal(s, clock) /\ ~Numbering(s) /\ ~Naming(s) /\ s.todo # LastDelete
      /\ Ahead(s) \notin {"version", "promote"}
      /\ \A x \in Uploads : x \in s.touches => uploads[x] # <<>> /\ ~Putting(s) /\ Ahead(s) # "drop upload"
  BY <1>1, <1>2, UploadLocal
<1>. QED BY <1>1, <1>3, ObjectAsks

LEMMA ObjectAbortBegins ==
  ASSUME ObjectInv, NEW t \in Workers, NEW u \in Uploads, Store!AbortRequire(t, u)
  PROVE  ObjectInv'
<1>. PICK s : s = Store!OnUpload(u, Drops)
  OBVIOUS
<1>1. Store!Ask(t, s) /\ uploads[u] # <<>>
  BY DEF Store!AbortRequire, Drops
<1>2. /\ {"todo", "touches", "place", "upload", "at", "list"} \subseteq DOMAIN s /\ "body" \notin DOMAIN s
      /\ s.todo = Drops /\ s.touches = {u} /\ s.place = uploads[u] /\ s.upload = u
  BY OnUploadFields
<1>3. /\ ObjectLocal(s, clock) /\ ~Numbering(s) /\ ~Naming(s) /\ s.todo # LastDelete
      /\ Ahead(s) \notin {"version", "promote"}
      /\ \A x \in Uploads : x \in s.touches => uploads[x] # <<>> /\ ~Putting(s) /\ Ahead(s) # "drop upload"
  BY <1>1, <1>2, UploadLocal
<1>. QED BY <1>1, <1>3, ObjectAsks

(* Requests break off. *)
LEMMA ObjectBreaks ==
  ASSUME ObjectInv, Breaks, UNCHANGED <<versions, objects, clock>>, UploadsAlone
  PROVE  ObjectInv'
<1>1. /\ ObjectShape /\ Apart /\ Numbers(versions, clock, local) /\ UploadsTyped(uploads, parts, given)
  BY DEF ObjectInv, ObjectShape
<1>2. \A u \in Workers : ObjectLocal(local'[u], clock')
  BY <1>1, ObjectIdle DEF Breaks, ObjectShape
<1>3. ObjectShape'
  BY <1>1, <1>2, BreaksThreads, BreaksApart DEF ObjectShape
<1>4. Numbers(versions', clock', local')
  BY <1>1, NumbersLess
<1>5. Idle.touches = {}
  BY ObjectIdle
<1>6. \A x : x \notin disturbed' =>
         /\ x \notin disturbed
         /\ \A u \in Workers : x \in local'[u].touches => local'[u] = local[u]
         /\ \A u \in Workers : x \in local[u].touches => x \in local'[u].touches
  BY <1>5 DEF Breaks
<1>7. ASSUME NEW p \in Store!Place, p \notin disturbed' PROVE Staged(p, versions', objects', local')
  <2>1. Staged(p, versions, objects, local)
    BY <1>6, <1>7 DEF ObjectInv
  <2>2. /\ \A u \in Workers : p \in local'[u].touches => local'[u] = local[u]
        /\ \A u \in Workers : p \in local[u].touches => p \in local'[u].touches
    BY <1>6, <1>7
  <2>. QED BY <2>1, <2>2 DEF Staged
<1>8. ASSUME NEW u \in Uploads
      PROVE  UploadInv(u, disturbed', issued', uploads', parts', given', completed', local')
  <2>1. UploadInv(u, disturbed, issued, uploads, parts, given, completed, local)
    BY DEF ObjectInv
  <2>2. ASSUME u \in issued, u \notin disturbed' PROVE Carries(u, uploads', parts', given', completed', local')
    <3>1. Carries(u, uploads, parts, given, completed, local)
      BY <1>6, <2>1, <2>2 DEF UploadInv
    <3>2. /\ \A w \in Workers : u \in local'[w].touches => local'[w] = local[w]
          /\ \A w \in Workers : u \in local[w].touches => u \in local'[w].touches
      BY <1>6, <2>2
    <3>. QED BY <3>1, <3>2 DEF Carries, UploadsAlone
  <2>3. ASSUME u \notin issued PROVE Unissued(u, uploads', parts', given', completed', local')
    <3>1. Unissued(u, uploads, parts, given, completed, local)
      BY <2>1, <2>3 DEF UploadInv
    <3>2. \A w \in Workers : u \notin local'[w].touches
      BY <1>5, <3>1 DEF Breaks, Unissued
    <3>. QED BY <3>1, <3>2 DEF Unissued, UploadsAlone
  <2>. QED BY <2>2, <2>3 DEF UploadInv, UploadsAlone
<1>9. UploadsTyped(uploads', parts', given')
  BY <1>1 DEF UploadsAlone
<1>. QED BY <1>3, <1>4, <1>7, <1>8, <1>9 DEF ObjectInv

LEMMA ObjectSteps ==
  ASSUME ObjectInv, NEW t \in Workers,
         Store!BucketStep(t) \/ Store!ObjectStep(t) \/ Store!TagStep(t) \/ Store!UploadStep(t)
  PROVE  ObjectInv'
<1>1. CASE Store!BucketStep(t)
  BY <1>1, ObjectAsideBegins, ObjectAsides DEF Store!BucketStep
<1>2. CASE Store!ObjectStep(t)
  <2>1. CASE \E p \in Store!Place : \/ Store!PutRequire(t, p) \/ Store!DeleteRequire(t, p)
                                    \/ \E q \in Store!Place : Store!CopyRead(t, p, q)
    BY <2>1, ObjectPutBegins, ObjectDeleteBegins, ObjectCopyBegins
  <2>2. CASE \E v \in versions : Store!DeleteVersionRequire(t, v)
    BY <2>2, ObjectDeleteVersionBegins
  <2>3. CASE Store!PutInside(t) \/ Store!PutClear(t) \/ Store!PutVersion(t) \/ Store!PutObject(t)
    BY <2>3, ObjectPutInside, ObjectClear, ObjectVersion, ObjectPut
  <2>4. CASE \/ Store!DeleteObject(t) \/ Store!DeleteVersions(t)
             \/ Store!DeleteVersion(t) \/ Store!DeleteVersionNext(t) \/ Store!DeleteVersionPromote(t)
    BY <2>4, ObjectDelete, ObjectVersionsGo, ObjectVersionGoes, ObjectLooks, ObjectPromote
  <2>. QED BY <1>2, <2>1, <2>2, <2>3, <2>4 DEF Store!ObjectStep
<1>3. CASE Store!TagStep(t)
  BY <1>3, ObjectAsideBegins, ObjectAsides DEF Store!TagStep
<1>4. CASE Store!UploadStep(t)
  <2>1. CASE \E p \in Store!Place : Store!CreateUploadRequire(t, p)
    BY <2>1, ObjectCreateUploadBegins
  <2>2. CASE \E u \in Uploads : \/ \E n \in PartNumbers : Store!UploadPartRequire(t, u, n)
                                \/ \E list \in SUBSET PartNumbers : Store!CompleteRequire(t, u, list)
                                \/ Store!AbortRequire(t, u)
    BY <2>2, ObjectPartBegins, ObjectCompleteBegins, ObjectAbortBegins
  <2>3. CASE \/ Store!CreateUpload(t) \/ Store!UploadPart(t) \/ Store!CompleteSelect(t)
             \/ Store!DropParts(t) \/ Store!DropUpload(t)
    BY <2>3, ObjectCreateUpload, ObjectPart, ObjectSelect, ObjectDropParts, ObjectDropUpload
  <2>. QED BY <1>4, <2>1, <2>2, <2>3 DEF Store!UploadStep
<1>. QED BY <1>1, <1>2, <1>3, <1>4

LEMMA ObjectNext ==
  ASSUME ObjectInv, [Store!Next]_(Store!vars)
  PROVE  ObjectInv'
<1>1. CASE UNCHANGED Store!vars
  <2>1. /\ local' = local /\ disturbed' = disturbed /\ versions' = versions /\ objects' = objects /\ clock' = clock
        /\ uploads' = uploads /\ parts' = parts /\ given' = given /\ issued' = issued /\ completed' = completed
    BY <1>1 DEF Store!vars, Store!requests, Store!s3vars, Store!tables, Store!objectTables, Store!uploadTables
  <2>2. ObjectShape'
    BY <2>1 DEF ObjectInv, ObjectShape, Threads, Apart
  <2>. QED BY <2>1, <2>2 DEF ObjectInv
<1>2. CASE \E t \in Workers : Store!BucketStep(t) \/ Store!ObjectStep(t) \/ Store!TagStep(t) \/ Store!UploadStep(t)
  BY <1>2, ObjectSteps
<1>3. CASE (Store!Crash \/ \E t \in Workers : Store!Fails(t)) /\ UNCHANGED Store!s3vars
  <2>1. Breaks
    BY <1>3, StoreThreads DEF ObjectInv, ObjectShape
  <2>2. UNCHANGED <<versions, objects, clock>> /\ UploadsAlone
    BY <1>3 DEF Store!s3vars, Store!tables, Store!objectTables, Store!uploadTables, UploadsAlone
  <2>. QED BY <2>1, <2>2, ObjectBreaks
<1>. QED BY <1>1, <1>2, <1>3 DEF Store!Next

LEMMA ObjectInit ==
  ASSUME InitRequests, Store!InitTables
  PROVE  ObjectInv
<1>1. \A t \in Workers : local[t] = Idle
  BY DEF InitRequests
<1>2. Idle.touches = {} /\ Ahead(Idle) = "nothing"
  BY ObjectIdle
<1>3. Threads /\ Apart
  BY <1>1, <1>2 DEF InitRequests, Threads, Apart
<1>4. /\ objects = <<>> /\ versions = {} /\ uploads = [u \in Uploads |-> <<>>]
      /\ parts = [u \in Uploads |-> NoParts] /\ given = parts
      /\ issued = {} /\ completed = {} /\ clock = 0
  BY DEF Store!InitTables, NoParts
<1>5. ObjectShape
  BY <1>1, <1>3, ObjectIdle DEF ObjectShape
<1>6. Numbers(versions, clock, local)
  BY <1>1, <1>2, <1>4 DEF Numbers, Numbering, Naming
<1>7. ASSUME NEW p PROVE Staged(p, versions, objects, local)
  <2>1. Of(p, versions) = {}
    BY <1>4 DEF Of
  <2>2. Stage({}, p \in DOMAIN objects, Idle)
    BY <1>2, StageEmpty
  <2>. QED BY <1>1, <1>2, <2>1, <2>2 DEF Staged
<1>8. UploadsTyped(uploads, parts, given)
  BY <1>4 DEF UploadsTyped
<1>9. ASSUME NEW u \in Uploads
      PROVE  UploadInv(u, disturbed, issued, uploads, parts, given, completed, local)
  <2>1. uploads[u] = <<>> /\ parts[u] = NoParts /\ given[u] = NoParts /\ Done(u, completed) = {}
    BY <1>4 DEF Done
  <2>2. \A t \in Workers : u \notin local[t].touches
    BY <1>1, <1>2
  <2>. QED BY <1>4, <2>1, <2>2 DEF UploadInv, Unissued
<1>. QED BY <1>5, <1>6, <1>7, <1>8, <1>9 DEF ObjectInv

LEMMA ObjectShows == ObjectInv => Store!OneLatestVersion
<1> SUFFICES ASSUME ObjectInv, NEW p \in Store!Place, Store!Quiet(p), Store!VersionsOf(p) # {}
             PROVE  /\ {v \in Store!VersionsOf(p) : v.latest} = Store!Newest(Store!VersionsOf(p))
                    /\ p \in DOMAIN objects
  BY DEF Store!OneLatestVersion
<1>1. Store!VersionsOf(p) = Of(p, versions)
  BY DEF Store!VersionsOf, Of
<1>2. p \notin disturbed /\ \A t \in Workers : p \notin local[t].touches
  BY DEF Store!Quiet
<1>3. Stage(Of(p, versions), p \in DOMAIN objects, Idle)
  BY <1>2 DEF ObjectInv, Staged
<1>4. /\ \A v \in Of(p, versions) : v.at \in Nat
      /\ \A v, w \in Of(p, versions) : v.at = w.at => v = w
  BY DEF ObjectInv, Numbers, VersionRow, Of
<1>5. Of(p, versions) # {}
  BY <1>1
<1>6. p \in DOMAIN objects
  BY <1>3, <1>5, ObjectIdle DEF Stage, Unstored
<1>7. {v \in Of(p, versions) : v.latest} = Store!Newest(Of(p, versions))
  BY <1>3, <1>4, <1>5, StageShows
<1>. QED BY <1>1, <1>6, <1>7

LEMMA UploadShows == ObjectInv => Store!MultipartWhole
<1> SUFFICES ASSUME ObjectInv, NEW u \in Uploads \ disturbed
             PROVE  /\ \A c, d \in completed : c.upload = u /\ d.upload = u => c = d
                    /\ \A c \in completed : c.upload = u => c.body = Store!Listed(c.list, given[u])
                    /\ Store!Quiet(u) /\ uploads[u] = <<>> => \A n \in PartNumbers : parts[u][n] = NoPart
  BY DEF Store!MultipartWhole
<1>1. UploadInv(u, disturbed, issued, uploads, parts, given, completed, local)
  BY DEF ObjectInv
<1>2. \A c \in completed : c.upload = u => c \in Done(u, completed)
  BY DEF Done
<1>3. \A n \in PartNumbers : NoParts[n] = NoPart
  BY DEF NoParts
<1>4. CASE u \in issued
  <2>1. Carries(u, uploads, parts, given, completed, local)
    BY <1>1, <1>4 DEF UploadInv
  <2>2. PICK s : Carried(uploads[u], parts[u], given[u], Done(u, completed), s)
    <3>1. CASE \A t \in Workers : u \notin local[t].touches
      BY <2>1, <3>1 DEF Carries
    <3>2. CASE \E t \in Workers : u \in local[t].touches
      BY <2>1, <3>2 DEF Carries
    <3>. QED BY <3>1, <3>2
  <2>3. /\ \A c, d \in Done(u, completed) : c = d
        /\ \A c \in Done(u, completed) : c.body = Store!Listed(c.list, given[u])
    BY <2>2 DEF Carried
  <2>4. ASSUME Store!Quiet(u), uploads[u] = <<>> PROVE parts[u] = NoParts
    <3>1. Carried(uploads[u], parts[u], given[u], Done(u, completed), Idle)
      BY <2>1, <2>4 DEF Carries, Store!Quiet
    <3>. QED BY <2>4, <3>1, ObjectIdle DEF Carried
  <2>. QED BY <1>2, <1>3, <2>3, <2>4
<1>5. CASE u \notin issued
  <2>1. parts[u] = NoParts /\ Done(u, completed) = {}
    BY <1>1, <1>5 DEF UploadInv, Unissued
  <2>. QED BY <1>2, <1>3, <2>1
<1>. QED BY <1>4, <1>5

-----------------------------------------------------------------------------
(* s3.py:113-140 and 254-286: unless requests for an object overlapped or  *)
(* one broke off, one version of it is the latest, it is the newest, and   *)
(* there is an object as long as there is a version of it.                 *)
THEOREM VersionsAreLabelled == Spec => []OneLatestVersion
<1> DEFINE Inv == service = "s3" => ObjectInv
<1>1. Init => Inv
  BY ObjectInit DEF Init
<1>2. Inv /\ [Next]_vars => Inv'
  BY ServiceStep, ObjectNext
<1>3. Inv => OneLatestVersion
  BY ObjectShows DEF OneLatestVersion
<1>. QED BY <1>1, <1>2, <1>3, PTL DEF Spec

(* s3.py:396-450: an upload nobody else works on meanwhile is completed at *)
(* most once, its object is the listed parts in the order of their numbers *)
(* as they were last uploaded, and no parts outlive the upload.            *)
THEOREM UploadsAreWhole == Spec => []MultipartWhole
<1> DEFINE Inv == service = "s3" => ObjectInv
<1>1. Init => Inv
  BY ObjectInit DEF Init
<1>2. Inv /\ [Next]_vars => Inv'
  BY ServiceStep, ObjectNext
<1>3. Inv => MultipartWhole
  BY UploadShows DEF MultipartWhole
<1>. QED BY <1>1, <1>2, <1>3, PTL DEF Spec

-----------------------------------------------------------------------------
(* Secrets Manager: what requests have still to do. *)
SecretTodos ==
    {<<>>, <<"insert", "version">>, <<"insert", "version", "tag">>, <<"version">>, <<"version", "tag">>,
     <<"tag">>, <<"untag">>, <<"select", "version">>, <<"demote", "version">>, <<"mark">>, <<"unmark">>,
     <<"delete versions", "delete tags", "delete">>, <<"delete tags", "delete">>, <<"delete">>}

VersionLabels == (UNION StageSets) \cup {"AWSCURRENT", "AWSPREVIOUS"}

(* Clients ask for any labels but that one. *)
ServiceMovesPrevious == \A stages \in StageSets : "AWSPREVIOUS" \notin stages

Writes(s) == Ahead(s) \in {"insert", "select", "demote", "version"}

(* The fields of a request; b requests have begun. *)
SecretLocal(s, b) ==
    /\ {"todo", "touches"} \subseteq DOMAIN s /\ s.todo \in SecretTodos
    /\ \/ s.touches = {} /\ Ahead(s) \in {"nothing", "tag", "untag"}
       \/ "name" \in DOMAIN s /\ s.name \in Secrets /\ s.touches = {s.name}
    /\ Writes(s) => /\ {"id", "at", "stages"} \subseteq DOMAIN s
                    /\ s.id \in Secret!VersionIds /\ s.at \in Nat /\ s.at <= b
                    /\ s.stages \in SUBSET VersionLabels /\ "AWSPREVIOUS" \notin s.stages
    /\ Ahead(s) \in {"insert", "select", "demote"} => "AWSCURRENT" \in s.stages
    /\ Ahead(s) = "select" => "old" \notin DOMAIN s
    /\ Ahead(s) = "demote" => "old" \in DOMAIN s /\ \A v \in DOMAIN s.old : s.old[v] \in SUBSET VersionLabels

(* R are the versions and C the ids made current of secret n. *)
IsOf(n, R, v) == R[v] # NoVersion /\ R[v].secret = n

Has(n, R, v, label) == IsOf(n, R, v) /\ label \in R[v].stages

PreviousIs(n, R, C, i) ==
    IF i = 0 THEN \A v \in Secret!VersionIds : ~Has(n, R, v, "AWSPREVIOUS")
    ELSE /\ Has(n, R, C[i], "AWSPREVIOUS")
         /\ \A v \in Secret!VersionIds : Has(n, R, v, "AWSPREVIOUS") => v = C[i] \/ R[v].at < R[C[i]].at

Labelled(n, R, C) ==
    /\ Len(C) # 0
    /\ \A v \in Secret!VersionIds : Has(n, R, v, "AWSCURRENT") <=> v = C[Len(C)]
    /\ PreviousIs(n, R, C, Len(C) - 1)
    /\ \A v \in Secret!VersionIds : Has(n, R, v, "AWSPREVIOUS") => R[v].at < R[C[Len(C)]].at

Demoted(n, R, C) ==
    /\ \A v \in Secret!VersionIds : ~Has(n, R, v, "AWSCURRENT")
    /\ PreviousIs(n, R, C, Len(C))

Blank(n, R, C) == C = <<>> /\ \A v \in Secret!VersionIds : ~IsOf(n, R, v)

(* The current version has lost its label and the new one is not there.    *)
Bare(s) ==
    \/ Ahead(s) = "version" /\ "AWSCURRENT" \in s.stages
    \/ Ahead(s) = "demote" /\ DOMAIN s.old = {}

Empties(s) == Ahead(s) \in {"insert", "delete tags", "delete"}

Follows(s) == Ahead(s) \in {"select", "demote", "version"}

(* S is the row of n, and s the request at work on it, if any. *)
SecretStage(n, S, R, C, s) ==
    /\ S = "none" \/ Empties(s) => Blank(n, R, C)
    /\ Ahead(s) = "insert" => S = "none"
    /\ Follows(s) => S # "none" /\ \A v \in Secret!VersionIds : IsOf(n, R, v) => R[v].at < s.at
    /\ Bare(s) => Demoted(n, R, C)
    /\ S # "none" /\ ~Empties(s) /\ ~Bare(s) => Labelled(n, R, C)
    /\ Ahead(s) = "demote" /\ DOMAIN s.old # {} =>
          DOMAIN s.old = {C[Len(C)]} /\ s.old[C[Len(C)]] = R[C[Len(C)]].stages

SecretStaged(n, S, R, C, L) ==
    /\ (\A t \in Workers : n \notin L[t].touches) => SecretStage(n, S, R, C, Idle)
    /\ \A t \in Workers : n \in L[t].touches => SecretStage(n, S, R, C, L[t])

VersionRows == [secret : Secrets, at : Nat, stages : SUBSET VersionLabels]

VersionsTyped(R, b) ==
    /\ R = [v \in Secret!VersionIds |-> R[v]]
    /\ \A v \in Secret!VersionIds : R[v] = NoVersion \/ (R[v] \in VersionRows /\ R[v].at <= b)

SecretShape ==
    /\ Threads /\ Apart /\ begun \in Nat
    /\ \A t \in Workers : SecretLocal(local[t], begun)
    /\ secrets = [n \in Secrets |-> secrets[n]]
    /\ VersionsTyped(secretVersions, begun)
    /\ currents \in [Secrets -> Seq(Secret!VersionIds)]

SecretInv ==
    /\ SecretShape
    /\ \A n \in Secrets \ (disturbed \cup reused) :
          SecretStaged(n, secrets[n], secretVersions, currents[n], local)

LEMMA SecretThreads ==
  /\ \A t, s : Secret!Begin(t, s) => Begins(t, s)
  /\ \A t, s : Secret!Continue(t, s) => Goes(t, s)
  /\ \A t : Secret!Advance(t) => Goes(t, Rest(local[t]))
  /\ \A t : Secret!Ends(t) => Goes(t, Idle)
  /\ Threads /\ (Secret!Crash \/ \E t \in Workers : Secret!Fails(t)) => Breaks
<1>1. /\ \A t, s : Secret!Begin(t, s) => Begins(t, s)
      /\ \A t, s : Secret!Continue(t, s) => Goes(t, s)
  BY DEF Secret!Begin, Begins, Secret!Continue, Goes, Idle, Secret!Idle
<1>2. /\ \A t : Secret!Advance(t) => Goes(t, Rest(local[t]))
      /\ \A t : Secret!Ends(t) => Goes(t, Idle)
  BY <1>1 DEF Secret!Advance, Rest, Secret!Ends, Idle, Secret!Idle
<1>3. ASSUME Threads, NEW S, Secret!BreakOff(S) PROVE Breaks
  <2>1. /\ local' = [u \in Workers |-> IF u \in S THEN Idle ELSE local[u]]
        /\ disturbed' = disturbed \cup UNION {local[u].touches : u \in S} /\ begun' = begun
    BY <1>3 DEF Secret!BreakOff, Idle, Secret!Idle
  <2>2. \A u \in S : local[u].touches \subseteq disturbed'
    BY <2>1
  <2>. QED BY <2>1, <2>2 DEF Breaks
<1>. QED BY <1>1, <1>2, <1>3 DEF Secret!Crash, Secret!Fails

LEMMA ThreeHead ==
  ASSUME NEW x, NEW y, NEW z, NEW d, d = <<x, y, z>>
  PROVE  d # <<>> /\ Head(d) = x
  BY Tails

LEMMA SecretTails ==
  ASSUME NEW d \in SecretTodos
  PROVE  \/ d = <<>>
         \/ d # <<>> /\ Head(d) = "insert" /\ Tail(d) \in {<<"version">>, <<"version", "tag">>}
         \/ d # <<>> /\ Head(d) = "version" /\ Tail(d) \in {<<>>, <<"tag">>}
         \/ d # <<>> /\ Head(d) \in {"tag", "untag", "mark", "unmark", "delete"} /\ Tail(d) = <<>>
         \/ d # <<>> /\ Head(d) \in {"select", "demote"} /\ Tail(d) = <<"version">>
         \/ d # <<>> /\ Head(d) = "delete versions" /\ Tail(d) = <<"delete tags", "delete">>
         \/ d # <<>> /\ Head(d) = "delete tags" /\ Tail(d) = <<"delete">>
<1>1. ASSUME NEW x, d = <<x>> PROVE d # <<>> /\ Head(d) = x /\ Tail(d) = <<>>
  BY <1>1, Tails
<1>2. ASSUME NEW x, NEW y, d = <<x, y>> PROVE d # <<>> /\ Head(d) = x /\ Tail(d) = <<y>>
  BY <1>2, Tails
<1>3. ASSUME NEW x, NEW y, NEW z, d = <<x, y, z>> PROVE d # <<>> /\ Head(d) = x /\ Tail(d) = <<y, z>>
  BY <1>3, Tails
<1>4. CASE d \in {<<"version">>, <<"tag">>, <<"untag">>, <<"mark">>, <<"unmark">>, <<"delete">>}
  BY <1>1, <1>4
<1>5. CASE d \in {<<"insert", "version">>, <<"version", "tag">>, <<"select", "version">>, <<"demote", "version">>,
                  <<"delete tags", "delete">>}
  BY <1>2, <1>5
<1>6. CASE d \in {<<"insert", "version", "tag">>, <<"delete versions", "delete tags", "delete">>}
  BY <1>3, <1>6
<1>. QED BY <1>4, <1>5, <1>6 DEF SecretTodos

(* A statement by its name. *)
LEMMA SecretAheads ==
  /\ Ahead(Idle) = "nothing" /\ Idle.touches = {} /\ Idle.todo = <<>> /\ {"todo", "touches"} \subseteq DOMAIN Idle
  /\ \A s, x, y, z : s.todo \in {<<x>>, <<x, y>>, <<x, y, z>>} => s.todo # <<>> /\ Ahead(s) = x
  /\ \A t, x : Secret!At(t, x) <=> local[t].todo # <<>> /\ Head(local[t].todo) = x
<1>1. Idle.touches = {} /\ Idle.todo = <<>> /\ {"todo", "touches"} \subseteq DOMAIN Idle
  BY DEF Idle
<1>2. ASSUME NEW s, NEW x, NEW y, NEW z, s.todo \in {<<x>>, <<x, y>>, <<x, y, z>>}
      PROVE  s.todo # <<>> /\ Ahead(s) = x
  BY <1>2, Tails DEF Ahead
<1>3. \A t, x : Secret!At(t, x) <=> local[t].todo # <<>> /\ Head(local[t].todo) = x
  BY DEF Secret!At
<1>. QED BY <1>1, <1>2, <1>3 DEF Ahead

LEMMA SecretIdle == ASSUME NEW b PROVE SecretLocal(Idle, b)
  BY SecretAheads DEF SecretLocal, SecretTodos, Writes

LEMMA SecretLater ==
  ASSUME NEW s, NEW b \in Nat, SecretLocal(s, b)
  PROVE  SecretLocal(s, b + 1)
<1>1. Writes(s) => s.at \in Nat /\ s.at <= b
  BY DEF SecretLocal
<1>2. Writes(s) => s.at <= b + 1
  BY <1>1
<1>. QED BY <1>2 DEF SecretLocal

(* What becomes of a request with its first statement. *)
LEMMA SecretAfter ==
  ASSUME NEW s, NEW b, SecretLocal(s, b), s.todo # <<>>, NEW r, r = AfterStep(s),
         Ahead(s) = "select" => FALSE
  PROVE  /\ SecretLocal(r, b)
         /\ \/ r = Idle
            \/ /\ DOMAIN r = DOMAIN s /\ r.touches = s.touches
               /\ \A x \in DOMAIN s : x # "todo" => r[x] = s[x]
         /\ Ahead(s) \in {"insert", "demote"} => Ahead(r) = "version"
         /\ Ahead(s) = "delete versions" => Ahead(r) = "delete tags"
         /\ Ahead(s) = "delete tags" => Ahead(r) = "delete"
         /\ Ahead(s) = "version" => Ahead(r) \in {"nothing", "tag"}
         /\ Ahead(s) \in {"tag", "untag", "mark", "unmark", "delete"} => r = Idle
<1> DEFINE d == Tail(s.todo)
<1>1. s.todo \in SecretTodos /\ Ahead(s) = Head(s.todo)
  BY DEF SecretLocal, Ahead
<1>2. /\ Ahead(s) \in {"insert", "version", "tag", "untag", "demote", "mark", "unmark",
                       "delete versions", "delete tags", "delete"}
      /\ Ahead(s) = "insert" => d \in {<<"version">>, <<"version", "tag">>}
      /\ Ahead(s) = "version" => d \in {<<>>, <<"tag">>}
      /\ Ahead(s) \in {"tag", "untag", "mark", "unmark", "delete"} => d = <<>>
      /\ Ahead(s) = "demote" => d = <<"version">>
      /\ Ahead(s) = "delete versions" => d = <<"delete tags", "delete">>
      /\ Ahead(s) = "delete tags" => d = <<"delete">>
  BY <1>1, SecretTails
<1>3. CASE d = <<>>
  <2>1. r = Idle
    BY <1>3 DEF AfterStep
  <2>2. Ahead(s) \in {"version", "tag", "untag", "mark", "unmark", "delete"}
    BY <1>2, <1>3, Tails
  <2>. QED BY <2>1, <2>2, SecretIdle, SecretAheads
<1>4. CASE d # <<>>
  <2>1. r = Rest(s)
    BY <1>4 DEF AfterStep
  <2>2. "todo" \in DOMAIN s /\ "touches" \in DOMAIN s
    BY DEF SecretLocal
  <2>3. DOMAIN r = DOMAIN s /\ r.todo = d /\ \A x \in DOMAIN s : x # "todo" => r[x] = s[x]
    BY <2>1, <2>2, RestFields
  <2>4. /\ Ahead(s) \in {"insert", "demote"} => Ahead(r) = "version"
        /\ Ahead(s) = "delete versions" => Ahead(r) = "delete tags"
        /\ Ahead(s) = "delete tags" => Ahead(r) = "delete"
        /\ Ahead(s) = "version" => Ahead(r) = "tag"
    <3>1. Ahead(r) = Head(d)
      BY <1>4, <2>3 DEF Ahead
    <3>2. Head(<<"version">>) = "version" /\ Head(<<"tag">>) = "tag" /\ Head(<<"delete">>) = "delete"
      BY Tails
    <3>3. Head(<<"version", "tag">>) = "version"
      BY Tails
    <3>4. Head(<<"delete tags", "delete">>) = "delete tags"
      BY Tails
    <3>. QED BY <1>2, <1>4, <3>1, <3>2, <3>3, <3>4
  <2>5. Ahead(s) \notin {"tag", "untag", "mark", "unmark", "delete"}
    BY <1>2, <1>4
  <2>6. r.todo \in SecretTodos
    BY <1>2, <1>4, <2>3, <2>5 DEF SecretTodos
  <2>7. Ahead(r) \in {"version", "tag", "delete tags", "delete"} /\ (Writes(r) => Writes(s) /\ Ahead(r) = "version")
    BY <1>2, <2>4, <2>5 DEF Writes
  <2>8. r.touches = s.touches /\ ("name" \in DOMAIN s => r.name = s.name)
    BY <2>2, <2>3
  <2>9. Writes(r) => r.id = s.id /\ r.at = s.at /\ r.stages = s.stages
    BY <2>3, <2>7 DEF SecretLocal
  <2>10. SecretLocal(r, b)
    <3>1. Ahead(s) \in {"insert", "version", "demote", "delete versions", "delete tags"}
      BY <1>2, <2>5
    <3>. QED BY <2>2, <2>3, <2>6, <2>7, <2>8, <2>9, <3>1 DEF SecretLocal
  <2>. QED BY <2>3, <2>4, <2>5, <2>8, <2>10
<1>. QED BY <1>3, <1>4

(* The stage of a secret nobody is changing the labels of.                 *)
Kept(n, S, R, C) == IF S = "none" THEN Blank(n, R, C) ELSE Labelled(n, R, C)

LEMMA KeptStage ==
  ASSUME NEW n, NEW S, NEW R, NEW C, NEW s, ~Empties(s), ~Follows(s)
  PROVE  SecretStage(n, S, R, C, s) <=> Kept(n, S, R, C)
  BY DEF SecretStage, Kept, Empties, Follows, Bare

(* Nothing of the secret has changed. *)
SecretSame(n, S, R, C, P, Q, D) ==
    /\ P = S /\ D = C
    /\ \A v \in Secret!VersionIds : IsOf(n, Q, v) <=> IsOf(n, R, v)
    /\ \A v \in Secret!VersionIds : IsOf(n, R, v) => Q[v] = R[v]

LEMMA StageSame ==
  ASSUME NEW n, NEW S, NEW R, NEW C \in Seq(Secret!VersionIds), NEW P, NEW Q, NEW D, NEW s,
         SecretSame(n, S, R, C, P, Q, D), SecretStage(n, S, R, C, s)
  PROVE  SecretStage(n, P, Q, D, s)
<1> DEFINE k == Len(C)
<1>1. /\ P = S /\ D = C /\ k \in Nat
      /\ \A v \in Secret!VersionIds : \A x : Has(n, Q, v, x) <=> Has(n, R, v, x)
      /\ \A v \in Secret!VersionIds : IsOf(n, Q, v) <=> IsOf(n, R, v)
      /\ \A v \in Secret!VersionIds : IsOf(n, R, v) => Q[v] = R[v]
  BY DEF SecretSame, Has
<1>2. k # 0 => C[k] \in Secret!VersionIds
  BY <1>1
<1>3. \A i \in Nat : i # 0 /\ i <= k => C[i] \in Secret!VersionIds
  BY <1>1
<1>4. \A i \in Nat : i <= k /\ PreviousIs(n, R, C, i) => PreviousIs(n, Q, C, i)
  <2> SUFFICES ASSUME NEW i \in Nat, i <= k, PreviousIs(n, R, C, i) PROVE PreviousIs(n, Q, C, i)
    OBVIOUS
  <2>1. CASE i = 0
    BY <1>1, <2>1 DEF PreviousIs
  <2>2. CASE i # 0
    <3>1. C[i] \in Secret!VersionIds
      BY <1>3, <2>2
    <3>2. \A v \in Secret!VersionIds : Has(n, R, v, "AWSPREVIOUS") => Q[v] = R[v]
      BY <1>1 DEF Has
    <3>. QED BY <1>1, <2>2, <3>1, <3>2 DEF PreviousIs
  <2>. QED BY <2>1, <2>2
<1>5. Labelled(n, R, C) => Labelled(n, Q, C) /\ Q[C[k]] = R[C[k]]
  <2> SUFFICES ASSUME Labelled(n, R, C) PROVE Labelled(n, Q, C) /\ Q[C[k]] = R[C[k]]
    OBVIOUS
  <2>1. k - 1 \in Nat /\ k - 1 <= k /\ k # 0
    BY <1>1 DEF Labelled
  <2>2. PreviousIs(n, Q, C, k - 1)
    BY <1>4, <2>1 DEF Labelled
  <2>3. IsOf(n, R, C[k])
    BY <1>2, <2>1 DEF Labelled, Has
  <2>4. Q[C[k]] = R[C[k]]
    BY <1>1, <1>2, <2>1, <2>3
  <2>5. \A v \in Secret!VersionIds : Has(n, R, v, "AWSPREVIOUS") => Q[v] = R[v]
    BY <1>1 DEF Has
  <2>. QED BY <1>1, <2>1, <2>2, <2>4, <2>5 DEF Labelled
<1>6. Demoted(n, R, C) => Demoted(n, Q, C)
  <2>1. k \in Nat /\ k <= k
    BY <1>1
  <2>. QED BY <1>1, <1>4, <2>1 DEF Demoted
<1>7. Blank(n, R, C) => Blank(n, Q, C)
  BY <1>1 DEF Blank
<1>8. Ahead(s) = "demote" /\ DOMAIN s.old # {} => ~Bare(s) /\ ~Empties(s) /\ Follows(s)
  BY DEF Bare, Empties, Follows
<1>9. Follows(s) => \A v \in Secret!VersionIds : IsOf(n, Q, v) => Q[v].at < s.at
  BY <1>1 DEF SecretStage
<1>10. Ahead(s) = "demote" /\ DOMAIN s.old # {} =>
         DOMAIN s.old = {C[k]} /\ s.old[C[k]] = Q[C[k]].stages
  BY <1>5, <1>8 DEF SecretStage
<1>. QED BY <1>1, <1>5, <1>6, <1>7, <1>9, <1>10 DEF SecretStage

LEMMA LastButOne == ASSUME NEW k \in Nat, k # 0, k - 1 # 0 PROVE k - 1 \in 1 .. k
  OBVIOUS

(* The labels, statement by statement. *)
LEMMA LabelsDemote ==
  ASSUME NEW n, NEW R, NEW C \in Seq(Secret!VersionIds), NEW Q, Labelled(n, R, C),
         \A v \in Secret!VersionIds : IF v = C[Len(C)] THEN Has(n, Q, v, "AWSPREVIOUS") /\ ~Has(n, Q, v, "AWSCURRENT")
                                                           /\ Q[v].at = R[v].at
                                      ELSE Q[v] = R[v]
  PROVE  Demoted(n, Q, C)
<1> DEFINE k == Len(C)
<1>1. k # 0 /\ k \in Nat /\ C[k] \in Secret!VersionIds
  BY DEF Labelled
<1>2. \A v \in Secret!VersionIds : v # C[k] => \A x : Has(n, Q, v, x) <=> Has(n, R, v, x)
  BY DEF Has, IsOf
<1>3. \A v \in Secret!VersionIds : ~Has(n, Q, v, "AWSCURRENT")
  BY <1>2 DEF Labelled
<1>4. Has(n, Q, C[k], "AWSPREVIOUS") /\ Q[C[k]].at = R[C[k]].at
  BY <1>1
<1>5. \A v \in Secret!VersionIds : Has(n, Q, v, "AWSPREVIOUS") => v = C[k] \/ Q[v].at < Q[C[k]].at
  BY <1>2, <1>4 DEF Labelled
<1>. QED BY <1>1, <1>3, <1>4, <1>5 DEF Demoted, PreviousIs

LEMMA LabelsInsert ==
  ASSUME NEW n, NEW R, NEW C \in Seq(Secret!VersionIds), NEW Q, Demoted(n, R, C),
         NEW id \in Secret!VersionIds, ~IsOf(n, R, id), Has(n, Q, id, "AWSCURRENT"), ~Has(n, Q, id, "AWSPREVIOUS"),
         \A v \in Secret!VersionIds : v # id => Q[v] = R[v],
         \A v \in Secret!VersionIds : IsOf(n, R, v) => R[v].at < Q[id].at
  PROVE  Labelled(n, Q, Append(C, id))
<1> DEFINE D == Append(C, id)
           k == Len(C)
<1>1. Len(D) = k + 1 /\ k \in Nat /\ D[k + 1] = id /\ \A i \in 1 .. k : D[i] = C[i]
  OBVIOUS
<1>2. k + 1 # 0 /\ (k + 1) - 1 = k
  BY <1>1
<1>3. \A v \in Secret!VersionIds : v # id => \A x : Has(n, Q, v, x) <=> Has(n, R, v, x)
  BY DEF Has, IsOf
<1>4. \A v \in Secret!VersionIds : Has(n, Q, v, "AWSPREVIOUS") => v # id /\ Q[v] = R[v] /\ Has(n, R, v, "AWSPREVIOUS")
  BY <1>3
<1>5. \A v \in Secret!VersionIds : Has(n, Q, v, "AWSPREVIOUS") => Q[v].at < Q[id].at
  BY <1>4 DEF Has
<1>6. \A v \in Secret!VersionIds : Has(n, Q, v, "AWSCURRENT") <=> v = id
  BY <1>3 DEF Demoted
<1>7. PreviousIs(n, Q, D, k)
  <2>1. CASE k = 0
    BY <1>4, <2>1 DEF Demoted, PreviousIs
  <2>2. CASE k # 0
    <3>1. C[k] \in Secret!VersionIds /\ D[k] = C[k]
      BY <1>1, <2>2
    <3>2. /\ Has(n, R, C[k], "AWSPREVIOUS")
          /\ \A v \in Secret!VersionIds : Has(n, R, v, "AWSPREVIOUS") => v = C[k] \/ R[v].at < R[C[k]].at
      BY <2>2 DEF Demoted, PreviousIs
    <3>3. C[k] # id
      BY <3>2 DEF Has
    <3>4. Has(n, Q, C[k], "AWSPREVIOUS") /\ Q[C[k]] = R[C[k]]
      BY <1>3, <3>1, <3>2, <3>3
    <3>5. \A v \in Secret!VersionIds : Has(n, Q, v, "AWSPREVIOUS") => v = C[k] \/ Q[v].at < Q[C[k]].at
      BY <1>4, <3>2, <3>4
    <3>. QED BY <2>2, <3>1, <3>4, <3>5 DEF PreviousIs
  <2>. QED BY <2>1, <2>2
<1>. QED BY <1>1, <1>2, <1>5, <1>6, <1>7 DEF Labelled

LEMMA LabelsBeside ==
  ASSUME NEW n, NEW R, NEW C \in Seq(Secret!VersionIds), NEW Q, Labelled(n, R, C),
         NEW id \in Secret!VersionIds, ~IsOf(n, R, id), ~Has(n, Q, id, "AWSCURRENT"), ~Has(n, Q, id, "AWSPREVIOUS"),
         \A v \in Secret!VersionIds : v # id => Q[v] = R[v]
  PROVE  Labelled(n, Q, C)
<1> DEFINE k == Len(C)
<1>1. k # 0 /\ k \in Nat /\ C[k] \in Secret!VersionIds
  BY DEF Labelled
<1>2. \A v \in Secret!VersionIds : \A x : v # id => (Has(n, Q, v, x) <=> Has(n, R, v, x))
  BY DEF Has, IsOf
<1>3. Has(n, R, C[k], "AWSCURRENT")
  BY <1>1 DEF Labelled
<1>4. C[k] # id /\ Q[C[k]] = R[C[k]]
  BY <1>1, <1>3 DEF Has
<1>5. \A v \in Secret!VersionIds : Has(n, Q, v, "AWSPREVIOUS") => Q[v] = R[v] /\ Has(n, R, v, "AWSPREVIOUS")
  BY <1>2
<1>6. \A v \in Secret!VersionIds : Has(n, Q, v, "AWSCURRENT") <=> v = C[k]
  BY <1>2, <1>3, <1>4, <1>1 DEF Labelled, Has
<1>7. PreviousIs(n, Q, C, k - 1)
  <2>1. PreviousIs(n, R, C, k - 1)
    BY DEF Labelled
  <2>2. CASE k - 1 = 0
    BY <1>5, <2>1, <2>2 DEF PreviousIs
  <2>3. CASE k - 1 # 0
    <3>0. k - 1 \in 1 .. k
      BY <1>1, <2>3, LastButOne
    <3>1. C[k - 1] \in Secret!VersionIds
      BY <3>0
    <3>2. C[k - 1] # id /\ Has(n, R, C[k - 1], "AWSPREVIOUS")
      BY <2>1, <2>3 DEF PreviousIs, Has
    <3>3. Has(n, Q, C[k - 1], "AWSPREVIOUS") /\ Q[C[k - 1]] = R[C[k - 1]]
      BY <1>2, <3>1, <3>2
    <3>. QED BY <1>5, <2>1, <2>3, <3>3 DEF PreviousIs
  <2>. QED BY <2>2, <2>3
<1>. QED BY <1>1, <1>4, <1>5, <1>6, <1>7 DEF Labelled

(* A request begins. *)
LEMMA SecretBegins ==
  ASSUME SecretInv, NEW t \in Workers, NEW s, Begins(t, s), SecretLocal(s, begun + 1),
         UNCHANGED <<secrets, secretVersions, currents, reused>>,
         \A n \in Secrets : /\ n \in s.touches
                            /\ Kept(n, secrets[n], secretVersions, currents[n])
                            => SecretStage(n, secrets[n], secretVersions, currents[n], s)
  PROVE  SecretInv'
<1>1. /\ SecretShape /\ Threads /\ Apart /\ begun \in Nat /\ begun + 1 \in Nat
      /\ \A u \in Workers : SecretLocal(local[u], begun)
      /\ VersionsTyped(secretVersions, begun)
  BY DEF SecretInv, SecretShape
<1>2. /\ Threads' /\ Apart' /\ Only(t, s) /\ local[t] = Idle /\ begun' = begun + 1
      /\ disturbed' = disturbed \cup {row \in s.touches : \E u \in Workers : row \in local[u].touches}
  BY <1>1, BeginsOnly, BeginsApart DEF Begins
<1>3. \A u \in Workers : local'[u] = IF u = t THEN s ELSE local[u]
  BY <1>2 DEF Only
<1>4. \A u \in Workers : SecretLocal(local'[u], begun')
  BY <1>1, <1>2, <1>3, SecretLater
<1>5. VersionsTyped(secretVersions', begun')
  <2>1. \A v \in Secret!VersionIds : secretVersions[v] \in VersionRows /\ secretVersions[v].at <= begun
                                        => secretVersions[v].at <= begun + 1
    BY <1>1 DEF VersionRows
  <2>. QED BY <1>1, <1>2, <2>1 DEF VersionsTyped
<1>6. SecretShape'
  BY <1>1, <1>2, <1>4, <1>5 DEF SecretShape
<1>7. ASSUME NEW n \in Secrets \ (disturbed' \cup reused')
      PROVE  SecretStaged(n, secrets'[n], secretVersions', currents'[n], local')
  <2>1. SecretStaged(n, secrets[n], secretVersions, currents[n], local)
    BY <1>2, <1>7 DEF SecretInv
  <2>2. CASE n \in s.touches
    <3>1. \A u \in Workers : n \notin local[u].touches
      BY <1>2, <1>7, <2>2
    <3>2. Kept(n, secrets[n], secretVersions, currents[n])
      <4>1. SecretStage(n, secrets[n], secretVersions, currents[n], Idle)
        BY <2>1, <3>1 DEF SecretStaged
      <4>2. ~Empties(Idle) /\ ~Follows(Idle)
        BY SecretAheads DEF Empties, Follows
      <4>. QED BY <4>1, <4>2, KeptStage
    <3>3. SecretStage(n, secrets[n], secretVersions, currents[n], s)
      BY <2>2, <3>2
    <3>4. \A u \in Workers : n \in local'[u].touches => u = t
      BY <1>3, <3>1
    <3>5. local'[t] = s
      BY <1>3
    <3>. QED BY <2>2, <3>3, <3>4, <3>5 DEF SecretStaged
  <2>3. CASE n \notin s.touches
    <3>1. \A u \in Workers : n \in local'[u].touches => u # t /\ local'[u] = local[u]
      BY <1>3, <2>3
    <3>2. \A u \in Workers : n \in local[u].touches => n \in local'[u].touches
      BY <1>2, <1>3, SecretAheads
    <3>. QED BY <2>1, <3>1, <3>2 DEF SecretStaged
  <2>. QED BY <2>2, <2>3
<1>. QED BY <1>6, <1>7 DEF SecretInv

(* A request goes on, or ends. *)
LEMMA SecretGoes ==
  ASSUME SecretInv, NEW t \in Workers, NEW q, Goes(t, q), NEW r, r = (IF q.todo = <<>> THEN Idle ELSE q),
         SecretLocal(r, begun), r = Idle \/ r.touches = local[t].touches,
         secrets' = [n \in Secrets |-> secrets'[n]], VersionsTyped(secretVersions', begun),
         currents' \in [Secrets -> Seq(Secret!VersionIds)], reused \subseteq reused',
         \A n \in Secrets \ reused' :
            IF n \notin local[t].touches
            THEN SecretSame(n, secrets[n], secretVersions, currents[n], secrets'[n], secretVersions', currents'[n])
            ELSE SecretStage(n, secrets[n], secretVersions, currents[n], local[t])
                   => SecretStage(n, secrets'[n], secretVersions', currents'[n], r)
  PROVE  SecretInv'
<1>1. /\ SecretShape /\ Threads /\ Apart /\ begun \in Nat
      /\ \A u \in Workers : SecretLocal(local[u], begun)
  BY DEF SecretInv, SecretShape
<1>2. /\ Threads' /\ Only(t, r) /\ disturbed' = disturbed /\ begun' = begun
  BY <1>1, GoesOnly DEF Goes
<1>3. \A u \in Workers : local'[u] = IF u = t THEN r ELSE local[u]
  BY <1>2 DEF Only
<1>4. r.touches \subseteq local[t].touches
  BY SecretAheads
<1>5. Apart'
  BY <1>1, <1>2, <1>3, <1>4 DEF Apart
<1>6. \A u \in Workers : SecretLocal(local'[u], begun')
  BY <1>1, <1>2, <1>3
<1>7. SecretShape'
  BY <1>1, <1>2, <1>5, <1>6 DEF SecretShape
<1>8. ASSUME NEW n \in Secrets \ (disturbed' \cup reused')
      PROVE  SecretStaged(n, secrets'[n], secretVersions', currents'[n], local')
  <2>1. SecretStaged(n, secrets[n], secretVersions, currents[n], local)
    BY <1>2, <1>8 DEF SecretInv
  <2>2. CASE n \in local[t].touches
    <3>1. SecretStage(n, secrets'[n], secretVersions', currents'[n], r)
      BY <1>8, <2>1, <2>2 DEF SecretStaged
    <3>2. \A u \in Workers : u # t => n \notin local[u].touches
      BY <1>1, <1>2, <1>8, <2>2 DEF Apart
    <3>3. \A u \in Workers : n \in local'[u].touches => u = t
      BY <1>3, <3>2
    <3>4. local'[t] = r
      BY <1>3
    <3>5. n \notin r.touches => r = Idle
      BY <2>2
    <3>. QED BY <3>1, <3>3, <3>4, <3>5 DEF SecretStaged
  <2>3. CASE n \notin local[t].touches
    <3>1. SecretSame(n, secrets[n], secretVersions, currents[n], secrets'[n], secretVersions', currents'[n])
      BY <1>8, <2>3
    <3>2. currents[n] \in Seq(Secret!VersionIds)
      BY <1>1 DEF SecretShape
    <3>3. \A u \in Workers : n \in local'[u].touches <=> n \in local[u].touches
      BY <1>3, <1>4, <2>3
    <3>4. \A u \in Workers : n \in local[u].touches => local'[u] = local[u]
      BY <1>3, <2>3
    <3>5. ASSUME \A u \in Workers : n \notin local'[u].touches
          PROVE  SecretStage(n, secrets'[n], secretVersions', currents'[n], Idle)
      <4>1. SecretStage(n, secrets[n], secretVersions, currents[n], Idle)
        BY <2>1, <3>3, <3>5 DEF SecretStaged
      <4>. QED BY <3>1, <3>2, <4>1, StageSame
    <3>6. ASSUME NEW u \in Workers, n \in local'[u].touches
          PROVE  SecretStage(n, secrets'[n], secretVersions', currents'[n], local'[u])
      <4>1. SecretStage(n, secrets[n], secretVersions, currents[n], local[u]) /\ local'[u] = local[u]
        BY <2>1, <3>3, <3>4, <3>6 DEF SecretStaged
      <4>2. SecretStage(n, secrets'[n], secretVersions', currents'[n], local[u])
        BY <3>1, <3>2, <4>1, StageSame
      <4>. QED BY <4>1, <4>2
    <3>. QED BY <3>5, <3>6 DEF SecretStaged
  <2>. QED BY <2>2, <2>3
<1>. QED BY <1>7, <1>8 DEF SecretInv

LEMMA SecretBreaks ==
  ASSUME SecretInv, Breaks, UNCHANGED <<secrets, secretVersions, currents, reused>>
  PROVE  SecretInv'
<1>1. SecretShape /\ Apart
  BY DEF SecretInv, SecretShape
<1>2. \A u \in Workers : SecretLocal(local'[u], begun)
  BY <1>1, SecretIdle DEF Breaks, SecretShape
<1>3. SecretShape'
  BY <1>1, <1>2, BreaksThreads, BreaksApart DEF SecretShape, Breaks
<1>4. \A x : x \notin disturbed' =>
        /\ x \notin disturbed
        /\ \A u \in Workers : x \in local'[u].touches => local'[u] = local[u]
        /\ \A u \in Workers : x \in local[u].touches => x \in local'[u].touches
  BY SecretAheads DEF Breaks
<1>5. ASSUME NEW n \in Secrets \ (disturbed' \cup reused')
      PROVE  SecretStaged(n, secrets'[n], secretVersions', currents'[n], local')
  <2>1. SecretStaged(n, secrets[n], secretVersions, currents[n], local)
    BY <1>4, <1>5 DEF SecretInv
  <2>. QED BY <1>4, <1>5, <2>1 DEF SecretStaged
<1>. QED BY <1>3, <1>5 DEF SecretInv

LEMMA SecretIds == ASSUME begun \in Nat, begun < SecretRequests PROVE begun + 1 \in Secret!VersionIds
  BY SecretAssumption DEF Secret!VersionIds

(* The request s on secret n, that has to do d. *)
Asked(s, n, d) == s.todo = d /\ s.touches = {n} /\ s.name = n /\ {"todo", "touches", "name"} \subseteq DOMAIN s

LEMMA AskedCalm ==
  ASSUME NEW s, NEW n \in Secrets, NEW d \in SecretTodos, Asked(s, n, d), NEW b,
         d # <<>>, Head(d) \in {"mark", "unmark", "delete versions"}
  PROVE  SecretLocal(s, b) /\ ~Empties(s) /\ ~Follows(s)
<1>1. Ahead(s) = Head(d)
  BY DEF Asked, Ahead
<1>. QED BY <1>1 DEF Asked, SecretLocal, Writes, Empties, Follows

LEMMA SecretAsksCalm ==
  ASSUME SecretInv, NEW t \in Workers, NEW s, Secret!Ask(t, s), SecretLocal(s, begun + 1),
         ~Empties(s), ~Follows(s)
  PROVE  SecretInv'
<1>1. Begins(t, s) /\ UNCHANGED <<secrets, secretVersions, currents, reused>>
  BY SecretThreads DEF Secret!Ask, Secret!smvars
<1>. QED BY <1>1, KeptStage, SecretBegins

LEMMA DeleteBegins ==
  ASSUME SecretInv, NEW t \in Workers, NEW n \in Secrets, Secret!DeleteRequire(t, n) \/ Secret!RestoreRequire(t, n)
  PROVE  SecretInv'
<1>1. PICK d \in {<<"delete versions", "delete tags", "delete">>, <<"mark">>, <<"unmark">>} :
        Secret!Ask(t, Secret!On(n, d))
  BY DEF Secret!DeleteRequire, Secret!RestoreRequire
<1>. PICK s : s = Secret!On(n, d)
  OBVIOUS
<1>2. Asked(s, n, d)
  BY DEF Asked, Secret!On
<1>3. d \in SecretTodos /\ d # <<>> /\ Head(d) \in {"mark", "unmark", "delete versions"}
  <2>1. <<"mark">> # <<>> /\ Head(<<"mark">>) = "mark" /\ <<"unmark">> # <<>> /\ Head(<<"unmark">>) = "unmark"
    BY Tails
  <2>2. /\ <<"delete versions", "delete tags", "delete">> # <<>>
        /\ Head(<<"delete versions", "delete tags", "delete">>) = "delete versions"
    BY ThreeHead
  <2>. QED BY <2>1, <2>2 DEF SecretTodos
<1>4. Secret!Ask(t, s)
  BY <1>1
<1>. QED BY <1>2, <1>3, <1>4, AskedCalm, SecretAsksCalm

LEMMA TagBegins ==
  ASSUME SecretInv, NEW t \in Workers, NEW n \in Secrets, NEW g,
         Secret!TagRequire(t, n, g) \/ Secret!UntagRequire(t, n, g)
  PROVE  SecretInv'
<1>1. PICK d \in {<<"tag">>, <<"untag">>} :
        Secret!Ask(t, Also([Secret!On(n, d) EXCEPT !.touches = {}], [tags |-> g]))
  BY DEF Secret!TagRequire, Secret!UntagRequire, Secret!Also, Also
<1>. PICK y : y = [Secret!On(n, d) EXCEPT !.touches = {}]
  OBVIOUS
<1>2. y.todo = d /\ y.touches = {} /\ {"todo", "touches"} \subseteq DOMAIN y
  BY DEF Secret!On
<1>. PICK s : s = Also(y, [tags |-> g])
  OBVIOUS
<1>3. s.todo = d /\ s.touches = {} /\ {"todo", "touches"} \subseteq DOMAIN s
  BY <1>2 DEF Also
<1>4. d \in SecretTodos /\ Ahead(s) \in {"tag", "untag"}
  <2>1. <<"tag">> # <<>> /\ Head(<<"tag">>) = "tag" /\ <<"untag">> # <<>> /\ Head(<<"untag">>) = "untag"
    BY Tails
  <2>. QED BY <1>3, <2>1 DEF SecretTodos, Ahead
<1>5. SecretLocal(s, begun + 1) /\ ~Empties(s) /\ ~Follows(s)
  BY <1>3, <1>4 DEF SecretLocal, Writes, Empties, Follows
<1>6. Secret!Ask(t, s)
  BY <1>1
<1>. QED BY <1>5, <1>6, SecretAsksCalm

(* What a new version is asked with. *)
Given(s, id, at, stages) ==
    /\ {"id", "at", "stages"} \subseteq DOMAIN s /\ s.id = id /\ s.at = at /\ s.stages = stages
    /\ "old" \notin DOMAIN s

LEMMA GivenAlso ==
  ASSUME NEW n, NEW d, NEW id, NEW at, NEW stages, NEW s,
         \/ s = Also(Secret!On(n, d), [id |-> id, at |-> at, stages |-> stages])
         \/ \E g : s = Also(Secret!On(n, d), [id |-> id, at |-> at, stages |-> stages, tags |-> g])
  PROVE  Asked(s, n, d) /\ Given(s, id, at, stages)
<1>. PICK y : y = Secret!On(n, d)
  OBVIOUS
<1>1. y.todo = d /\ y.touches = {n} /\ y.name = n /\ DOMAIN y = {"todo", "touches", "name"}
  BY DEF Secret!On
<1>2. CASE s = Also(y, [id |-> id, at |-> at, stages |-> stages])
  BY <1>1, <1>2 DEF Also, Asked, Given
<1>3. ASSUME NEW g, s = Also(y, [id |-> id, at |-> at, stages |-> stages, tags |-> g])
      PROVE  Asked(s, n, d) /\ Given(s, id, at, stages)
  BY <1>1, <1>3 DEF Also, Asked, Given
<1>. QED BY <1>2, <1>3

LEMMA CreateBegins ==
  ASSUME SecretInv, NEW t \in Workers, NEW n \in Secrets, NEW g, Secret!CreateCheck(t, n, g)
  PROVE  SecretInv'
<1>1. PICK d \in {<<"insert", "version">>, <<"insert", "version", "tag">>} :
        /\ secrets[n] = "none"
        /\ Secret!Ask(t, Also(Secret!On(n, d), [id |-> begun + 1, at |-> begun + 1,
                                                stages |-> {"AWSCURRENT"}, tags |-> g]))
  BY DEF Secret!CreateCheck, Secret!Also, Also
<1>. PICK s : s = Also(Secret!On(n, d), [id |-> begun + 1, at |-> begun + 1, stages |-> {"AWSCURRENT"}, tags |-> g])
  OBVIOUS
<1>2. Asked(s, n, d) /\ Given(s, begun + 1, begun + 1, {"AWSCURRENT"})
  BY GivenAlso
<1>3. Begins(t, s) /\ UNCHANGED <<secrets, secretVersions, currents, reused>> /\ begun < SecretRequests
  BY <1>1, SecretThreads DEF Secret!Ask, Secret!smvars, Secret!Begin
<1>4. begun \in Nat /\ begun + 1 \in Nat /\ begun + 1 <= begun + 1
  BY DEF SecretInv, SecretShape
<1>5. begun + 1 \in Secret!VersionIds
  BY <1>3, <1>4, SecretIds
<1>6. d \in SecretTodos /\ Ahead(s) = "insert"
  <2>1. <<"insert", "version">> # <<>> /\ Head(<<"insert", "version">>) = "insert"
    BY Tails
  <2>2. <<"insert", "version", "tag">> # <<>> /\ Head(<<"insert", "version", "tag">>) = "insert"
    BY Tails
  <2>. QED BY <1>2, <2>1, <2>2 DEF SecretTodos, Ahead, Asked
<1>7. {"AWSCURRENT"} \in SUBSET VersionLabels /\ "AWSPREVIOUS" \notin {"AWSCURRENT"} /\ "AWSCURRENT" \in {"AWSCURRENT"}
  <2>1. "AWSCURRENT" \in VersionLabels
    BY DEF VersionLabels
  <2>. QED BY <2>1
<1>8. SecretLocal(s, begun + 1)
  BY <1>2, <1>4, <1>5, <1>6, <1>7 DEF SecretLocal, Asked, Given, Writes
<1>9. ASSUME NEW m \in Secrets, m \in s.touches, Kept(m, secrets[m], secretVersions, currents[m])
      PROVE  SecretStage(m, secrets[m], secretVersions, currents[m], s)
  <2>1. m = n /\ secrets[m] = "none"
    BY <1>1, <1>2, <1>9 DEF Asked
  <2>2. Blank(m, secretVersions, currents[m])
    BY <1>9, <2>1 DEF Kept
  <2>. QED BY <1>6, <2>1, <2>2 DEF SecretStage, Empties, Follows, Bare
<1>. QED BY <1>3, <1>8, <1>9, SecretBegins

LEMMA PutBegins ==
  ASSUME SecretInv, ServiceMovesPrevious, NEW t \in Workers, NEW n \in Secrets, NEW stages \in StageSets,
         NEW id \in Tokens \cup {begun + 1}, Secret!PutRequire(t, n, id, stages)
  PROVE  SecretInv'
<1> DEFINE d == IF "AWSCURRENT" \in stages THEN <<"select", "version">> ELSE <<"version">>
<1>1. /\ secrets[n] = "live"
      /\ Secret!Ask(t, Also(Secret!On(n, d), [id |-> id, at |-> begun + 1, stages |-> stages]))
  BY DEF Secret!PutRequire, Secret!Also, Also
<1>. PICK s : s = Also(Secret!On(n, d), [id |-> id, at |-> begun + 1, stages |-> stages])
  OBVIOUS
<1>2. Asked(s, n, d) /\ Given(s, id, begun + 1, stages)
  BY GivenAlso
<1>3. Begins(t, s) /\ UNCHANGED <<secrets, secretVersions, currents, reused>> /\ begun < SecretRequests
  BY <1>1, SecretThreads DEF Secret!Ask, Secret!smvars, Secret!Begin
<1>4. begun \in Nat /\ begun + 1 \in Nat /\ begun + 1 <= begun + 1
  BY DEF SecretInv, SecretShape
<1>5. id \in Secret!VersionIds
  BY <1>3, <1>4, SecretIds DEF Secret!VersionIds
<1>6. d \in SecretTodos /\ Ahead(s) = IF "AWSCURRENT" \in stages THEN "select" ELSE "version"
  <2>1. <<"version">> # <<>> /\ Head(<<"version">>) = "version"
    BY Tails
  <2>2. <<"select", "version">> # <<>> /\ Head(<<"select", "version">>) = "select"
    BY Tails
  <2>. QED BY <1>2, <2>1, <2>2 DEF SecretTodos, Ahead, Asked
<1>7. stages \in SUBSET VersionLabels /\ "AWSPREVIOUS" \notin stages
  BY DEF VersionLabels, ServiceMovesPrevious
<1>8. SecretLocal(s, begun + 1)
  BY <1>2, <1>4, <1>5, <1>6, <1>7 DEF SecretLocal, Asked, Given, Writes
<1>9. ASSUME NEW m \in Secrets, m \in s.touches, Kept(m, secrets[m], secretVersions, currents[m])
      PROVE  SecretStage(m, secrets[m], secretVersions, currents[m], s)
  <2>1. m = n /\ secrets[m] = "live"
    BY <1>1, <1>2, <1>9 DEF Asked
  <2>2. Labelled(m, secretVersions, currents[m])
    BY <1>9, <2>1 DEF Kept
  <2>3. \A v \in Secret!VersionIds : IsOf(m, secretVersions, v) => secretVersions[v].at < begun + 1
    <3>1. \A v \in Secret!VersionIds : IsOf(m, secretVersions, v) =>
            secretVersions[v].at \in Nat /\ secretVersions[v].at <= begun
      BY DEF SecretInv, SecretShape, VersionsTyped, VersionRows, IsOf
    <3>. QED BY <1>4, <3>1
  <2>4. s.at = begun + 1 /\ s.stages = stages
    BY <1>2 DEF Given
  <2>5. ~Empties(s) /\ ~Bare(s)
    BY <1>6, <2>4 DEF Empties, Bare
  <2>. QED BY <1>6, <2>1, <2>2, <2>3, <2>4, <2>5 DEF SecretStage
<1>. QED BY <1>3, <1>8, <1>9, SecretBegins

LEMMA SecretAt ==
  ASSUME SecretInv, NEW t \in Workers, NEW x, Secret!At(t, x)
  PROVE  /\ local[t].todo # <<>> /\ Ahead(local[t]) = x /\ SecretLocal(local[t], begun)
         /\ x \notin {"nothing", "tag", "untag"} => local[t].name \in Secrets /\ local[t].touches = {local[t].name}
<1>1. local[t].todo # <<>> /\ Ahead(local[t]) = x
  BY SecretAheads DEF Ahead
<1>2. SecretLocal(local[t], begun)
  BY DEF SecretInv, SecretShape
<1>. QED BY <1>1, <1>2 DEF SecretLocal

LEMMA SameItself ==
  ASSUME NEW n, NEW S, NEW R, NEW C
  PROVE  SecretSame(n, S, R, C, S, R, C)
  BY DEF SecretSame

(* A request that goes on to its next statement. *)
LEMMA SecretAdvances ==
  ASSUME SecretInv, NEW t \in Workers, NEW x, Secret!At(t, x), x # "select", Secret!Advance(t),
         NEW r, r = AfterStep(local[t]),
         secrets' = [n \in Secrets |-> secrets'[n]], VersionsTyped(secretVersions', begun),
         currents' \in [Secrets -> Seq(Secret!VersionIds)], reused \subseteq reused',
         \A n \in Secrets \ reused' :
            IF n \notin local[t].touches
            THEN SecretSame(n, secrets[n], secretVersions, currents[n], secrets'[n], secretVersions', currents'[n])
            ELSE SecretStage(n, secrets[n], secretVersions, currents[n], local[t])
                   => SecretStage(n, secrets'[n], secretVersions', currents'[n], r)
  PROVE  SecretInv'
<1>1. Goes(t, Rest(local[t]))
  BY SecretThreads
<1>2. local[t].todo # <<>> /\ Ahead(local[t]) = x /\ SecretLocal(local[t], begun)
  BY SecretAt
<1>3. r = IF Rest(local[t]).todo = <<>> THEN Idle ELSE Rest(local[t])
  <2>1. Rest(local[t]).todo = Tail(local[t].todo)
    BY <1>2, RestFields DEF SecretLocal
  <2>. QED BY <2>1 DEF AfterStep
<1>4. SecretLocal(r, begun) /\ (r = Idle \/ r.touches = local[t].touches)
  BY <1>2, SecretAfter
<1>. QED BY <1>1, <1>3, <1>4, SecretGoes

SecretTables ==
    /\ secrets = [n \in Secrets |-> secrets[n]] /\ VersionsTyped(secretVersions, begun)
    /\ currents \in [Secrets -> Seq(Secret!VersionIds)]

LEMMA SecretTyped == ASSUME SecretInv PROVE SecretTables
  BY DEF SecretInv, SecretShape, SecretTables

LEMMA TagsGo ==
  ASSUME SecretInv, NEW t \in Workers, Secret!Tag(t) \/ Secret!Untag(t)
  PROVE  SecretInv'
<1>1. PICK x \in {"tag", "untag"} : Secret!At(t, x)
  BY DEF Secret!Tag, Secret!Untag, Secret!Does
<1>2. Secret!Advance(t) /\ UNCHANGED <<secrets, secretVersions, currents, reused>>
  BY DEF Secret!Tag, Secret!Untag, Secret!Does
<1>3. PICK r : r = AfterStep(local[t])
  OBVIOUS
<1>4. r = Idle /\ Ahead(local[t]) = x
  <2>1. local[t].todo # <<>> /\ Ahead(local[t]) = x /\ SecretLocal(local[t], begun)
    BY <1>1, SecretAt
  <2>2. ~(Ahead(local[t]) = "select") /\ Ahead(local[t]) \in {"tag", "untag", "mark", "unmark", "delete"}
    BY <2>1
  <2>3. r = Idle
    BY <1>3, <2>1, <2>2, SecretAfter
  <2>. QED BY <2>1, <2>3
<1>5. ~Empties(r) /\ ~Follows(r) /\ ~Empties(local[t]) /\ ~Follows(local[t])
  BY <1>4, SecretAheads DEF Empties, Follows
<1>6. ASSUME NEW n, SecretStage(n, secrets[n], secretVersions, currents[n], local[t])
      PROVE  SecretStage(n, secrets[n], secretVersions, currents[n], r)
  BY <1>5, <1>6, KeptStage
<1>. QED BY <1>1, <1>2, <1>3, <1>6, SameItself, SecretTyped, SecretAdvances DEF SecretTables

LEMMA MarkGoes ==
  ASSUME SecretInv, NEW t \in Workers, Secret!Mark(t)
  PROVE  SecretInv'
<1>1. PICK x \in {"mark", "unmark"} : Secret!At(t, x)
  BY DEF Secret!Mark
<1> DEFINE s == local[t]
<1>0. secrets = [n \in Secrets |-> secrets[n]]
  BY SecretTyped DEF SecretTables
<1>2. /\ Secret!Advance(t) /\ UNCHANGED <<secretVersions, currents, reused>>
      /\ secrets' = [n \in Secrets |-> secrets'[n]]
      /\ \A n \in Secrets : /\ n # s.name => secrets'[n] = secrets[n]
                            /\ secrets'[n] = "none" <=> secrets[n] = "none"
  BY <1>0 DEF Secret!Mark
<1>3. PICK r : r = AfterStep(s)
  OBVIOUS
<1>4. r = Idle /\ Ahead(s) = x /\ s.touches = {s.name}
  <2>1. s.todo # <<>> /\ Ahead(s) = x /\ SecretLocal(s, begun) /\ s.touches = {s.name}
    BY <1>1, SecretAt
  <2>. QED BY <1>3, <2>1, SecretAfter
<1>5. ~Empties(r) /\ ~Follows(r) /\ ~Empties(s) /\ ~Follows(s)
  BY <1>4, SecretAheads DEF Empties, Follows
<1>6. ASSUME NEW n \in Secrets, SecretStage(n, secrets[n], secretVersions, currents[n], s)
      PROVE  SecretStage(n, secrets'[n], secretVersions, currents[n], r)
  <2>1. Kept(n, secrets[n], secretVersions, currents[n])
    BY <1>5, <1>6, KeptStage
  <2>2. Kept(n, secrets'[n], secretVersions, currents[n])
    BY <1>2, <2>1 DEF Kept
  <2>. QED BY <1>5, <2>2, KeptStage
<1>. QED BY <1>1, <1>2, <1>3, <1>4, <1>6, SameItself, SecretTyped, SecretAdvances DEF SecretTables

LEMMA CreateInsertGoes ==
  ASSUME SecretInv, NEW t \in Workers, Secret!CreateInsert(t)
  PROVE  SecretInv'
<1> DEFINE s == local[t]
<1>0. Secret!At(t, "insert") /\ UNCHANGED <<secretVersions, currents, reused>>
  BY DEF Secret!CreateInsert
<1>1. Ahead(s) = "insert" /\ SecretLocal(s, begun) /\ s.todo # <<>> /\ s.name \in Secrets /\ s.touches = {s.name}
  BY <1>0, SecretAt
<1>2. secrets = [n \in Secrets |-> secrets[n]]
  BY SecretTyped DEF SecretTables
<1>3. CASE secrets[s.name] = "none"
  <2>1. /\ Secret!Advance(t) /\ secrets' = [n \in Secrets |-> secrets'[n]] /\ secrets'[s.name] = "live"
        /\ \A n \in Secrets : n # s.name => secrets'[n] = secrets[n]
    BY <1>1, <1>2, <1>3 DEF Secret!CreateInsert
  <2>2. PICK r : r = AfterStep(s)
    OBVIOUS
  <2>3. Ahead(r) = "version" /\ r # Idle
    BY <1>1, <2>2, SecretAfter, SecretAheads
  <2>4. r.stages = s.stages /\ "AWSCURRENT" \in s.stages
    <3>1. "stages" \in DOMAIN s /\ "AWSCURRENT" \in s.stages
      BY <1>1 DEF SecretLocal, Writes
    <3>2. r = Rest(s) /\ "todo" \in DOMAIN s
      BY <1>1, <2>2, <2>3 DEF AfterStep, SecretLocal
    <3>3. r.stages = s.stages
      BY <3>1, <3>2, RestFields
    <3>. QED BY <3>1, <3>3
  <2>5. ASSUME NEW n, n = s.name, SecretStage(n, secrets[n], secretVersions, currents[n], s)
        PROVE  SecretStage(n, secrets'[n], secretVersions, currents[n], r)
    <3>1. Blank(n, secretVersions, currents[n])
      BY <1>1, <2>5 DEF SecretStage, Empties
    <3>2. Demoted(n, secretVersions, currents[n])
      BY <3>1 DEF Blank, Demoted, PreviousIs, Has
    <3>. QED BY <2>1, <2>3, <2>4, <2>5, <3>1, <3>2 DEF SecretStage, Empties, Follows, Bare, Blank
  <2>. QED BY <1>0, <1>1, <2>1, <2>2, <2>5, SameItself, SecretTyped, SecretAdvances DEF SecretTables
<1>4. CASE secrets[s.name] # "none"
  <2>1. Goes(t, Idle) /\ secrets' = secrets
    BY <1>1, <1>2, <1>4, SecretThreads DEF Secret!CreateInsert
  <2>2. ~SecretStage(s.name, secrets[s.name], secretVersions, currents[s.name], s)
    BY <1>1, <1>4 DEF SecretStage
  <2>3. PICK r : r = Idle
    OBVIOUS
  <2>4. SecretLocal(r, begun) /\ r = IF Idle.todo = <<>> THEN Idle ELSE Idle
    BY <2>3, SecretIdle
  <2>5. \A n \in Secrets \ reused :
          IF n \notin s.touches
          THEN SecretSame(n, secrets[n], secretVersions, currents[n], secrets[n], secretVersions, currents[n])
          ELSE SecretStage(n, secrets[n], secretVersions, currents[n], s)
                 => SecretStage(n, secrets[n], secretVersions, currents[n], r)
    BY <1>1, <2>2, SameItself
  <2>. QED BY <1>0, <2>1, <2>3, <2>4, <2>5, SecretTyped, SecretGoes DEF SecretTables
<1>. QED BY <1>3, <1>4

LEMMA DeleteVersionsGoes ==
  ASSUME SecretInv, NEW t \in Workers, Secret!DeleteVersions(t)
  PROVE  SecretInv'
<1> DEFINE s == local[t]
<1>0. Secret!At(t, "delete versions") /\ Secret!Advance(t) /\ UNCHANGED <<secrets, reused>>
  BY DEF Secret!DeleteVersions, Secret!Does
<1>1. Ahead(s) = "delete versions" /\ SecretLocal(s, begun) /\ s.todo # <<>> /\ s.name \in Secrets /\ s.touches = {s.name}
  <2>1. "delete versions" \notin {"nothing", "tag", "untag"}
    OBVIOUS
  <2>2. Ahead(s) = "delete versions" /\ SecretLocal(s, begun) /\ s.todo # <<>>
    BY <1>0, SecretAt
  <2>3. s.name \in Secrets /\ s.touches = {s.name}
    BY <1>0, <2>1, SecretAt
  <2>. QED BY <2>2, <2>3
<1> DEFINE R == secretVersions
           Q == [v \in Secret!VersionIds |-> IF v \in Secret!VersionsOf(s.name) THEN NoVersion ELSE R[v]]
<1>2. secretVersions' = Q /\ currents' = [currents EXCEPT ![s.name] = <<>>]
  BY DEF Secret!DeleteVersions
<1>3. SecretTables
  BY SecretTyped
<1>4. /\ currents' \in [Secrets -> Seq(Secret!VersionIds)] /\ currents'[s.name] = <<>>
      /\ \A n \in Secrets : n # s.name => currents'[n] = currents[n]
  <2>1. <<>> \in Seq(Secret!VersionIds)
    OBVIOUS
  <2>2. currents \in [Secrets -> Seq(Secret!VersionIds)] /\ s.name \in Secrets
    BY <1>1, <1>3 DEF SecretTables
  <2>. QED BY <1>2, <2>1, <2>2
<1>5. \A v \in Secret!VersionIds : Q[v] = IF IsOf(s.name, R, v) THEN NoVersion ELSE R[v]
  BY DEF Secret!VersionsOf, IsOf
<1>6. VersionsTyped(Q, begun)
  BY <1>3, <1>5 DEF SecretTables, VersionsTyped
<1> HIDE DEF Q
<1>7. PICK r : r = AfterStep(s)
  OBVIOUS
<1>8. Ahead(r) = "delete tags"
  BY <1>1, <1>7, SecretAfter
<1>9. SecretStage(s.name, secrets[s.name], Q, <<>>, r)
  <2>1. Blank(s.name, Q, <<>>)
    BY <1>5 DEF Blank, IsOf
  <2>. QED BY <1>8, <2>1 DEF SecretStage, Empties, Follows, Bare
<1>10. ASSUME NEW n \in Secrets, n # s.name
       PROVE  SecretSame(n, secrets[n], R, currents[n], secrets[n], Q, currents[n])
  BY <1>5, <1>10 DEF SecretSame, IsOf
<1>11. \A n \in Secrets \ reused :
         IF n \notin s.touches
         THEN SecretSame(n, secrets[n], R, currents[n], secrets[n], Q, currents'[n])
         ELSE SecretStage(n, secrets[n], R, currents[n], s) => SecretStage(n, secrets[n], Q, currents'[n], r)
  BY <1>1, <1>4, <1>9, <1>10
<1>12. /\ secrets' = secrets /\ secretVersions' = Q /\ reused' = reused
       /\ secrets' = [n \in Secrets |-> secrets'[n]] /\ VersionsTyped(secretVersions', begun)
  BY <1>0, <1>2, <1>3, <1>6 DEF SecretTables
<1>13. \A n \in Secrets \ reused' :
         IF n \notin s.touches
         THEN SecretSame(n, secrets[n], R, currents[n], secrets'[n], secretVersions', currents'[n])
         ELSE SecretStage(n, secrets[n], R, currents[n], s) => SecretStage(n, secrets'[n], secretVersions', currents'[n], r)
  BY <1>11, <1>12
<1>14. reused \subseteq reused' /\ currents' \in [Secrets -> Seq(Secret!VersionIds)]
  BY <1>4, <1>12
<1>. QED BY <1>0, <1>7, <1>12, <1>13, <1>14, SecretAdvances

LEMMA DeleteGoes ==
  ASSUME SecretInv, NEW t \in Workers, Secret!DeleteTags(t) \/ Secret!Delete(t)
  PROVE  SecretInv'
<1> DEFINE s == local[t]
<1>0. PICK x \in {"delete tags", "delete"} : Secret!At(t, x) /\ (x = "delete tags" => secrets' = secrets)
                                             /\ (x = "delete" => secrets' = [secrets EXCEPT ![s.name] = "none"])
  BY DEF Secret!DeleteTags, Secret!Delete, Secret!Does
<1>1. Secret!Advance(t) /\ UNCHANGED <<secretVersions, currents, reused>>
  BY DEF Secret!DeleteTags, Secret!Delete, Secret!Does
<1>2. Ahead(s) = x /\ SecretLocal(s, begun) /\ s.todo # <<>> /\ s.name \in Secrets /\ s.touches = {s.name}
  BY <1>0, SecretAt
<1>3. SecretTables
  BY SecretTyped
<1>4. /\ secrets' = [n \in Secrets |-> secrets'[n]] /\ (x = "delete" => secrets'[s.name] = "none")
      /\ \A n \in Secrets : n # s.name => secrets'[n] = secrets[n]
  BY <1>0, <1>2, <1>3 DEF SecretTables
<1>5. PICK r : r = AfterStep(s)
  OBVIOUS
<1>6. IF x = "delete" THEN r = Idle ELSE Ahead(r) = "delete"
  BY <1>2, <1>5, SecretAfter
<1>7. ASSUME NEW n, n = s.name, SecretStage(n, secrets[n], secretVersions, currents[n], s)
      PROVE  SecretStage(n, secrets'[n], secretVersions, currents[n], r)
  <2>1. Blank(n, secretVersions, currents[n])
    BY <1>2, <1>7 DEF SecretStage, Empties
  <2>2. CASE x = "delete"
    <3>1. Kept(n, secrets'[n], secretVersions, currents[n])
      BY <1>4, <1>7, <2>1, <2>2 DEF Kept
    <3>2. ~Empties(r) /\ ~Follows(r)
      BY <1>6, <2>2, SecretAheads DEF Empties, Follows
    <3>. QED BY <3>1, <3>2, KeptStage
  <2>3. CASE x # "delete"
    BY <1>6, <2>1, <2>3 DEF SecretStage, Empties, Follows, Bare
  <2>. QED BY <2>2, <2>3
<1>. QED BY <1>0, <1>1, <1>2, <1>3, <1>4, <1>5, <1>7, SameItself, SecretAdvances DEF SecretTables

(* The current version is looked for. *)
SelectsAs(s, d, F, q) == q = Also([s EXCEPT !.todo = d], [old |-> F])

LEMMA SelectFields ==
  ASSUME NEW s, {"todo", "touches"} \subseteq DOMAIN s, "old" \notin DOMAIN s, NEW d, NEW F, NEW q,
         SelectsAs(s, d, F, q)
  PROVE  /\ q.todo = d /\ q.old = F /\ DOMAIN q = DOMAIN s \cup {"old"}
         /\ \A x \in DOMAIN s : x # "todo" => q[x] = s[x]
<1>1. PICK y : y = [s EXCEPT !.todo = d]
  OBVIOUS
<1>2. DOMAIN y = DOMAIN s /\ y.todo = d /\ \A x \in DOMAIN s : x # "todo" => y[x] = s[x]
  BY <1>1
<1>3. PICK z : z = [old |-> F]
  OBVIOUS
<1>4. DOMAIN z = {"old"} /\ z.old = F
  BY <1>3
<1>5. q = Also(y, z)
  BY <1>1, <1>3 DEF SelectsAs
<1>. QED BY <1>2, <1>4, <1>5 DEF Also

LEMMA SelectGoes ==
  ASSUME SecretInv, NEW t \in Workers, Secret!PutSelect(t)
  PROVE  SecretInv'
<1> DEFINE s == local[t]
           n == s.name
           R == secretVersions
           C == currents[n]
           F == [v \in Secret!WithLabel(n, "AWSCURRENT") |-> R[v].stages]
           d == <<"demote", "version">>
<1>1. /\ Secret!At(t, "select") /\ UNCHANGED <<secrets, secretVersions, currents, reused>>
      /\ Secret!Continue(t, Also([s EXCEPT !.todo = d], [old |-> F]))
  BY DEF Secret!PutSelect, Secret!smvars, Secret!Also, Also
<1>2. Ahead(s) = "select" /\ SecretLocal(s, begun) /\ n \in Secrets /\ s.touches = {n}
  <2>1. "select" \notin {"nothing", "tag", "untag"}
    OBVIOUS
  <2>2. Ahead(s) = "select" /\ SecretLocal(s, begun)
    BY <1>1, SecretAt
  <2>3. n \in Secrets /\ s.touches = {n}
    BY <1>1, <2>1, SecretAt
  <2>. QED BY <2>2, <2>3
<1>3. PICK q : q = Also([s EXCEPT !.todo = d], [old |-> F])
  OBVIOUS
<1>4. Goes(t, q)
  BY <1>1, <1>3, SecretThreads
<1>5. /\ {"todo", "touches"} \subseteq DOMAIN s /\ "old" \notin DOMAIN s
      /\ "name" \in DOMAIN s
      /\ {"id", "at", "stages"} \subseteq DOMAIN s
      /\ s.id \in Secret!VersionIds /\ s.at \in Nat /\ s.at <= begun
      /\ s.stages \in SUBSET VersionLabels /\ "AWSPREVIOUS" \notin s.stages /\ "AWSCURRENT" \in s.stages
  BY <1>2 DEF SecretLocal, Writes
<1> HIDE DEF d, F
<1>6. /\ q.todo = d /\ q.old = F /\ DOMAIN q = DOMAIN s \cup {"old"}
      /\ \A x \in DOMAIN s : x # "todo" => q[x] = s[x]
  <2>1. SelectsAs(s, d, F, q)
    BY <1>3 DEF SelectsAs
  <2>. QED BY <1>5, <2>1, SelectFields
<1>7. q.touches = {n} /\ q.name = n /\ q.id = s.id /\ q.at = s.at /\ q.stages = s.stages
  BY <1>2, <1>5, <1>6
<1>8. d # <<>> /\ Head(d) = "demote" /\ d \in SecretTodos
  BY Tails DEF SecretTodos, d
<1>9. Ahead(q) = "demote" /\ q.todo # <<>>
  BY <1>6, <1>8 DEF Ahead
<1>10. \A v : v \in Secret!WithLabel(n, "AWSCURRENT") <=> v \in Secret!VersionIds /\ Has(n, R, v, "AWSCURRENT")
  BY DEF Secret!WithLabel, Secret!VersionsOf, Has, IsOf
<1>11. SecretTables
  BY SecretTyped
<1>12. /\ DOMAIN F = Secret!WithLabel(n, "AWSCURRENT")
       /\ \A v \in DOMAIN F : F[v] = R[v].stages
  BY DEF F
<1>13. \A v \in DOMAIN F : F[v] \in SUBSET VersionLabels
  BY <1>10, <1>11, <1>12 DEF SecretTables, VersionsTyped, VersionRows, Has, IsOf
<1>14. SecretLocal(q, begun)
  BY <1>2, <1>5, <1>6, <1>7, <1>8, <1>9, <1>13 DEF SecretLocal, Writes
<1>15. ASSUME SecretStage(n, secrets[n], R, C, s)
       PROVE  SecretStage(n, secrets[n], R, C, q)
  <2>1. ~Empties(s) /\ ~Bare(s) /\ Follows(s)
    BY <1>2 DEF Empties, Bare, Follows
  <2>2. /\ secrets[n] # "none" /\ Labelled(n, R, C)
        /\ \A v \in Secret!VersionIds : IsOf(n, R, v) => R[v].at < s.at
    BY <1>15, <2>1 DEF SecretStage
  <2>3. C \in Seq(Secret!VersionIds) /\ Len(C) # 0
    BY <1>2, <1>11, <2>2 DEF SecretTables, Labelled
  <2>4. C[Len(C)] \in Secret!VersionIds
    BY <2>3
  <2>5. DOMAIN q.old = {C[Len(C)]}
    BY <1>6, <1>10, <1>12, <2>2, <2>4 DEF Labelled
  <2>6. q.old[C[Len(C)]] = R[C[Len(C)]].stages
    BY <1>6, <1>12, <2>5
  <2>7. ~Empties(q) /\ ~Bare(q)
    BY <1>9, <2>5 DEF Empties, Bare
  <2>. QED BY <1>7, <1>9, <2>2, <2>5, <2>6, <2>7 DEF SecretStage
<1>16. \A m \in Secrets \ reused' :
         IF m \notin s.touches
         THEN SecretSame(m, secrets[m], secretVersions, currents[m], secrets'[m], secretVersions', currents'[m])
         ELSE SecretStage(m, secrets[m], secretVersions, currents[m], s)
                => SecretStage(m, secrets'[m], secretVersions', currents'[m], q)
  BY <1>1, <1>2, <1>15, SameItself
<1>17. q = (IF q.todo = <<>> THEN Idle ELSE q) /\ (q = Idle \/ q.touches = s.touches)
  BY <1>2, <1>7, <1>9
<1>18. /\ secrets' = [m \in Secrets |-> secrets'[m]] /\ VersionsTyped(secretVersions', begun)
       /\ currents' \in [Secrets -> Seq(Secret!VersionIds)] /\ reused \subseteq reused'
  BY <1>1, <1>11 DEF SecretTables
<1>. QED BY <1>4, <1>14, <1>16, <1>17, <1>18, SecretGoes

(* A version is written over with other labels. *)
Relabelled(R, v, new, Q) == Q = IF R[v] = NoVersion THEN R ELSE [R EXCEPT ![v].stages = new]

OthersStay(R, v, new, Q, b) ==
    /\ VersionsTyped(Q, b)
    /\ \A w \in Secret!VersionIds : w # v => Q[w] = R[w]
    /\ \A n : \A w \in Secret!VersionIds : IsOf(n, Q, w) <=> IsOf(n, R, w)
    /\ v \in Secret!VersionIds /\ R[v] # NoVersion => /\ Q[v].stages = new /\ Q[v].at = R[v].at
                                                    /\ Q[v].secret = R[v].secret

LEMMA RelabelledRows ==
  ASSUME NEW R, NEW b, VersionsTyped(R, b), NEW v, NEW new \in SUBSET VersionLabels, NEW Q, Relabelled(R, v, new, Q)
  PROVE  OthersStay(R, v, new, Q, b)
<1>0. NoVersion \notin VersionRows
  BY SecretAssumption DEF VersionRows, VersionLabels
<1>1. R = [w \in Secret!VersionIds |-> R[w]]
  BY DEF VersionsTyped
<1>2. \A w \in Secret!VersionIds : R[w] = NoVersion \/ (R[w] \in VersionRows /\ R[w].at <= b)
  BY DEF VersionsTyped
<1>3. CASE R[v] = NoVersion \/ v \notin Secret!VersionIds
  <2>1. Q = R
    BY <1>1, <1>3 DEF Relabelled
  <2>. QED BY <1>3, <2>1 DEF IsOf, OthersStay
<1>4. CASE R[v] # NoVersion /\ v \in Secret!VersionIds
  <2>1. Q = [R EXCEPT ![v] = [R[v] EXCEPT !.stages = new]]
    BY <1>4 DEF Relabelled
  <2>2. R[v] \in VersionRows /\ R[v].at <= b
    BY <1>2, <1>4
  <2>3. PICK row : row = [R[v] EXCEPT !.stages = new]
    OBVIOUS
  <2>4. row \in VersionRows /\ row.stages = new /\ row.at = R[v].at /\ row.secret = R[v].secret
    BY <2>2, <2>3 DEF VersionRows
  <2>5. Q = [R EXCEPT ![v] = row]
    BY <2>1, <2>3
  <2>6. Q[v] = row /\ Q = [w \in Secret!VersionIds |-> Q[w]] /\ \A w \in Secret!VersionIds : w # v => Q[w] = R[w]
    BY <1>1, <1>4, <2>5
  <2>7. row # NoVersion
    BY <1>0, <2>4
  <2>8. VersionsTyped(Q, b)
    BY <1>2, <2>2, <2>4, <2>6 DEF VersionsTyped
  <2>9. ASSUME NEW n, NEW w \in Secret!VersionIds PROVE IsOf(n, Q, w) <=> IsOf(n, R, w)
    BY <1>4, <2>4, <2>6, <2>7 DEF IsOf
  <2>. QED BY <2>4, <2>6, <2>8, <2>9 DEF OthersStay
<1>. QED BY <1>3, <1>4

LEMMA DemoteGoes ==
  ASSUME SecretInv, NEW t \in Workers, Secret!PutDemote(t)
  PROVE  SecretInv'
<1> DEFINE s == local[t]
           m == s.name
           R == secretVersions
           Q == secretVersions'
<1>1. /\ Secret!At(t, "demote") /\ UNCHANGED <<secrets, currents>>
  BY DEF Secret!PutDemote
<1>2. PICK v \in DOMAIN s.old :
        /\ Relabelled(R, v, (s.old[v] \ {"AWSCURRENT"}) \cup {"AWSPREVIOUS"}, Q)
        /\ reused' = IF R[v] = NoVersion THEN reused ELSE reused \cup ({R[v].secret} \ {m})
        /\ Secret!Continue(t, [s EXCEPT !.old = [w \in DOMAIN s.old \ {v} |-> s.old[w]]])
  BY DEF Secret!PutDemote, Relabelled
<1> DEFINE new == (s.old[v] \ {"AWSCURRENT"}) \cup {"AWSPREVIOUS"}
           G == [w \in DOMAIN s.old \ {v} |-> s.old[w]]
<1>3. Ahead(s) = "demote" /\ SecretLocal(s, begun) /\ m \in Secrets /\ s.touches = {m} /\ s.todo # <<>>
  <2>1. "demote" \notin {"nothing", "tag", "untag"}
    OBVIOUS
  <2>2. Ahead(s) = "demote" /\ SecretLocal(s, begun) /\ s.todo # <<>>
    BY <1>1, SecretAt
  <2>3. m \in Secrets /\ s.touches = {m}
    BY <1>1, <2>1, SecretAt
  <2>. QED BY <2>2, <2>3
<1>4. /\ {"todo", "touches", "name", "id", "at", "stages", "old"} \subseteq DOMAIN s /\ s.todo \in SecretTodos
      /\ s.id \in Secret!VersionIds /\ s.at \in Nat /\ s.at <= begun
      /\ s.stages \in SUBSET VersionLabels /\ "AWSPREVIOUS" \notin s.stages /\ "AWSCURRENT" \in s.stages
      /\ \A w \in DOMAIN s.old : s.old[w] \in SUBSET VersionLabels
  BY <1>3 DEF SecretLocal, Writes
<1>5. new \in SUBSET VersionLabels /\ "AWSPREVIOUS" \in new /\ "AWSCURRENT" \notin new
  <2>1. s.old[v] \in SUBSET VersionLabels /\ "AWSPREVIOUS" \in VersionLabels
    BY <1>4 DEF VersionLabels
  <2>. QED BY <2>1
<1> HIDE DEF new
<1>6. PICK q : q = [s EXCEPT !.old = G]
  OBVIOUS
<1>7. q.old = G /\ DOMAIN q = DOMAIN s /\ \A x \in DOMAIN s : x # "old" => q[x] = s[x]
  BY <1>4, <1>6
<1>8. DOMAIN G = DOMAIN s.old \ {v} /\ \A w \in DOMAIN G : G[w] = s.old[w]
  OBVIOUS
<1>9. Goes(t, q)
  BY <1>2, <1>6, SecretThreads
<1> HIDE DEF G
<1>10. q.todo = s.todo /\ q.touches = s.touches /\ q.name = s.name /\ q.id = s.id /\ q.at = s.at /\ q.stages = s.stages
  BY <1>4, <1>7
<1>11. Ahead(q) = "demote" /\ q.todo # <<>>
  BY <1>3, <1>10 DEF Ahead
<1>12. \A w \in DOMAIN q.old : q.old[w] \in SUBSET VersionLabels
  BY <1>4, <1>7, <1>8
<1>13. SecretLocal(q, begun)
  BY <1>3, <1>4, <1>7, <1>10, <1>11, <1>12 DEF SecretLocal, Writes
<1>14. SecretTables
  BY SecretTyped
<1>15. /\ VersionsTyped(Q, begun)
       /\ \A w \in Secret!VersionIds : w # v => Q[w] = R[w]
       /\ \A n : \A w \in Secret!VersionIds : IsOf(n, Q, w) <=> IsOf(n, R, w)
       /\ v \in Secret!VersionIds /\ R[v] # NoVersion => Q[v].stages = new /\ Q[v].at = R[v].at /\ Q[v].secret = R[v].secret
  <2>1. VersionsTyped(R, begun) /\ Relabelled(R, v, new, Q)
    BY <1>2, <1>14 DEF SecretTables, new
  <2>2. OthersStay(R, v, new, Q, begun)
    BY <1>5, <2>1, RelabelledRows
  <2>. QED BY <2>2 DEF OthersStay
<1>16. ASSUME NEW n \in Secrets \ reused', n # m
       PROVE  SecretSame(n, secrets[n], R, currents[n], secrets[n], Q, currents[n])
  <2>1. R[v] = NoVersion \/ R[v].secret # n
    BY <1>2, <1>16
  <2>2. ~IsOf(n, R, v)
    BY <2>1 DEF IsOf
  <2>. QED BY <1>15, <2>2 DEF SecretSame
<1>17. ASSUME SecretStage(m, secrets[m], R, currents[m], s)
       PROVE  SecretStage(m, secrets[m], Q, currents[m], q)
  <2> DEFINE C == currents[m]
             k == Len(C)
  <2>1. DOMAIN s.old # {}
    OBVIOUS
  <2>2. ~Empties(s) /\ ~Bare(s) /\ Follows(s)
    BY <1>3, <2>1 DEF Empties, Bare, Follows
  <2>3. /\ secrets[m] # "none" /\ Labelled(m, R, C)
        /\ \A w \in Secret!VersionIds : IsOf(m, R, w) => R[w].at < s.at
        /\ DOMAIN s.old = {C[k]} /\ s.old[C[k]] = R[C[k]].stages
    BY <1>3, <1>17, <2>1, <2>2 DEF SecretStage
  <2>4. C \in Seq(Secret!VersionIds) /\ k # 0
    BY <1>3, <1>14, <2>3 DEF SecretTables, Labelled
  <2>5. C[k] \in Secret!VersionIds /\ v = C[k]
    BY <2>3, <2>4
  <2>6. Has(m, R, v, "AWSCURRENT")
    BY <2>3, <2>5 DEF Labelled
  <2>7. Q[v].stages = new /\ Q[v].at = R[v].at /\ IsOf(m, Q, v)
    BY <1>15, <2>5, <2>6 DEF Has, IsOf
  <2>8. \A w \in Secret!VersionIds : IF w = C[k] THEN Has(m, Q, w, "AWSPREVIOUS") /\ ~Has(m, Q, w, "AWSCURRENT")
                                                        /\ Q[w].at = R[w].at
                                     ELSE Q[w] = R[w]
    BY <1>5, <1>15, <2>5, <2>7 DEF Has
  <2>9. Demoted(m, Q, C)
    BY <2>3, <2>4, <2>8, LabelsDemote
  <2>10. DOMAIN q.old = {}
    BY <1>7, <1>8, <2>3, <2>5
  <2>11. Bare(q) /\ ~Empties(q) /\ Follows(q)
    BY <1>11, <2>10 DEF Bare, Empties, Follows
  <2>12. \A w \in Secret!VersionIds : IsOf(m, Q, w) => Q[w].at < q.at
    BY <1>10, <1>15, <2>3, <2>7
  <2>. QED BY <1>11, <2>3, <2>9, <2>10, <2>11, <2>12 DEF SecretStage
<1>18. \A n \in Secrets \ reused' :
         IF n \notin s.touches
         THEN SecretSame(n, secrets[n], secretVersions, currents[n], secrets'[n], secretVersions', currents'[n])
         ELSE SecretStage(n, secrets[n], secretVersions, currents[n], s)
                => SecretStage(n, secrets'[n], secretVersions', currents'[n], q)
  BY <1>1, <1>3, <1>16, <1>17
<1>19. q = (IF q.todo = <<>> THEN Idle ELSE q) /\ (q = Idle \/ q.touches = s.touches)
  BY <1>10, <1>11
<1>20. /\ secrets' = [n \in Secrets |-> secrets'[n]] /\ currents' \in [Secrets -> Seq(Secret!VersionIds)]
       /\ VersionsTyped(secretVersions', begun) /\ reused \subseteq reused'
  BY <1>1, <1>2, <1>14, <1>15 DEF SecretTables
<1>. QED BY <1>9, <1>13, <1>18, <1>19, <1>20, SecretGoes

LEMMA DemotedGoes ==
  ASSUME SecretInv, NEW t \in Workers, Secret!PutDemoted(t)
  PROVE  SecretInv'
<1> DEFINE s == local[t]
           n == s.name
           R == secretVersions
           C == currents[n]
<1>1. /\ Secret!At(t, "demote") /\ DOMAIN s.old = {} /\ Secret!Advance(t)
      /\ UNCHANGED <<secrets, secretVersions, currents, reused>>
  BY DEF Secret!PutDemoted, Secret!smvars
<1>2. Ahead(s) = "demote" /\ SecretLocal(s, begun) /\ n \in Secrets /\ s.touches = {n} /\ s.todo # <<>>
  <2>1. "demote" \notin {"nothing", "tag", "untag"}
    OBVIOUS
  <2>2. Ahead(s) = "demote" /\ SecretLocal(s, begun) /\ s.todo # <<>>
    BY <1>1, SecretAt
  <2>3. n \in Secrets /\ s.touches = {n}
    BY <1>1, <2>1, SecretAt
  <2>. QED BY <2>2, <2>3
<1>3. PICK r : r = AfterStep(s)
  OBVIOUS
<1>4. Ahead(r) = "version"
  BY <1>2, <1>3, SecretAfter
<1>5. r.stages = s.stages /\ r.at = s.at /\ "AWSCURRENT" \in s.stages
  <2>1. {"todo", "at", "stages"} \subseteq DOMAIN s /\ "AWSCURRENT" \in s.stages
    BY <1>2 DEF SecretLocal, Writes
  <2>2. r = Rest(s)
    BY <1>3, <1>4, SecretAheads DEF AfterStep
  <2>. QED BY <2>1, <2>2, RestFields
<1>6. ASSUME SecretStage(n, secrets[n], R, C, s)
      PROVE  SecretStage(n, secrets[n], R, C, r)
  <2>1. Bare(s) /\ Follows(s)
    BY <1>1, <1>2 DEF Bare, Follows
  <2>2. /\ secrets[n] # "none" /\ Demoted(n, R, C)
        /\ \A v \in Secret!VersionIds : IsOf(n, R, v) => R[v].at < s.at
    BY <1>6, <2>1 DEF SecretStage
  <2>. QED BY <1>4, <1>5, <2>2 DEF SecretStage, Empties, Follows, Bare
<1>7. \A m \in Secrets \ reused' :
        IF m \notin s.touches
        THEN SecretSame(m, secrets[m], secretVersions, currents[m], secrets'[m], secretVersions', currents'[m])
        ELSE SecretStage(m, secrets[m], secretVersions, currents[m], s)
               => SecretStage(m, secrets'[m], secretVersions', currents'[m], r)
  BY <1>1, <1>2, <1>6, SameItself
<1>8. /\ secrets' = [m \in Secrets |-> secrets'[m]] /\ VersionsTyped(secretVersions', begun)
      /\ currents' \in [Secrets -> Seq(Secret!VersionIds)] /\ reused \subseteq reused'
  BY <1>1, SecretTyped DEF SecretTables
<1>. QED BY <1>1, <1>3, <1>7, <1>8, SecretAdvances

(* The row of a new version. *)
Inserted(R, id, row, Q) == Q = [R EXCEPT ![id] = row]

LEMMA InsertedRows ==
  ASSUME NEW R, NEW b, VersionsTyped(R, b), NEW id \in Secret!VersionIds, NEW row \in VersionRows, row.at <= b,
         NEW Q, Inserted(R, id, row, Q)
  PROVE  /\ VersionsTyped(Q, b) /\ Q[id] = row /\ row # NoVersion
         /\ \A w \in Secret!VersionIds : w # id => Q[w] = R[w]
<1>1. NoVersion \notin VersionRows
  BY SecretAssumption DEF VersionRows, VersionLabels
<1>2. R = [w \in Secret!VersionIds |-> R[w]]
  BY DEF VersionsTyped
<1>3. Q[id] = row /\ Q = [w \in Secret!VersionIds |-> Q[w]] /\ \A w \in Secret!VersionIds : w # id => Q[w] = R[w]
  BY <1>2 DEF Inserted
<1>4. \A w \in Secret!VersionIds : R[w] = NoVersion \/ (R[w] \in VersionRows /\ R[w].at <= b)
  BY DEF VersionsTyped
<1>. QED BY <1>1, <1>3, <1>4 DEF VersionsTyped

LEMMA VersionGoes ==
  ASSUME SecretInv, NEW t \in Workers, Secret!PutVersion(t)
  PROVE  SecretInv'
<1> DEFINE s == local[t]
           n == s.name
           R == secretVersions
           Q == secretVersions'
           C == currents[n]
<1>0. Secret!At(t, "version") /\ Secret!Advance(t) /\ UNCHANGED secrets
  BY DEF Secret!PutVersion, Secret!Does
<1>1. PICK row : row = [secret |-> n, stages |-> s.stages, at |-> s.at]
  OBVIOUS
<1>2. /\ Q = [R EXCEPT ![s.id] = row]
      /\ currents' = [currents EXCEPT ![n] = IF "AWSCURRENT" \in s.stages THEN Append(C, s.id) ELSE C]
      /\ reused' = IF R[s.id] = NoVersion THEN reused ELSE reused \cup {R[s.id].secret}
  BY <1>1 DEF Secret!PutVersion
<1>3. Ahead(s) = "version" /\ SecretLocal(s, begun) /\ n \in Secrets /\ s.touches = {n} /\ s.todo # <<>>
  <2>1. "version" \notin {"nothing", "tag", "untag"}
    OBVIOUS
  <2>2. Ahead(s) = "version" /\ SecretLocal(s, begun) /\ s.todo # <<>>
    BY <1>0, SecretAt
  <2>3. n \in Secrets /\ s.touches = {n}
    BY <1>0, <2>1, SecretAt
  <2>. QED BY <2>2, <2>3
<1>4. /\ s.id \in Secret!VersionIds /\ s.at \in Nat /\ s.at <= begun
      /\ s.stages \in SUBSET VersionLabels /\ "AWSPREVIOUS" \notin s.stages
  BY <1>3 DEF SecretLocal, Writes
<1>5. PICK r : r = AfterStep(s)
  OBVIOUS
<1>6. ~Empties(r) /\ ~Follows(r)
  <2>1. Ahead(r) \in {"nothing", "tag"}
    BY <1>3, <1>5, SecretAfter
  <2>. QED BY <2>1 DEF Empties, Follows
<1>7. SecretTables
  BY SecretTyped
<1>8. row \in VersionRows /\ row.secret = n /\ row.stages = s.stages /\ row.at = s.at
  BY <1>1, <1>3, <1>4 DEF VersionRows
<1>9. /\ VersionsTyped(Q, begun) /\ Q[s.id] = row /\ row # NoVersion
      /\ \A w \in Secret!VersionIds : w # s.id => Q[w] = R[w]
  <2>1. VersionsTyped(R, begun) /\ row.at <= begun
    BY <1>4, <1>7, <1>8 DEF SecretTables
  <2>2. Inserted(R, s.id, row, Q)
    BY <1>2 DEF Inserted
  <2>. QED BY <1>4, <1>8, <2>1, <2>2, InsertedRows
<1>10. /\ currents' \in [Secrets -> Seq(Secret!VersionIds)]
       /\ currents'[n] = IF "AWSCURRENT" \in s.stages THEN Append(C, s.id) ELSE C
       /\ \A m \in Secrets : m # n => currents'[m] = currents[m]
  <2>1. C \in Seq(Secret!VersionIds) /\ currents \in [Secrets -> Seq(Secret!VersionIds)]
    BY <1>3, <1>7 DEF SecretTables
  <2>2. Append(C, s.id) \in Seq(Secret!VersionIds)
    BY <1>4, <2>1
  <2>. QED BY <1>2, <1>3, <2>1, <2>2
<1>11. \A m : m \notin reused' => ~IsOf(m, R, s.id)
  BY <1>2 DEF IsOf
<1>12. ASSUME NEW m \in Secrets \ reused', m # n
       PROVE  SecretSame(m, secrets[m], R, currents[m], secrets[m], Q, currents'[m])
  <2>1. ~IsOf(m, R, s.id) /\ ~IsOf(m, Q, s.id)
    BY <1>8, <1>9, <1>11, <1>12 DEF IsOf
  <2>2. \A w \in Secret!VersionIds : w # s.id => (IsOf(m, Q, w) <=> IsOf(m, R, w))
    BY <1>9 DEF IsOf
  <2>. QED BY <1>9, <1>10, <1>12, <2>1, <2>2 DEF SecretSame
<1>13. ASSUME n \notin reused', SecretStage(n, secrets[n], R, C, s)
       PROVE  SecretStage(n, secrets[n], Q, currents'[n], r)
  <2>1. ~Empties(s) /\ Follows(s) /\ (Bare(s) <=> "AWSCURRENT" \in s.stages)
    BY <1>3 DEF Empties, Bare, Follows
  <2>2. /\ secrets[n] # "none"
        /\ \A v \in Secret!VersionIds : IsOf(n, R, v) => R[v].at < s.at
        /\ "AWSCURRENT" \in s.stages => Demoted(n, R, C)
        /\ "AWSCURRENT" \notin s.stages => Labelled(n, R, C)
    BY <1>13, <2>1 DEF SecretStage
  <2>3. C \in Seq(Secret!VersionIds) /\ ~IsOf(n, R, s.id) /\ ~Has(n, Q, s.id, "AWSPREVIOUS")
        /\ (Has(n, Q, s.id, "AWSCURRENT") <=> "AWSCURRENT" \in s.stages)
    BY <1>3, <1>4, <1>7, <1>8, <1>9, <1>11, <1>13 DEF SecretTables, Has, IsOf
  <2>4. Labelled(n, Q, currents'[n])
    <3>1. CASE "AWSCURRENT" \in s.stages
      <4>1. \A v \in Secret!VersionIds : IsOf(n, R, v) => R[v].at < Q[s.id].at
        BY <1>8, <1>9, <2>2
      <4>2. Labelled(n, Q, Append(C, s.id))
        BY <1>4, <1>9, <2>2, <2>3, <3>1, <4>1, LabelsInsert
      <4>. QED BY <1>10, <3>1, <4>2
    <3>2. CASE "AWSCURRENT" \notin s.stages
      <4>1. Labelled(n, Q, C)
        BY <1>4, <1>9, <2>2, <2>3, <3>2, LabelsBeside
      <4>. QED BY <1>10, <3>2, <4>1
    <3>. QED BY <3>1, <3>2
  <2>5. Kept(n, secrets[n], Q, currents'[n])
    BY <2>2, <2>4 DEF Kept
  <2>. QED BY <1>6, <2>5, KeptStage
<1>14. \A m \in Secrets \ reused' :
         IF m \notin s.touches
         THEN SecretSame(m, secrets[m], secretVersions, currents[m], secrets'[m], secretVersions', currents'[m])
         ELSE SecretStage(m, secrets[m], secretVersions, currents[m], s)
                => SecretStage(m, secrets'[m], secretVersions', currents'[m], r)
  BY <1>0, <1>3, <1>12, <1>13
<1>15. /\ secrets' = [m \in Secrets |-> secrets'[m]] /\ reused \subseteq reused'
       /\ VersionsTyped(secretVersions', begun) /\ currents' \in [Secrets -> Seq(Secret!VersionIds)]
  BY <1>0, <1>2, <1>7, <1>9, <1>10 DEF SecretTables
<1>. QED BY <1>0, <1>5, <1>14, <1>15, SecretAdvances

LEMMA SecretNext ==
  ASSUME SecretInv, ServiceMovesPrevious, [Secret!Next]_(Secret!vars)
  PROVE  SecretInv'
<1>1. ASSUME NEW t \in Workers, Secret!Serve(t)
      PROVE  SecretInv'
  <2>1. CASE \E n \in Secrets : \/ \E g \in {{}, TagKeys} : Secret!CreateCheck(t, n, g)
                                \/ Secret!DeleteRequire(t, n)
                                \/ Secret!RestoreRequire(t, n)
                                \/ Secret!TagRequire(t, n, TagKeys)
                                \/ Secret!UntagRequire(t, n, TagKeys)
    BY <2>1, CreateBegins, DeleteBegins, TagBegins
  <2>2. CASE \E n \in Secrets : \E id \in Tokens \cup {begun + 1}, stages \in StageSets :
               Secret!PutRequire(t, n, id, stages)
    BY <2>2, PutBegins
  <2>3. CASE Secret!CreateInsert(t) \/ Secret!Tag(t) \/ Secret!Untag(t) \/ Secret!Mark(t)
    BY <2>3, CreateInsertGoes, TagsGo, MarkGoes
  <2>4. CASE Secret!DeleteVersions(t) \/ Secret!DeleteTags(t) \/ Secret!Delete(t)
    BY <2>4, DeleteVersionsGoes, DeleteGoes
  <2>5. CASE Secret!PutSelect(t) \/ Secret!PutDemote(t) \/ Secret!PutDemoted(t) \/ Secret!PutVersion(t)
    BY <2>5, SelectGoes, DemoteGoes, DemotedGoes, VersionGoes
  <2>. QED BY <1>1, <2>1, <2>2, <2>3, <2>4, <2>5 DEF Secret!Serve
<1>2. CASE (Secret!Crash \/ \E t \in Workers : Secret!Fails(t)) /\ UNCHANGED Secret!smvars
  <2>1. Threads
    BY DEF SecretInv, SecretShape
  <2>2. Breaks
    BY <1>2, <2>1, SecretThreads
  <2>. QED BY <1>2, <2>2, SecretBreaks DEF Secret!smvars
<1>3. CASE UNCHANGED Secret!vars
  <2>1. UNCHANGED <<local, begun, disturbed, secrets, secretVersions, currents, reused>>
    BY <1>3 DEF Secret!vars, Secret!requests, Secret!smvars
  <2>2. Breaks
    BY <2>1 DEF SecretInv, SecretShape, Threads, Breaks
  <2>. QED BY <2>1, <2>2, SecretBreaks
<1>. QED BY <1>1, <1>2, <1>3 DEF Secret!Next

LEMMA SecretInit == InitRequests /\ Secret!InitTables => SecretInv
<1> SUFFICES ASSUME InitRequests, Secret!InitTables PROVE SecretInv
  OBVIOUS
<1>1. /\ local = [t \in Workers |-> Idle] /\ begun = 0 /\ disturbed = {}
      /\ secrets = [n \in Secrets |-> "none"]
      /\ secretVersions = [v \in Secret!VersionIds |-> NoVersion]
      /\ currents = [n \in Secrets |-> <<>>] /\ reused = {}
  BY DEF InitRequests, Secret!InitTables
<1>2. \A t \in Workers : local[t] = Idle
  BY <1>1
<1>3. Threads /\ Apart
  BY <1>1, <1>2, SecretAheads DEF Threads, Apart
<1>4. \A t \in Workers : SecretLocal(local[t], begun)
  BY <1>2, SecretIdle
<1>5. SecretShape
  <2>1. <<>> \in Seq(Secret!VersionIds)
    OBVIOUS
  <2>2. VersionsTyped(secretVersions, begun)
    BY <1>1 DEF VersionsTyped
  <2>. QED BY <1>1, <1>3, <1>4, <2>1, <2>2 DEF SecretShape
<1>6. ASSUME NEW n \in Secrets
      PROVE  SecretStaged(n, secrets[n], secretVersions, currents[n], local)
  <2>1. Kept(n, secrets[n], secretVersions, currents[n])
    BY <1>1 DEF Kept, Blank, IsOf
  <2>2. ~Empties(Idle) /\ ~Follows(Idle)
    BY SecretAheads DEF Empties, Follows
  <2>3. SecretStage(n, secrets[n], secretVersions, currents[n], Idle)
    BY <2>1, <2>2, KeptStage
  <2>. QED BY <1>2, <2>3 DEF SecretStaged
<1>. QED BY <1>5, <1>6 DEF SecretInv

(* What the labels of a secret nobody is at work on say. *)
LEMMA LabelsShow ==
  ASSUME NEW n, NEW C \in Seq(Secret!VersionIds), Labelled(n, secretVersions, C), VersionsTyped(secretVersions, begun)
  PROVE  LET k == Len(C)
             old == Secret!WithLabel(n, "AWSPREVIOUS")
         IN  /\ Secret!WithLabel(n, "AWSCURRENT") = {C[k]}
             /\ {v \in old : \A w \in old : secretVersions[w].at <= secretVersions[v].at}
                  = (IF k = 1 THEN {} ELSE {C[k - 1]})
<1> DEFINE R == secretVersions
           k == Len(C)
           old == Secret!WithLabel(n, "AWSPREVIOUS")
<1>1. \A label : \A v : v \in Secret!WithLabel(n, label) <=> v \in Secret!VersionIds /\ Has(n, R, v, label)
  BY DEF Secret!WithLabel, Secret!VersionsOf, Has, IsOf
<1>2. k \in Nat /\ k # 0 /\ C[k] \in Secret!VersionIds
  BY DEF Labelled
<1>3. Secret!WithLabel(n, "AWSCURRENT") = {C[k]}
  BY <1>1, <1>2 DEF Labelled
<1>4. \A v : v \in old <=> v \in Secret!VersionIds /\ Has(n, R, v, "AWSPREVIOUS")
  BY <1>1
<1>5. \A v \in old : R[v].at \in Nat
  BY <1>4 DEF Has, IsOf, VersionsTyped, VersionRows
<1>6. PreviousIs(n, R, C, k - 1)
  BY DEF Labelled
<1>7. CASE k = 1
  <2>1. k - 1 = 0
    BY <1>7
  <2>2. old = {}
    BY <1>4, <1>6, <2>1 DEF PreviousIs
  <2>. QED BY <1>3, <1>7, <2>2
<1>8. CASE k # 1
  <2>0. k \in Nat /\ k # 0 /\ k # 1
    BY <1>2, <1>8
  <2>1. k - 1 # 0 /\ k - 1 \in 1 .. k
    <3> HIDE DEF k
    <3>1. k - 1 # 0
      BY <2>0
    <3>. QED BY <2>0, <3>1, LastButOne
  <2>2. PICK p : p = C[k - 1]
    OBVIOUS
  <2>3. p \in Secret!VersionIds
    BY <2>1, <2>2
  <2>4. p \in old /\ \A v \in old : v = p \/ R[v].at < R[p].at
    BY <1>4, <1>6, <2>1, <2>2, <2>3 DEF PreviousIs
  <2>5. \A v \in old : R[v].at <= R[p].at
    BY <1>5, <2>4
  <2>6. \A v \in old : (\A w \in old : R[w].at <= R[v].at) => v = p
    BY <1>5, <2>4
  <2>7. {v \in old : \A w \in old : R[w].at <= R[v].at} = {p}
    BY <2>4, <2>5, <2>6
  <2>. QED BY <1>3, <1>8, <2>2, <2>7
<1>. QED BY <1>7, <1>8

LEMMA SecretShows == ASSUME SecretInv PROVE Secret!CurrentAndPrevious
<1>1. ASSUME NEW n \in Secrets, Secret!Quiet(n), n \notin reused, secrets[n] # "none"
      PROVE  Labelled(n, secretVersions, currents[n])
  <2>1. SecretStage(n, secrets[n], secretVersions, currents[n], Idle)
    BY <1>1 DEF SecretInv, SecretStaged, Secret!Quiet
  <2>2. ~Empties(Idle) /\ ~Follows(Idle)
    BY SecretAheads DEF Empties, Follows
  <2>. QED BY <1>1, <2>1, <2>2, KeptStage DEF Kept
<1>2. \A n \in Secrets : currents[n] \in Seq(Secret!VersionIds)
  BY DEF SecretInv, SecretShape
<1>3. VersionsTyped(secretVersions, begun)
  BY DEF SecretInv, SecretShape
<1>4. ASSUME NEW n \in Secrets, Labelled(n, secretVersions, currents[n])
      PROVE  LET k == Len(currents[n])
                 old == Secret!WithLabel(n, "AWSPREVIOUS")
             IN  /\ Secret!WithLabel(n, "AWSCURRENT") = {currents[n][k]}
                 /\ {v \in old : \A w \in old : secretVersions[w].at <= secretVersions[v].at}
                      = (IF k = 1 THEN {} ELSE {currents[n][k - 1]})
  BY <1>2, <1>3, <1>4, LabelsShow
<1>. QED BY <1>1, <1>4 DEF Secret!CurrentAndPrevious

(* secretsmanager.py:144-161: where clients leave AWSPREVIOUS to the       *)
(* service, as long as no two requests for a secret overlapped and no      *)
(* token was used twice, the version put last as current is the one        *)
(* labelled so, and the one before it the newest labelled AWSPREVIOUS.     *)
THEOREM LabelsFollow == ServiceMovesPrevious => (Spec => []CurrentAndPrevious)
<1> SUFFICES ASSUME ServiceMovesPrevious PROVE Spec => []CurrentAndPrevious
  OBVIOUS
<1> DEFINE Inv == service = "secretsmanager" => SecretInv
<1>1. Init => Inv
  BY SecretInit DEF Init
<1>2. Inv /\ [Next]_vars => Inv'
  BY ServiceStep, SecretNext
<1>3. Inv => CurrentAndPrevious
  BY SecretShows DEF CurrentAndPrevious
<1>. QED BY <1>1, <1>2, <1>3, PTL DEF Spec
=============================================================================
