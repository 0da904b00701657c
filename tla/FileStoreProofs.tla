-------------------------- MODULE FileStoreProofs ---------------------------
(***************************************************************************)
(* The file store of a node, for any number of callers and of files, any   *)
(* contents, and any interleaving of the server's threads with each other  *)
(* and with the ends and the starts of the process: versions count writes, *)
(* an acknowledged write is read, and callers are told what happened.      *)
(*                                                                         *)
(* The argument, in three parts.                                           *)
(*   A file is the same after it was written and read, over the wire and   *)
(*   through the disk, but for a content that was not marked (FileArrives, *)
(*   FileKept); so is an outcome, from handler to caller (AnswerTold).     *)
(*   A call is in one place: nowhere, on its way, served, answered or lost *)
(*   (Phase), and wherever it is, what is said there is an answer to what  *)
(*   was asked (IsCall, Serves, Handled, Told).                            *)
(*   A thread between lock and unlock has the mutex, so no other changes   *)
(*   the file that it reads or replaces: a file is whole and has the last  *)
(*   version, or the thread with the mutex is writing it (DiskInv), and    *)
(*   the versions that callers know of are behind its writes (Behind).     *)
(***************************************************************************)
EXTENDS FileStore, TLAPS

-----------------------------------------------------------------------------
(* The files, from the caller to the disk and back                         *)

MetaFields == {"filename", "version", "owner", "contentHash"}

\* An RFileMetadata and an RFile by their fields.
Meta(filename, version, owner, contentHash, isset) ==
  Obj([filename |-> filename, version |-> version, owner |-> owner,
       contentHash |-> contentHash], isset)

File(meta, content, isset) == Obj([meta |-> meta, content |-> content], isset)

\* __isset marks a field.
Mark(isset, f) == isset \cup {f}

\* content = x, without a mark.
Assign(file, x) == [file EXCEPT !.v.content = x]

\* A field that is not marked must have its initial value to arrive.
Sendable(filename, version, owner, contentHash, isset) ==
  /\ isset \subseteq MetaFields
  /\ "filename" \in isset \/ filename = <<>>
  /\ "version" \in isset \/ version = 0
  /\ "owner" \in isset \/ owner = <<>>
  /\ "contentHash" \in isset \/ contentHash = <<>>

\* The fields of an RFile that are marked.
FileFields(marked) == IF marked THEN {"meta", "content"} ELSE {"meta"}

\* The contents that are stored: those given, and that of a file without one.
AllContents == Contents \cup {""}

\* A file as writeFile is given it, under the id i: what arrives of a GivenFile
\* are its marked fields.
IsGiven(o, i) ==
  \E name \in Names, content \in AllContents, marked \in BOOLEAN :
    /\ marked \/ content = ""
    /\ FileId(name[1], name[2]) = i
    /\ o = File(Meta(name[1], 0, name[2], <<>>, {"filename", "owner"}), content,
                FileFields(marked))

\* A file as the store keeps it: version v of the file i, with its hash.
IsFile(o, i, v) ==
  \E name \in Names, content \in AllContents, marked \in BOOLEAN :
    /\ marked \/ content = ""
    /\ FileId(name[1], name[2]) = i
    /\ o = File(Meta(name[1], v, name[2], Hash(content), MetaFields), content,
                FileFields(marked))

\* How the fields of arguments and results are written and read.
LEMMA AsTypes ==
  ASSUME NEW x
  PROVE  /\ WriteAs("RFile", x) = RFile_write(x)
         /\ WriteAs("NodeID", x) = NodeID_write(x)
         /\ WriteAs("SystemException", x) = SystemException_write(x)
         /\ WriteAs("string", x) = x
         /\ ReadAs("RFile", x) = RFile_read(RFile0, x)
         /\ ReadAs("NodeID", x) = NodeID_read(NodeID0, x)
         /\ ReadAs("SystemException", x) = SystemException_read(SystemException0, x)
         /\ ReadAs("string", x) = x
  BY ZenonT(30) DEF WriteAs, ReadAs

\* The fields of the two classes.
LEMMA MetaHas ==
  ASSUME NEW a, NEW b, NEW c, NEW d, NEW s
  PROVE  /\ DOMAIN Meta(a, b, c, d, s).v = MetaFields
         /\ Meta(a, b, c, d, s).v.filename = a
         /\ Meta(a, b, c, d, s).v.version = b
         /\ Meta(a, b, c, d, s).v.owner = c
         /\ Meta(a, b, c, d, s).v.contentHash = d
         /\ Meta(a, b, c, d, s).isset = s
  BY DEF Meta, Obj, MetaFields

LEMMA FileHas ==
  ASSUME NEW m, NEW x, NEW s
  PROVE  /\ DOMAIN File(m, x, s).v = {"meta", "content"}
         /\ File(m, x, s).v.meta = m
         /\ File(m, x, s).v.content = x
         /\ File(m, x, s).isset = s
  BY DEF File, Obj

\* The constructors.
LEMMA Constructed ==
  /\ RFileMetadata0 = Meta(<<>>, 0, <<>>, <<>>, {})
  /\ RFile0 = File(RFileMetadata0, "", {})
  /\ DOMAIN RFileMetadata0.v = MetaFields /\ RFileMetadata0.isset = {}
  /\ RFileMetadata0.v.filename = <<>> /\ RFileMetadata0.v.version = 0
  /\ RFileMetadata0.v.owner = <<>> /\ RFileMetadata0.v.contentHash = <<>>
  /\ DOMAIN RFile0.v = {"meta", "content"} /\ RFile0.isset = {}
  /\ RFile0.v.meta = RFileMetadata0 /\ RFile0.v.content = ""
  <1>1. /\ RFileMetadata0 = Meta(<<>>, 0, <<>>, <<>>, {})
        /\ RFile0 = File(RFileMetadata0, "", {})
    BY DEF RFileMetadata0, Meta, RFile0, File
  <1>2. /\ DOMAIN RFileMetadata0.v = MetaFields /\ RFileMetadata0.isset = {}
        /\ RFileMetadata0.v.filename = <<>> /\ RFileMetadata0.v.version = 0
        /\ RFileMetadata0.v.owner = <<>> /\ RFileMetadata0.v.contentHash = <<>>
    BY DEF RFileMetadata0, Obj, MetaFields
  <1>4. /\ DOMAIN RFile0.v = {"meta", "content"} /\ RFile0.isset = {}
        /\ RFile0.v.meta = RFileMetadata0 /\ RFile0.v.content = ""
    <2> DEFINE empty == ""
               none == {}
    <2>1. RFile0 = File(RFileMetadata0, empty, none)
      BY <1>1
    <2> HIDE DEF empty, none
    <2>2. /\ DOMAIN RFile0.v = {"meta", "content"} /\ RFile0.isset = none
          /\ RFile0.v.meta = RFileMetadata0 /\ RFile0.v.content = empty
      BY <2>1, FileHas
    <2> QED  BY <2>2 DEF empty, none
  <1> QED  BY <1>1, <1>2, <1>4

\* A record is known by its fields.
LEMMA FileByFields ==
  ASSUME NEW r, NEW s, DOMAIN r = {"meta", "content"}, r = [f \in DOMAIN r |-> r[f]]
  PROVE  Obj(r, s) = File(r.meta, r.content, s)
  <1>1. r = [meta |-> r.meta, content |-> r.content]
    OBVIOUS
  <1> QED  BY <1>1 DEF File

LEMMA MetaByFields ==
  ASSUME NEW r, NEW s, DOMAIN r = MetaFields, r = [f \in DOMAIN r |-> r[f]]
  PROVE  Obj(r, s) = Meta(r.filename, r.version, r.owner, r.contentHash, s)
  <1>1. r = [filename |-> r.filename, version |-> r.version, owner |-> r.owner,
             contentHash |-> r.contentHash]
    BY DEF MetaFields
  <1> QED  BY <1>1 DEF Meta

\* __set_meta, __set_content, and an assignment to content.
LEMMA SetFile ==
  ASSUME NEW m, NEW x, NEW y, NEW s
  PROVE  /\ RFile_set(File(m, x, s), "meta", y) = File(y, x, Mark(s, "meta"))
         /\ RFile_set(File(m, x, s), "content", y) = File(m, y, Mark(s, "content"))
         /\ Assign(File(m, x, s), y) = File(m, y, s)
  <1> DEFINE o == File(m, x, s)
             a == [o.v EXCEPT !["meta"] = y]
             b == [o.v EXCEPT !["content"] = y]
  <1>1. DOMAIN o.v = {"meta", "content"} /\ o.v.meta = m /\ o.v.content = x /\ o.isset = s
    BY FileHas
  <1>2. o = [v |-> o.v, isset |-> o.isset]
    BY DEF File, Obj
  <1> HIDE DEF o
  <1>3. DOMAIN a = {"meta", "content"} /\ a = [f \in DOMAIN a |-> a[f]] /\ a.meta = y /\ a.content = x
    BY <1>1
  <1>4. DOMAIN b = {"meta", "content"} /\ b = [f \in DOMAIN b |-> b[f]] /\ b.meta = m /\ b.content = y
    BY <1>1
  <1>5. /\ RFile_set(o, "meta", y) = Obj(a, Mark(s, "meta"))
        /\ RFile_set(o, "content", y) = Obj(b, Mark(s, "content"))
    BY <1>1 DEF RFile_set, Mark
  <1>6. [o EXCEPT !.v = b] = Obj(b, s)
    <2> HIDE DEF b
    <2> QED  BY <1>1, <1>2 DEF Obj
  <1>7. Assign(o, y) = Obj(b, s)
    BY <1>6 DEF Assign
  <1> HIDE DEF a, b
  <1>8. Obj(a, Mark(s, "meta")) = File(y, x, Mark(s, "meta"))
    BY <1>3, FileByFields
  <1>9. /\ Obj(b, Mark(s, "content")) = File(m, y, Mark(s, "content"))
        /\ Obj(b, s) = File(m, y, s)
    BY <1>4, FileByFields
  <1> QED  BY <1>5, <1>7, <1>8, <1>9 DEF o

\* __set_filename and the others.
LEMMA SetMeta ==
  ASSUME NEW a, NEW b, NEW c, NEW d, NEW s, NEW x
  PROVE  /\ RFileMetadata_set(Meta(a, b, c, d, s), "filename", x) = Meta(x, b, c, d, Mark(s, "filename"))
         /\ RFileMetadata_set(Meta(a, b, c, d, s), "version", x) = Meta(a, x, c, d, Mark(s, "version"))
         /\ RFileMetadata_set(Meta(a, b, c, d, s), "owner", x) = Meta(a, b, x, d, Mark(s, "owner"))
         /\ RFileMetadata_set(Meta(a, b, c, d, s), "contentHash", x)
              = Meta(a, b, c, x, Mark(s, "contentHash"))
  <1> DEFINE o == Meta(a, b, c, d, s)
             r(f) == [o.v EXCEPT ![f] = x]
  <1>1. /\ DOMAIN o.v = MetaFields /\ o.isset = s
        /\ o.v.filename = a /\ o.v.version = b /\ o.v.owner = c /\ o.v.contentHash = d
    BY MetaHas
  <1> HIDE DEF o
  <1>2. ASSUME NEW f \in MetaFields
        PROVE  /\ DOMAIN r(f) = MetaFields
               /\ r(f) = [g \in DOMAIN r(f) |-> r(f)[g]]
               /\ r(f)[f] = x
               /\ \A g \in MetaFields \ {f} : r(f)[g] = o.v[g]
               /\ RFileMetadata_set(o, f, x) = Obj(r(f), Mark(s, f))
    BY <1>1 DEF RFileMetadata_set, Mark
  <1> HIDE DEF r
  <1>3. ASSUME NEW f \in MetaFields
        PROVE  RFileMetadata_set(o, f, x)
                 = Meta(r(f).filename, r(f).version, r(f).owner, r(f).contentHash, Mark(s, f))
    BY <1>2, MetaByFields
  <1>4. RFileMetadata_set(o, "filename", x) = Meta(x, b, c, d, Mark(s, "filename"))
    BY <1>1, <1>2, <1>3 DEF MetaFields
  <1>5. RFileMetadata_set(o, "version", x) = Meta(a, x, c, d, Mark(s, "version"))
    BY <1>1, <1>2, <1>3 DEF MetaFields
  <1>6. RFileMetadata_set(o, "owner", x) = Meta(a, b, x, d, Mark(s, "owner"))
    BY <1>1, <1>2, <1>3 DEF MetaFields
  <1>7. RFileMetadata_set(o, "contentHash", x) = Meta(a, b, c, x, Mark(s, "contentHash"))
    BY <1>1, <1>2, <1>3 DEF MetaFields
  <1> QED  BY <1>4, <1>5, <1>6, <1>7 DEF o

\* An RFile on the wire: the fields that are marked, the metadata encoded.
LEMMA FileWritten ==
  ASSUME NEW m, NEW x, NEW marked \in BOOLEAN
  PROVE  /\ DOMAIN RFile_write(File(m, x, FileFields(marked))) = FileFields(marked)
         /\ RFile_write(File(m, x, FileFields(marked))).meta = RFileMetadata_write(m)
         /\ marked => RFile_write(File(m, x, FileFields(marked))).content = x
  <1> DEFINE o == File(m, x, FileFields(marked))
  <1>1. o.v.meta = m /\ o.v.content = x /\ o.isset = FileFields(marked)
    BY FileHas
  <1> HIDE DEF o
  <1>2. /\ DOMAIN RFile_write(o) = FileFields(marked)
        /\ RFile_write(o).meta = RFileMetadata_write(m)
        /\ marked => RFile_write(o).content = x
    BY <1>1 DEF RFile_write, FileFields
  <1> QED  BY <1>2 DEF o

\* An RFile that is read: the fields that are on the wire.
LEMMA FileRead ==
  ASSUME NEW w, NEW m, NEW x, NEW marked \in BOOLEAN,
         DOMAIN w = FileFields(marked),
         RFileMetadata_read(RFileMetadata0, w.meta) = m,
         IF marked THEN w.content = x ELSE x = ""
  PROVE  RFile_read(RFile0, w) = File(m, x, FileFields(marked))
  <1> DEFINE u == [f \in DOMAIN w |->
                     IF f = "meta" THEN RFileMetadata_read(RFile0.v.meta, w[f]) ELSE w[f]]
             v == [f \in DOMAIN RFile0.v |-> IF f \in DOMAIN u THEN u[f] ELSE RFile0.v[f]]
             s == RFile0.isset \cup (DOMAIN u \cap DOMAIN RFile0.v)
  <1>1. /\ DOMAIN RFile0.v = {"meta", "content"}
        /\ RFile0.v.meta = RFileMetadata0 /\ RFile0.v.content = ""
        /\ RFile0.isset = {}
    BY Constructed
  <1>2. RFile_read(RFile0, w) = Obj(v, s)
    BY DEF RFile_read, Fill, Obj
  <1>3. DOMAIN u = FileFields(marked) /\ u.meta = m /\ (marked => u.content = x)
    BY <1>1 DEF FileFields
  <1> HIDE DEF u
  <1>4. DOMAIN v = {"meta", "content"} /\ v = [f \in DOMAIN v |-> v[f]]
    BY <1>1
  <1>5. v.meta = m
    BY <1>1, <1>3 DEF FileFields
  <1>6. v.content = x
    BY <1>1, <1>3 DEF FileFields
  <1>7. s = FileFields(marked)
    BY <1>1, <1>3 DEF FileFields
  <1> HIDE DEF v, s
  <1>8. Obj(v, s) = File(v.meta, v.content, s)
    BY <1>4, FileByFields
  <1> QED  BY <1>2, <1>5, <1>6, <1>7, <1>8

\* Metadata over the wire.
LEMMA MetaKept ==
  ASSUME NEW a, NEW b, NEW c, NEW d, NEW s, Sendable(a, b, c, d, s)
  PROVE  RFileMetadata_read(RFileMetadata0, RFileMetadata_write(Meta(a, b, c, d, s)))
           = Meta(a, b, c, d, s)
  <1> DEFINE o == Meta(a, b, c, d, s)
             z == RFileMetadata0
             w == RFileMetadata_write(o)
             v == [f \in DOMAIN z.v |-> IF f \in DOMAIN w THEN w[f] ELSE z.v[f]]
             t == z.isset \cup (DOMAIN w \cap DOMAIN z.v)
  <1>1. /\ DOMAIN o.v = MetaFields /\ o.isset = s
        /\ o.v.filename = a /\ o.v.version = b /\ o.v.owner = c /\ o.v.contentHash = d
    BY MetaHas
  <1>2. /\ DOMAIN z.v = MetaFields /\ z.isset = {}
        /\ z.v.filename = <<>> /\ z.v.version = 0 /\ z.v.owner = <<>> /\ z.v.contentHash = <<>>
    BY Constructed
  <1>3. RFileMetadata_read(z, w) = Obj(v, t)
    BY DEF RFileMetadata_read, Fill, Obj
  <1> HIDE DEF o, z
  <1>4. DOMAIN w = s /\ \A f \in s : w[f] = o.v[f]
    BY <1>1 DEF RFileMetadata_write, Marked, Sendable
  <1> HIDE DEF w
  <1>5. DOMAIN v = MetaFields /\ v = [f \in DOMAIN v |-> v[f]]
    BY <1>2
  <1>6. \A f \in MetaFields : v[f] = IF f \in s THEN o.v[f] ELSE z.v[f]
    BY <1>2, <1>4
  <1>7. t = s
    BY <1>2, <1>4 DEF Sendable
  <1> HIDE DEF v, t
  <1>8. v.filename = a /\ v.version = b /\ v.owner = c /\ v.contentHash = d
    BY <1>1, <1>2, <1>6 DEF MetaFields, Sendable
  <1>9. Obj(v, t) = Meta(v.filename, v.version, v.owner, v.contentHash, t)
    BY <1>5, MetaByFields
  <1>10. RFileMetadata_read(z, w) = o
    BY <1>3, <1>7, <1>8, <1>9 DEF o
  <1> QED  BY <1>10 DEF o, w, z

\* The version on the wire.
LEMMA VersionWritten ==
  ASSUME NEW a, NEW b, NEW c, NEW d
  PROVE  RFileMetadata_write(Meta(a, b, c, d, MetaFields)).version = b
  BY MetaHas DEF RFileMetadata_write, Marked, MetaFields

\* What is read of a file that was written, and its version there.
LEMMA FileKept ==
  ASSUME NEW o, NEW i, NEW v, IsFile(o, i, v)
  PROVE  /\ RFile_read(RFile0, RFile_write(o)) = o
         /\ RFile_write(o).meta.version = v
  <1>1. PICK name \in Names, content \in AllContents, marked \in BOOLEAN :
          /\ marked \/ content = ""
          /\ o = File(Meta(name[1], v, name[2], Hash(content), MetaFields), content,
                      FileFields(marked))
    BY DEF IsFile
  <1> DEFINE m == Meta(name[1], v, name[2], Hash(content), MetaFields)
             w == RFile_write(o)
  <1>2. Sendable(name[1], v, name[2], Hash(content), MetaFields)
    BY DEF MetaFields, Sendable
  <1>3. /\ RFileMetadata_read(RFileMetadata0, RFileMetadata_write(m)) = m
        /\ RFileMetadata_write(m).version = v
    <2>1. RFileMetadata_read(RFileMetadata0, RFileMetadata_write(m)) = m
      BY ONLY <1>2, MetaKept
    <2>2. RFileMetadata_write(m).version = v
      BY ONLY VersionWritten
    <2> QED  BY <2>1, <2>2
  <1> HIDE DEF m
  <1>4. /\ DOMAIN w = FileFields(marked)
        /\ w.meta = RFileMetadata_write(m)
        /\ marked => w.content = content
    BY <1>1, FileWritten DEF m
  <1> HIDE DEF w
  <1>5. RFileMetadata_read(RFileMetadata0, w.meta) = m
    BY <1>3, <1>4
  <1>6. IF marked THEN w.content = content ELSE content = ""
    BY <1>1, <1>4
  <1>7. RFile_read(RFile0, w) = File(m, content, FileFields(marked))
    BY ONLY <1>4, <1>5, <1>6, FileRead, marked \in BOOLEAN
  <1> QED  BY <1>1, <1>3, <1>4, <1>7 DEF w, m

\* send_writeFile and process_writeFile: the marked fields of the file arrive, a
\* content that was not marked does not.
LEMMA FileArrives ==
  ASSUME NEW name \in Names, NEW content \in Contents, NEW marked \in BOOLEAN,
         NEW msg, msg = send_writeFile(GivenFile(name, content, marked))
  PROVE  /\ IsGiven(ReadFields(writeFile_args, msg.body).rFile, FileId(name[1], name[2]))
         /\ msg.fname = "writeFile" /\ msg.mtype = "T_CALL"
  <1> DEFINE given == GivenFile(name, content, marked)
             m == Meta(name[1], 0, name[2], <<>>, {"filename", "owner"})
             kept == IF marked THEN content ELSE ""
             w == RFile_write(given)
  <1>1. RFileMetadata_set(RFileMetadata_set(RFileMetadata0, "filename", name[1]), "owner", name[2])
          = m
    <2> DEFINE a == name[1]
               c == name[2]
               zero == 0
               empty == <<>>
               s0 == {}
               s1 == Mark(s0, "filename")
               s2 == Mark(s1, "owner")
    <2>1. RFileMetadata0 = Meta(empty, zero, empty, empty, s0)
      BY Constructed
    <2>2. s2 = {"filename", "owner"}
      BY DEF Mark
    <2> HIDE DEF a, c, zero, empty, s0
    <2>3. RFileMetadata_set(RFileMetadata0, "filename", a) = Meta(a, zero, empty, empty, s1)
      BY <2>1, SetMeta
    <2> HIDE DEF s1
    <2>4. RFileMetadata_set(Meta(a, zero, empty, empty, s1), "owner", c)
            = Meta(a, zero, c, empty, s2)
      BY SetMeta
    <2> HIDE DEF s2
    <2> QED  BY <2>2, <2>3, <2>4 DEF a, c, zero, empty
  <1>2. RFileMetadata_read(RFileMetadata0, RFileMetadata_write(m)) = m
    <2>1. Sendable(name[1], 0, name[2], <<>>, {"filename", "owner"})
      BY DEF MetaFields, Sendable
    <2> QED  BY ONLY <2>1, MetaKept
  <1> HIDE DEF m
  <1>3. given = File(m, content, FileFields(marked))
    <2> DEFINE file == RFile_set(RFile0, "meta", m)
    <2>1. given = IF marked THEN RFile_set(file, "content", content)
                  ELSE Assign(file, content)
      BY <1>1, Zenon DEF GivenFile, Assign, file
    <2> DEFINE empty == ""
               s0 == {}
               s1 == Mark(s0, "meta")
               s2 == Mark(s1, "content")
    <2>2. RFile0 = File(RFileMetadata0, empty, s0)
      BY Constructed
    <2>3. s1 = {"meta"} /\ s2 = {"meta", "content"}
      BY DEF Mark
    <2> HIDE DEF empty, s0
    <2>4. file = File(m, empty, s1)
      BY <2>2, SetFile
    <2> HIDE DEF file, s1
    <2>5. /\ RFile_set(file, "content", content) = File(m, content, s2)
          /\ Assign(file, content) = File(m, content, s1)
      BY <2>4, SetFile
    <2> HIDE DEF s2
    <2> QED  BY <2>1, <2>3, <2>5, Zenon DEF FileFields
  <1> HIDE DEF given
  <1>4. /\ DOMAIN w = FileFields(marked)
        /\ w.meta = RFileMetadata_write(m)
        /\ marked => w.content = content
    BY <1>3, FileWritten
  <1>5. msg.body.rFile = w /\ DOMAIN msg.body = {"rFile"}
    BY AsTypes DEF send_writeFile, Call, WriteFields, writeFile_args, given
  <1> HIDE DEF w
  <1>6. RFileMetadata_read(RFileMetadata0, w.meta) = m
    BY <1>2, <1>4
  <1>7. IF marked THEN w.content = kept ELSE kept = ""
    BY <1>4
  <1> HIDE DEF kept
  <1>8. RFile_read(RFile0, w) = File(m, kept, FileFields(marked))
    BY ONLY <1>4, <1>6, <1>7, FileRead, marked \in BOOLEAN
  <1>9. ReadFields(writeFile_args, msg.body).rFile = RFile_read(RFile0, w)
    BY <1>5, AsTypes DEF ReadFields, writeFile_args
  <1>10. kept \in AllContents /\ (marked \/ kept = "")
    BY DEF kept, AllContents
  <1>11. msg.fname = "writeFile" /\ msg.mtype = "T_CALL"
    BY DEF send_writeFile, Call
  <1> QED  BY <1>8, <1>9, <1>10, <1>11 DEF IsGiven, m

\* The file that writeFile is given has the id under which it is called.
LEMMA GivenId ==
  ASSUME NEW o, NEW i, IsGiven(o, i)
  PROVE  FileId(o.v.meta.v.filename, o.v.meta.v.owner) = i
  <1>1. PICK name \in Names, content \in AllContents, marked \in BOOLEAN :
          /\ FileId(name[1], name[2]) = i
          /\ o = File(Meta(name[1], 0, name[2], <<>>, {"filename", "owner"}), content,
                      FileFields(marked))
    BY DEF IsGiven
  <1> DEFINE zero == 0
             empty == <<>>
             s == {"filename", "owner"}
             t == FileFields(marked)
             m == Meta(name[1], zero, name[2], empty, s)
  <1>2. o = File(m, content, t)
    BY <1>1
  <1> HIDE DEF zero, empty, s, t
  <1>3. m.v.filename = name[1] /\ m.v.owner = name[2]
    BY MetaHas
  <1> HIDE DEF m
  <1>4. o.v.meta = m
    BY <1>2, FileHas
  <1> QED  BY <1>1, <1>3, <1>4

\* What a file of the store says of itself.
LEMMA FileSays ==
  ASSUME NEW o, NEW i, NEW v, IsFile(o, i, v)
  PROVE  /\ o.v.meta.v.version = v
         /\ FileId(o.v.meta.v.filename, o.v.meta.v.owner) = i
         /\ o.v.meta.v.contentHash = Hash(o.v.content)
  <1>1. PICK name \in Names, content \in AllContents, marked \in BOOLEAN :
          /\ FileId(name[1], name[2]) = i
          /\ o = File(Meta(name[1], v, name[2], Hash(content), MetaFields), content,
                      FileFields(marked))
    BY DEF IsFile
  <1> DEFINE h == Hash(content)
             t == FileFields(marked)
             m == Meta(name[1], v, name[2], h, MetaFields)
  <1>2. o = File(m, content, t)
    BY <1>1
  <1> HIDE DEF h, t
  <1>3. m.v.filename = name[1] /\ m.v.owner = name[2] /\ m.v.version = v /\ m.v.contentHash = h
    BY MetaHas
  <1> HIDE DEF m
  <1>4. o.v.meta = m /\ o.v.content = content
    BY <1>2, FileHas
  <1> QED  BY <1>1, <1>3, <1>4 DEF h

\* __set_version, __set_contentHash of the metadata of a file, and __set_meta.
LEMMA SetOfFile ==
  ASSUME NEW a, NEW b, NEW c, NEW d, NEW s, NEW x, NEW t, NEW y, "meta" \in t
  PROVE  /\ WithVersion(File(Meta(a, b, c, d, s), x, t), y) = File(Meta(a, y, c, d, Mark(s, "version")), x, t)
         /\ WithHash(File(Meta(a, b, c, d, s), x, t)) = File(Meta(a, b, c, Hash(x), Mark(s, "contentHash")), x, t)
  <1> DEFINE m == Meta(a, b, c, d, s)
             h == Hash(x)
             p == Meta(a, y, c, d, Mark(s, "version"))
             q == Meta(a, b, c, h, Mark(s, "contentHash"))
             o == File(m, x, t)
  <1>1. RFileMetadata_set(m, "version", y) = p /\ RFileMetadata_set(m, "contentHash", h) = q
    BY SetMeta
  <1> HIDE DEF m, h, p, q
  <1>2. o.v.meta = m /\ o.v.content = x
    BY FileHas
  <1>3. RFile_set(o, "meta", p) = File(p, x, Mark(t, "meta"))
        /\ RFile_set(o, "meta", q) = File(q, x, Mark(t, "meta"))
    BY SetFile
  <1>4. Mark(t, "meta") = t
    BY DEF Mark
  <1> HIDE DEF o
  <1>5. WithVersion(o, y) = File(p, x, t)
    BY <1>1, <1>2, <1>3, <1>4 DEF WithVersion
  <1>6. WithHash(o) = File(q, x, t)
    BY <1>1, <1>2, <1>3, <1>4 DEF WithHash, h
  <1> QED  BY <1>5, <1>6 DEF o, m, p, q, h

\* writeFile sets the version.
LEMMA Versioned ==
  ASSUME NEW o, NEW i, NEW v, NEW y, IsFile(o, i, v)
  PROVE  IsFile(WithVersion(o, y), i, y)
  <1>1. PICK name \in Names, content \in AllContents, marked \in BOOLEAN :
          /\ marked \/ content = ""
          /\ FileId(name[1], name[2]) = i
          /\ o = File(Meta(name[1], v, name[2], Hash(content), MetaFields), content,
                      FileFields(marked))
    BY DEF IsFile
  <1> DEFINE h == Hash(content)
             t == FileFields(marked)
  <1>2. "meta" \in t
    BY DEF FileFields
  <1>3. Mark(MetaFields, "version") = MetaFields
    BY DEF Mark, MetaFields
  <1>4. o = File(Meta(name[1], v, name[2], h, MetaFields), content, t)
    BY <1>1
  <1> HIDE DEF h, t
  <1>5. WithVersion(o, y) = File(Meta(name[1], y, name[2], h, Mark(MetaFields, "version")), content, t)
    BY <1>2, <1>4, SetOfFile
  <1>6. WithVersion(o, y) = File(Meta(name[1], y, name[2], h, MetaFields), content, t)
    BY <1>3, <1>5
  <1> QED  BY <1>1, <1>6 DEF IsFile, h, t

\* writeFile sets the hash and the first version.
LEMMA Stamped ==
  ASSUME NEW o, NEW i, IsGiven(o, i)
  PROVE  IsFile(WithVersion(WithHash(o), 0), i, 0)
  <1>1. PICK name \in Names, content \in AllContents, marked \in BOOLEAN :
          /\ marked \/ content = ""
          /\ FileId(name[1], name[2]) = i
          /\ o = File(Meta(name[1], 0, name[2], <<>>, {"filename", "owner"}), content,
                      FileFields(marked))
    BY DEF IsGiven
  <1> DEFINE zero == 0
             empty == <<>>
             s == {"filename", "owner"}
             s1 == Mark(s, "contentHash")
             s2 == Mark(s1, "version")
             h == Hash(content)
             t == FileFields(marked)
  <1>2. "meta" \in t
    BY DEF FileFields
  <1>3. s2 = MetaFields
    BY DEF Mark, MetaFields
  <1>4. o = File(Meta(name[1], zero, name[2], empty, s), content, t)
    BY <1>1
  <1> HIDE DEF zero, empty, s, h, t
  <1>5. WithHash(o) = File(Meta(name[1], zero, name[2], h, s1), content, t)
    BY <1>2, <1>4, SetOfFile DEF h
  <1> HIDE DEF s1
  <1>6. WithVersion(WithHash(o), zero) = File(Meta(name[1], zero, name[2], h, s2), content, t)
    BY <1>2, <1>5, SetOfFile
  <1> HIDE DEF s2
  <1>7. WithVersion(WithHash(o), zero) = File(Meta(name[1], zero, name[2], h, MetaFields), content, t)
    BY <1>3, <1>6
  <1> QED  BY <1>1, <1>7 DEF IsFile, h, t, zero

\* send_readFile and process_readFile.
LEMMA NameArrives ==
  ASSUME NEW a, NEW b
  PROVE  LET msg == send_readFile(a, b)
         IN /\ ReadFields(readFile_args, msg.body).filename = a
            /\ ReadFields(readFile_args, msg.body).owner = b
            /\ msg.fname = "readFile" /\ msg.mtype = "T_CALL"
  <1> DEFINE msg == send_readFile(a, b)
  <1>1. DOMAIN msg.body = {"filename", "owner"} /\ msg.body.filename = a /\ msg.body.owner = b
    BY AsTypes DEF send_readFile, Call, WriteFields, readFile_args
  <1>2. msg.fname = "readFile" /\ msg.mtype = "T_CALL"
    BY DEF send_readFile, Call
  <1> HIDE DEF msg
  <1>3. /\ ReadFields(readFile_args, msg.body).filename = a
        /\ ReadFields(readFile_args, msg.body).owner = b
    BY <1>1, AsTypes DEF ReadFields, readFile_args
  <1> QED  BY <1>2, <1>3 DEF msg

-----------------------------------------------------------------------------
(* The outcomes, from the handler to the caller                            *)

\* The shapes of outcomes.
LEMMA Outcomes ==
  ASSUME NEW x
  PROVE  /\ Returned(x).kind = "returned" /\ Returned(x).value = <<x>>
         /\ ReturnedVoid.kind = "returned" /\ ReturnedVoid.value = <<>>
         /\ Thrown(x).kind = "SystemException" /\ Thrown(x).value = <<x>>
         /\ OtherException.kind = "TApplicationException"
         /\ TransportException.kind = "TTransportException"
         /\ <<x>> # <<>> /\ Len(<<x>>) = 1 /\ <<x>>[1] = x
  BY DEF Returned, ReturnedVoid, Thrown, OtherException, TransportException

\* The fields of the result.
LEMMA Results ==
  ASSUME NEW x
  PROVE  /\ ResultFields(Returned(x)) = [success |-> x]
         /\ ResultFields(ReturnedVoid) = <<>>
         /\ ResultFields(Thrown(x)) = [systemException |-> Obj([message |-> x], {"message"})]
  <1>1. /\ Returned(x).kind = "returned" /\ Returned(x).value # <<>> /\ Returned(x).value[1] = x
        /\ ReturnedVoid.kind = "returned" /\ ReturnedVoid.value = <<>>
        /\ Thrown(x).kind = "SystemException" /\ Thrown(x).value # <<>> /\ Thrown(x).value[1] = x
    BY Outcomes, SMTT(30)
  <1>2. "returned" # "SystemException"
    OBVIOUS
  <1>3. ResultFields(Returned(x)) = [success |-> x]
    BY <1>1, <1>2, Zenon DEF ResultFields
  <1>4. ResultFields(ReturnedVoid) = <<>>
    BY <1>1, <1>2, Zenon DEF ResultFields
  <1>5. ResultFields(Thrown(x)) = [systemException |-> Obj([message |-> x], {"message"})]
    BY <1>1, <1>2, Zenon DEF ResultFields
  <1> QED  BY <1>3, <1>4, <1>5

\* recv_ of a result without fields.
LEMMA VoidReceived ==
  ASSUME NEW class, NEW otherwise, NEW fname
  PROVE  Recv(class, otherwise, Reply(fname, WriteFields(class, <<>>))) = otherwise
  <1> DEFINE body == WriteFields(class, <<>>)
  <1>1. DOMAIN body = {}
    BY DEF WriteFields
  <1> HIDE DEF body
  <1>2. DOMAIN ReadFields(class, body) = {}
    BY <1>1 DEF ReadFields
  <1>3. Reply(fname, body).mtype # "T_EXCEPTION" /\ Reply(fname, body).body = body
    BY DEF Reply
  <1> QED  BY <1>2, <1>3 DEF Recv, OutcomeOf, body

\* recv_ of a result with a value.
LEMMA ValueReceived ==
  ASSUME NEW class, NEW otherwise, NEW fname, NEW x, "success" \in DOMAIN class
  PROVE  Recv(class, otherwise, Reply(fname, WriteFields(class, [success |-> x])))
           = Returned(ReadAs(class.success, WriteAs(class.success, x)))
  <1> DEFINE body == WriteFields(class, [success |-> x])
             y == WriteAs(class.success, x)
  <1>1. DOMAIN body = {"success"} /\ body.success = y
    BY DEF WriteFields
  <1> HIDE DEF body, y
  <1>2. /\ "success" \in DOMAIN ReadFields(class, body)
        /\ ReadFields(class, body).success = ReadAs(class.success, y)
    BY <1>1 DEF ReadFields
  <1>3. Reply(fname, body).mtype # "T_EXCEPTION" /\ Reply(fname, body).body = body
    BY DEF Reply
  <1> QED  BY <1>2, <1>3 DEF Recv, OutcomeOf, body, y

\* recv_ of a result with a SystemException: its message arrives.
LEMMA ExceptionReceived ==
  ASSUME NEW class, NEW otherwise, NEW fname, NEW x,
         "systemException" \in DOMAIN class, class.systemException = "SystemException"
  PROVE  Recv(class, otherwise,
              Reply(fname, WriteFields(class, [systemException |-> Obj([message |-> x], {"message"})])))
           = Thrown(x)
  <1> DEFINE e == Obj([message |-> x], {"message"})
             body == WriteFields(class, [systemException |-> e])
             w == SystemException_write(e)
  <1>1. DOMAIN w = {"message"} /\ w.message = x
    BY DEF SystemException_write, Marked, Obj
  <1>2. SystemException_read(SystemException0, w).v.message = x
    <2> HIDE DEF w
    <2> QED  BY <1>1 DEF SystemException_read, Fill, SystemException0, Obj
  <1> HIDE DEF e
  <1>3. DOMAIN body = {"systemException"} /\ body.systemException = w
    BY AsTypes DEF WriteFields
  <1> HIDE DEF body, w
  <1>4. /\ DOMAIN ReadFields(class, body) = {"systemException"}
        /\ ReadFields(class, body).systemException = SystemException_read(SystemException0, w)
    BY <1>3, AsTypes DEF ReadFields
  <1>5. Reply(fname, body).mtype # "T_EXCEPTION" /\ Reply(fname, body).body = body
    BY DEF Reply
  <1>6. Recv(class, otherwise, Reply(fname, body)) = Thrown(x)
    BY <1>2, <1>4, <1>5 DEF Recv, OutcomeOf
  <1> QED  BY <1>6 DEF body, e

\* recv_ of an exception message.
LEMMA FailureReceived ==
  ASSUME NEW class, NEW otherwise, NEW fname
  PROVE  Recv(class, otherwise, Exception(fname)) = OtherException
  BY DEF Recv, Exception

\* The answers of a node that does not take the call.
Refusals == {Refusal("other"), Refusal("unknown")}

\* A file that a readFile of i may return: not older than version floor.
IsRead(o, i, floor) ==
  /\ o.v.meta.v.version \in Nat
  /\ o.v.meta.v.version >= floor
  /\ IsFile(o, i, o.v.meta.v.version)

\* What a readFile of i may answer: a file not older than floor, or that it
\* cannot be read when no version has to be there, or that the node is not the
\* owner.
ReadAnswer(i, floor, o) ==
  \/ o \in Refusals
  \/ o \in {Thrown("file_does_not_exist"), OtherException} /\ floor < 0
  \/ /\ o.kind = "returned" /\ o.value # <<>>
     /\ o = Returned(o.value[1])
     /\ IsRead(o.value[1], i, floor)

WriteAnswer(o) ==
  o \in {ReturnedVoid, OtherException, Thrown("file_does_not_exist")} \cup Refusals

\* What the handler may answer to a call.
IsAnswerTo(fname, i, floor, o) ==
  \/ fname = "readFile" /\ ReadAnswer(i, floor, o)
  \/ fname = "writeFile" /\ WriteAnswer(o)
  \/ fname \in {"findSucc", "findPred", "getNodeSucc"} /\ o \in LookupOutcomes
  \/ fname \in {"setFingertable", "setPredecessor"} /\ o \in {ReturnedVoid, OtherException}

\* A caller's outcome o says what the handler's outcome h is.
Tells(o, h) ==
  /\ o.kind = h.kind
  /\ o.kind = "SystemException" => o.value = h.value
  /\ o.kind = "returned" =>
       /\ Len(o.value) = Len(h.value)
       /\ \A i \in DOMAIN o.value : o.value[i].v = h.value[i].v

LEMMA TellsItself == \A o : Tells(o, o)
  BY DEF Tells

\* A node over the wire.
LEMMA NodeKept ==
  /\ NodeID_read(NodeID0, NodeID_write(Node(FarId))).v = Node(FarId).v
  /\ NodeID_read(NodeID0, NodeID_write(Node(FarId))) = Obj(Node(FarId).v, {"id", "ip", "port"})
  BY DEF NodeID_read, NodeID_write, NodeID0, Node, Fill, Obj

\* Results that a method declares are sent in a reply.
LEMMA Replied ==
  ASSUME NEW fname, NEW x
  PROVE  /\ "success" \in DOMAIN ResultClass[fname] =>
              Answer(fname, Returned(x)) = Reply(fname, WriteFields(ResultClass[fname], [success |-> x]))
         /\ "systemException" \in DOMAIN ResultClass[fname] =>
              Answer(fname, Thrown(x))
                = Reply(fname, WriteFields(ResultClass[fname],
                                           [systemException |-> Obj([message |-> x], {"message"})]))
         /\ Answer(fname, ReturnedVoid) = Reply(fname, WriteFields(ResultClass[fname], <<>>))
         /\ Answer(fname, OtherException) = Exception(fname)
  <1> DEFINE class == ResultClass[fname]
             e == Obj([message |-> x], {"message"})
  <1>1. /\ Returned(x).kind # "TApplicationException"
        /\ Thrown(x).kind # "TApplicationException"
        /\ ReturnedVoid.kind # "TApplicationException"
        /\ OtherException.kind = "TApplicationException"
    BY Outcomes
  <1> HIDE DEF e
  <1>2. DOMAIN [success |-> x] = {"success"} /\ DOMAIN [systemException |-> e] = {"systemException"}
        /\ DOMAIN << >> = {}
    OBVIOUS
  <1>3. /\ ResultFields(Returned(x)) = [success |-> x]
        /\ ResultFields(ReturnedVoid) = <<>>
        /\ ResultFields(Thrown(x)) = [systemException |-> e]
    BY Results DEF e
  <1> HIDE DEF class
  <1>4. "success" \in DOMAIN class =>
              Answer(fname, Returned(x)) = Reply(fname, WriteFields(class, [success |-> x]))
    BY <1>1, <1>2, <1>3 DEF Answer, class
  <1>5. "systemException" \in DOMAIN class =>
              Answer(fname, Thrown(x)) = Reply(fname, WriteFields(class, [systemException |-> e]))
    BY <1>1, <1>2, <1>3 DEF Answer, class
  <1>6. Answer(fname, ReturnedVoid) = Reply(fname, WriteFields(class, <<>>))
    BY <1>1, <1>2, <1>3 DEF Answer, class
  <1>7. Answer(fname, OtherException) = Exception(fname)
    BY <1>1 DEF Answer
  <1> QED  BY <1>4, <1>5, <1>6, <1>7 DEF class, e

\* The classes of the results, and which recv_ reads them.
LEMMA Classes ==
  ASSUME NEW msg
  PROVE  /\ ResultClass["readFile"] = readFile_result
         /\ ResultClass["writeFile"] = writeFile_result
         /\ ResultClass["findSucc"] = findSucc_result
         /\ ResultClass["findPred"] = findPred_result
         /\ ResultClass["getNodeSucc"] = getNodeSucc_result
         /\ ResultClass["setFingertable"] = setFingertable_result
         /\ ResultClass["setPredecessor"] = setPredecessor_result
         /\ Received("readFile", msg) = Recv(readFile_result, MissingResult, msg)
         /\ Received("writeFile", msg) = Recv(writeFile_result, ReturnedVoid, msg)
         /\ Received("findSucc", msg) = Recv(findSucc_result, MissingResult, msg)
         /\ Received("findPred", msg) = Recv(findPred_result, MissingResult, msg)
         /\ Received("getNodeSucc", msg) = Recv(getNodeSucc_result, MissingResult, msg)
         /\ Received("setFingertable", msg) = Recv(setFingertable_result, ReturnedVoid, msg)
         /\ Received("setPredecessor", msg) = Recv(setPredecessor_result, ReturnedVoid, msg)
  <1>1. /\ ResultClass["readFile"] = readFile_result
        /\ ResultClass["writeFile"] = writeFile_result
        /\ ResultClass["findSucc"] = findSucc_result
        /\ ResultClass["findPred"] = findPred_result
        /\ ResultClass["getNodeSucc"] = getNodeSucc_result
        /\ ResultClass["setFingertable"] = setFingertable_result
        /\ ResultClass["setPredecessor"] = setPredecessor_result
    BY DEF ResultClass
  <1>2. /\ Received("readFile", msg) = Recv(readFile_result, MissingResult, msg)
        /\ Received("writeFile", msg) = Recv(writeFile_result, ReturnedVoid, msg)
        /\ Received("findSucc", msg) = Recv(findSucc_result, MissingResult, msg)
        /\ Received("findPred", msg) = Recv(findPred_result, MissingResult, msg)
    BY ZenonT(30) DEF Received, recv_readFile, recv_writeFile, recv_findSucc, recv_findPred,
         recv_getNodeSucc, recv_setFingertable, recv_setPredecessor
  <1>3. /\ Received("getNodeSucc", msg) = Recv(getNodeSucc_result, MissingResult, msg)
        /\ Received("setFingertable", msg) = Recv(setFingertable_result, ReturnedVoid, msg)
        /\ Received("setPredecessor", msg) = Recv(setPredecessor_result, ReturnedVoid, msg)
    BY ZenonT(30) DEF Received, recv_readFile, recv_writeFile, recv_findSucc, recv_findPred,
         recv_getNodeSucc, recv_setFingertable, recv_setPredecessor
  <1> QED  BY <1>1, <1>2, <1>3

\* An outcome of a method that can return a value or throw, at the caller.
LEMMA ReplyTells ==
  ASSUME NEW fname, NEW class, NEW otherwise, NEW x,
         class = ResultClass[fname],
         \A msg : Received(fname, msg) = Recv(class, otherwise, msg)
  PROVE  /\ "success" \in DOMAIN class =>
              Received(fname, Answer(fname, Returned(x)))
                = Returned(ReadAs(class.success, WriteAs(class.success, x)))
         /\ "systemException" \in DOMAIN class /\ class.systemException = "SystemException" =>
              Received(fname, Answer(fname, Thrown(x))) = Thrown(x)
         /\ Received(fname, Answer(fname, ReturnedVoid)) = otherwise
         /\ Received(fname, Answer(fname, OtherException)) = OtherException
  <1>1. ASSUME "success" \in DOMAIN class
        PROVE  Received(fname, Answer(fname, Returned(x)))
                 = Returned(ReadAs(class.success, WriteAs(class.success, x)))
    <2>1. Answer(fname, Returned(x)) = Reply(fname, WriteFields(class, [success |-> x]))
      BY <1>1, Replied
    <2>2. Recv(class, otherwise, Reply(fname, WriteFields(class, [success |-> x])))
            = Returned(ReadAs(class.success, WriteAs(class.success, x)))
      BY ONLY <1>1, ValueReceived
    <2> QED  BY <2>1, <2>2
  <1>2. ASSUME "systemException" \in DOMAIN class, class.systemException = "SystemException"
        PROVE  Received(fname, Answer(fname, Thrown(x))) = Thrown(x)
    <2> DEFINE r == [systemException |-> Obj([message |-> x], {"message"})]
    <2>1. Answer(fname, Thrown(x)) = Reply(fname, WriteFields(class, r))
      BY <1>2, Replied
    <2>2. Recv(class, otherwise, Reply(fname, WriteFields(class, r))) = Thrown(x)
      BY ONLY <1>2, ExceptionReceived
    <2> HIDE DEF r
    <2> QED  BY <2>1, <2>2
  <1>3. Received(fname, Answer(fname, ReturnedVoid)) = otherwise
    <2>1. Answer(fname, ReturnedVoid) = Reply(fname, WriteFields(class, <<>>))
      BY Replied
    <2>2. Recv(class, otherwise, Reply(fname, WriteFields(class, <<>>))) = otherwise
      BY ONLY VoidReceived
    <2> QED  BY <2>1, <2>2
  <1>4. Received(fname, Answer(fname, OtherException)) = OtherException
    <2>1. Answer(fname, OtherException) = Exception(fname)
      BY Replied
    <2>2. Recv(class, otherwise, Exception(fname)) = OtherException
      BY FailureReceived
    <2> QED  BY <2>1, <2>2
  <1> QED  BY <1>1, <1>2, <1>3, <1>4

\* The answer of readFile and of writeFile comes back as it was given.
LEMMA ReadReceived ==
  ASSUME NEW i, NEW floor, NEW o, ReadAnswer(i, floor, o)
  PROVE  Received("readFile", Answer("readFile", o)) = o
  <1> DEFINE class == readFile_result
             name == "readFile"
  <1>1. /\ "success" \in DOMAIN class /\ class.success = "RFile"
        /\ "systemException" \in DOMAIN class /\ class.systemException = "SystemException"
    BY DEF readFile_result
  <1>2. class = ResultClass[name] /\ \A msg : Received(name, msg) = Recv(class, MissingResult, msg)
    BY Classes
  <1> HIDE DEF class, name
  <1>3. ASSUME NEW x PROVE Received(name, Answer(name, Thrown(x))) = Thrown(x)
    BY <1>1, <1>2, ReplyTells
  <1>4. Received(name, Answer(name, OtherException)) = OtherException
    BY <1>2, ReplyTells
  <1>5. ASSUME NEW x, NEW j, NEW v, IsFile(x, j, v)
        PROVE  Received(name, Answer(name, Returned(x))) = Returned(x)
    <2>1. Received(name, Answer(name, Returned(x)))
            = Returned(ReadAs(class.success, WriteAs(class.success, x)))
      BY <1>1, <1>2, ReplyTells
    <2>2. ReadAs("RFile", WriteAs("RFile", x)) = RFile_read(RFile0, RFile_write(x))
      BY AsTypes
    <2>3. RFile_read(RFile0, RFile_write(x)) = x
      BY <1>5, FileKept
    <2> QED  BY <1>1, <2>1, <2>2, <2>3
  <1>6. CASE o \in Refusals
    <2>1. PICK x : o = Thrown(x)
      BY <1>6 DEF Refusals, Refusal
    <2> QED  BY <1>3, <2>1 DEF name
  <1>7. CASE o \in {Thrown("file_does_not_exist"), OtherException}
    BY <1>3, <1>4, <1>7 DEF name
  <1>8. CASE o = Returned(o.value[1]) /\ IsRead(o.value[1], i, floor)
    BY <1>5, <1>8 DEF name, IsRead
  <1> QED  BY <1>6, <1>7, <1>8 DEF ReadAnswer

LEMMA WriteReceived ==
  ASSUME NEW o, WriteAnswer(o)
  PROVE  Received("writeFile", Answer("writeFile", o)) = o
  <1> DEFINE class == writeFile_result
             name == "writeFile"
  <1>1. "systemException" \in DOMAIN class /\ class.systemException = "SystemException"
    BY DEF writeFile_result
  <1>2. class = ResultClass[name] /\ \A msg : Received(name, msg) = Recv(class, ReturnedVoid, msg)
    BY Classes
  <1> HIDE DEF class, name
  <1>3. ASSUME NEW x PROVE Received(name, Answer(name, Thrown(x))) = Thrown(x)
    BY <1>1, <1>2, ReplyTells
  <1>4. /\ Received(name, Answer(name, OtherException)) = OtherException
        /\ Received(name, Answer(name, ReturnedVoid)) = ReturnedVoid
    BY <1>2, ReplyTells
  <1>5. CASE o \in Refusals
    <2>1. PICK x : o = Thrown(x)
      BY <1>5 DEF Refusals, Refusal
    <2> QED  BY <1>3, <2>1 DEF name
  <1>6. CASE o \in {ReturnedVoid, OtherException, Thrown("file_does_not_exist")}
    BY <1>3, <1>4, <1>6 DEF name
  <1> QED  BY <1>5, <1>6 DEF WriteAnswer

\* A lookup's answer is told: the node has the same fields, all marked.
LEMMA LookupReceived ==
  ASSUME NEW name, NEW o \in LookupOutcomes, NEW class,
         class = [success |-> "NodeID", systemException |-> "SystemException"],
         class = ResultClass[name],
         \A msg : Received(name, msg) = Recv(class, MissingResult, msg)
  PROVE  Tells(Received(name, Answer(name, o)), o)
  <1>1. /\ "success" \in DOMAIN class /\ class.success = "NodeID"
        /\ "systemException" \in DOMAIN class /\ class.systemException = "SystemException"
    OBVIOUS
  <1>2. ASSUME NEW x PROVE Received(name, Answer(name, Thrown(x))) = Thrown(x)
    BY ONLY <1>1, <1>2, ReplyTells, class = ResultClass[name],
            \A msg : Received(name, msg) = Recv(class, MissingResult, msg)
  <1>3. Received(name, Answer(name, OtherException)) = OtherException
    BY ONLY ReplyTells, class = ResultClass[name],
            \A msg : Received(name, msg) = Recv(class, MissingResult, msg)
  <1> DEFINE x == Node(FarId)
             y == NodeID_read(NodeID0, NodeID_write(x))
  <1>4. Received(name, Answer(name, Returned(x))) = Returned(y)
    <2> HIDE DEF x
    <2>1. Received(name, Answer(name, Returned(x)))
            = Returned(ReadAs(class.success, WriteAs(class.success, x)))
      BY ONLY <1>1, ReplyTells, class = ResultClass[name],
              \A msg : Received(name, msg) = Recv(class, MissingResult, msg)
    <2>2. ReadAs("NodeID", WriteAs("NodeID", x)) = y
      BY AsTypes
    <2> QED  BY <1>1, <2>1, <2>2
  <1>5. y.v = x.v
    BY NodeKept
  <1> HIDE DEF x, y
  <1>6. Tells(Returned(y), Returned(x))
    BY <1>5 DEF Tells, Returned
  <1>7. o = Returned(x) \/ o = Thrown("no_fingertable") \/ o = OtherException
    BY DEF LookupOutcomes, x
  <1> QED  BY <1>2, <1>3, <1>4, <1>6, <1>7, TellsItself

\* Whatever the handler answers, the caller is told.
LEMMA AnswerTold ==
  ASSUME NEW fname, NEW i, NEW floor, NEW o, IsAnswerTo(fname, i, floor, o)
  PROVE  /\ Tells(Received(fname, Answer(fname, o)), o)
         /\ fname \in {"readFile", "writeFile"} => Received(fname, Answer(fname, o)) = o
  <1>1. CASE fname = "readFile" /\ ReadAnswer(i, floor, o)
    BY <1>1, ReadReceived, TellsItself
  <1>2. CASE fname = "writeFile" /\ WriteAnswer(o)
    BY <1>2, WriteReceived, TellsItself
  <1>3. CASE fname \in {"findSucc", "findPred", "getNodeSucc"} /\ o \in LookupOutcomes
    <2>1. CASE fname = "findSucc"
      BY <1>3, <2>1, Classes, LookupReceived DEF findSucc_result
    <2>2. CASE fname = "findPred"
      BY <1>3, <2>2, Classes, LookupReceived DEF findPred_result
    <2>3. CASE fname = "getNodeSucc"
      BY <1>3, <2>3, Classes, LookupReceived DEF getNodeSucc_result
    <2> QED  BY <1>3, <2>1, <2>2, <2>3
  <1>4. CASE fname \in {"setFingertable", "setPredecessor"} /\ o \in {ReturnedVoid, OtherException}
    <2>1. ASSUME NEW name, NEW class, class = ResultClass[name],
                 \A msg : Received(name, msg) = Recv(class, ReturnedVoid, msg)
          PROVE  /\ Received(name, Answer(name, OtherException)) = OtherException
                 /\ Received(name, Answer(name, ReturnedVoid)) = ReturnedVoid
      BY ONLY <2>1, ReplyTells
    <2>2. CASE fname = "setFingertable"
      BY <1>4, <2>1, <2>2, Classes, TellsItself
    <2>3. CASE fname = "setPredecessor"
      BY <1>4, <2>1, <2>3, Classes, TellsItself
    <2> QED  BY <1>4, <2>2, <2>3
  <1> QED  BY <1>1, <1>2, <1>3, <1>4 DEF IsAnswerTo

-----------------------------------------------------------------------------
(* The inductive invariant                                                 *)

ThreadFields == {"at", "fname", "id", "file", "node", "outcome"}

CallerFields == {"at", "fname", "asked", "outcome", "handled", "version", "floor"}

FileCalls == {"readFile", "writeFile"}

RingCalls == {"setFingertable", "findSucc", "findPred", "getNodeSucc", "setPredecessor"}

\* Where a thread holds d_file_mtx.
Critical == {"read_file", "unlock", "write_old", "write_remove", "write_create", "write_data"}

\* The message w is a call of fname, for file i where it is about one.
IsCall(fname, i, w) ==
  /\ w.mtype = "T_CALL"
  /\ w.fname = fname
  /\ \/ fname = "writeFile" /\ IsGiven(ReadFields(writeFile_args, w.body).rFile, i)
     \/ /\ fname = "readFile"
        /\ FileId(ReadFields(readFile_args, w.body).filename,
                  ReadFields(readFile_args, w.body).owner) = i
     \/ fname \in RingCalls

\* The thread t serves a call of its method, for file i and, if it is a
\* readFile, from version floor on; n counts the writes of each file.
Serves(t, i, floor, n) ==
  \/ t.at = "assign" /\ t.fname = "setPredecessor"
  \/ t.at = "dispatched" /\ t.fname = "readFile" /\ t.id = i
  \/ t.at = "dispatched" /\ t.fname = "writeFile" /\ t.id = i /\ IsGiven(t.file, i)
  \/ t.at \in {"read_lock", "read_file"} /\ t.fname = "readFile" /\ t.id = i
  \/ /\ t.at \in {"write_lock", "write_old"} /\ t.fname = "writeFile" /\ t.id = i
     /\ IsFile(t.file, i, 0)
  \/ /\ t.at \in {"write_remove", "write_create", "write_data"} /\ t.fname = "writeFile"
     /\ t.id = i
     /\ IsFile(t.file, i, n[i])
  \/ t.at \in {"unlock", "reply"} /\ IsAnswerTo(t.fname, i, floor, t.outcome)

\* The caller k may be told what the handler answered.
Handled(k) == IsAnswerTo(k.fname, k.asked, k.floor, k.handled)

\* An idle caller has been told what the handler answered, or lost the server.
Told(k) ==
  \/ k.fname = "" /\ k.outcome = k.handled
  \/ k.outcome = TransportException
  \/ Handled(k) /\ k.outcome = Received(k.fname, Answer(k.fname, k.handled))

\* Where a call is: nowhere, on its way, being served, answered, or lost.
Phase(k, t, w, n) ==
  \/ k.at = "idle" /\ t.at = "idle" /\ w = NoMessage /\ Told(k)
  \/ k.at = "waiting" /\ t.at = "idle" /\ IsCall(k.fname, k.asked, w)
  \/ k.at = "waiting" /\ w = NoMessage /\ t.fname = k.fname /\ Serves(t, k.asked, k.floor, n)
  \/ k.at = "waiting" /\ t.at = "idle" /\ Handled(k) /\ w = Answer(k.fname, k.handled)
  \/ k.at = "waiting" /\ t.at = "idle" /\ w = NoMessage

\* What a caller knows of versions is not ahead of the writes.
Behind(k, n) ==
  /\ k.version \in Int /\ k.floor \in Int
  /\ k.fname \in FileCalls => k.asked \in Ids
  /\ k.asked \in Ids => k.version < n[k.asked] /\ k.floor < n[k.asked]

CallInv(c, k, t, w, h, n) ==
  /\ DOMAIN t = ThreadFields
  /\ DOMAIN k = CallerFields
  /\ t.at \in Critical => h = c
  /\ Behind(k, n)
  /\ Phase(k, t, w, n)

\* A file on the disk, after n writes: its last version, or a writer is at it.
DiskInv(i, d, n, h, th) ==
  \/ /\ d.state = "whole" /\ n > 0
     /\ d.data.meta.version = n - 1
     /\ IsFile(RFile_read(RFile0, d.data), i, n - 1)
  \/ /\ d \in {Absent, Torn}
     /\ n > 0 => /\ h \in Callers
                 /\ th[h].id = i
                 /\ th[h].at \in {"write_create", "write_data"}

Shapes ==
  /\ holder \in Callers \cup {NoOne}
  /\ DOMAIN thread = Callers
  /\ DOMAIN wire = Callers
  /\ DOMAIN caller = Callers
  /\ DOMAIN disk = Ids
  /\ writes \in [Ids -> Nat]
  /\ acked \in [Ids -> Int]
  /\ \A i \in Ids : acked[i] < writes[i]

FileInv ==
  /\ Shapes
  /\ \A c \in Callers : CallInv(c, caller[c], thread[c], wire[c], holder, writes)
  /\ \A i \in Ids : DiskInv(i, disk[i], writes[i], holder, thread)

-----------------------------------------------------------------------------
(* What the invariant says                                                 *)

\* The message of a refusal is not that of a missing file.
LEMMA RefusalSays ==
  ASSUME NEW o \in Refusals
  PROVE  /\ o.kind = "SystemException"
         /\ o.value[1] # "file_does_not_exist"
  BY DEF Refusals, Refusal, Thrown

LEMMA ImpliesVersions ==
  ASSUME FileInv
  PROVE  VersionsCount
  <1> SUFFICES ASSUME NEW i \in Ids
               PROVE  /\ disk[i].state = "whole" => disk[i].data.meta.version = writes[i] - 1
                      /\ disk[i].state # "whole" /\ writes[i] > 0 =>
                           /\ holder # NoOne
                           /\ thread[holder].id = i
                           /\ thread[holder].at \in {"write_create", "write_data"}
    BY DEF VersionsCount
  <1> DEFINE d == disk[i]
             n == writes[i]
  <1>1. DiskInv(i, d, n, holder, thread)
    BY DEF FileInv
  <1>2. Absent.state # "whole" /\ Torn.state # "whole"
    BY DEF Absent, Torn
  <1> HIDE DEF d, n
  <1>3. d.state = "whole" => d.data.meta.version = n - 1
    BY <1>1, <1>2 DEF DiskInv
  <1>4. d.state # "whole" /\ n > 0 =>
          /\ holder \in Callers
          /\ thread[holder].id = i
          /\ thread[holder].at \in {"write_create", "write_data"}
    BY <1>1, <1>2 DEF DiskInv
  <1> QED  BY <1>3, <1>4, CallersAssumption DEF d, n

\* What an idle caller of readFile has been told.
LEMMA ReadTold ==
  ASSUME NEW k, Told(k), k.fname = "readFile"
  PROVE  k.outcome = TransportException \/ ReadAnswer(k.asked, k.floor, k.outcome)
  <1>1. CASE k.outcome = TransportException
    BY <1>1
  <1>2. CASE Handled(k) /\ k.outcome = Received(k.fname, Answer(k.fname, k.handled))
    <2>1. ReadAnswer(k.asked, k.floor, k.handled)
      BY <1>2 DEF Handled, IsAnswerTo
    <2>2. Received("readFile", Answer("readFile", k.handled)) = k.handled
      BY <2>1, ReadReceived
    <2> QED  BY <1>2, <2>1, <2>2
  <1> QED  BY <1>1, <1>2 DEF Told

LEMMA ImpliesReads ==
  ASSUME FileInv
  PROVE  ReadsAcked
  <1> SUFFICES ASSUME NEW c \in Callers, caller[c].at = "idle", caller[c].fname = "readFile"
               PROVE  LET k == caller[c]
                          file == k.outcome.value[1].v
                      IN /\ k.outcome.kind = "returned" =>
                              /\ file.meta.v.version >= k.floor
                              /\ FileId(file.meta.v.filename, file.meta.v.owner) = k.asked
                              /\ file.meta.v.contentHash = Hash(file.content)
                         /\ k.floor >= 0 =>
                              \/ k.outcome.kind \in {"returned", "TTransportException"}
                              \/ k.outcome.kind = "SystemException"
                                   /\ k.outcome.value[1] # "file_does_not_exist"
    BY DEF ReadsAcked
  <1> DEFINE k == caller[c]
             o == k.outcome
             i == k.asked
             m == k.floor
  <1>1. Told(k) /\ m \in Int
    BY DEF FileInv, CallInv, Phase, Behind
  <1>2. o = TransportException \/ ReadAnswer(i, m, o)
    BY <1>1, ReadTold
  <1> HIDE DEF o, i, m
  <1>3. CASE o = TransportException
    <2>1. o.kind = "TTransportException"
      BY <1>3 DEF TransportException
    <2> QED  BY <2>1 DEF o, m
  <1>4. CASE o \in Refusals
    <2>1. o.kind = "SystemException" /\ o.value[1] # "file_does_not_exist"
      BY <1>4, RefusalSays
    <2> QED  BY <2>1 DEF o, m
  <1>5. CASE o \in {Thrown("file_does_not_exist"), OtherException} /\ m < 0
    <2>1. o.kind # "returned"
      BY <1>5 DEF Thrown, OtherException
    <2>2. ~(m >= 0)
      BY <1>1, <1>5
    <2> QED  BY <2>1, <2>2 DEF o, m
  <1>6. CASE o.kind = "returned" /\ IsRead(o.value[1], i, m)
    <2> DEFINE x == o.value[1]
               v == x.v.meta.v.version
    <2>1. IsFile(x, i, v) /\ v >= m
      BY <1>6 DEF IsRead
    <2>2. /\ FileId(x.v.meta.v.filename, x.v.meta.v.owner) = i
          /\ x.v.meta.v.contentHash = Hash(x.v.content)
      BY ONLY <2>1, FileSays
    <2> QED  BY <1>6, <2>1, <2>2 DEF o, i, m
  <1> QED  BY <1>2, <1>3, <1>4, <1>5, <1>6 DEF ReadAnswer

LEMMA ImpliesOutcomes ==
  ASSUME FileInv
  PROVE  OutcomeFaithful
  <1> SUFFICES ASSUME NEW c \in Callers, caller[c].at = "idle",
                      caller[c].outcome.kind # "TTransportException"
               PROVE  Tells(caller[c].outcome, caller[c].handled)
    BY DEF OutcomeFaithful, Tells
  <1> DEFINE k == caller[c]
  <1>1. Told(k)
    BY DEF FileInv, CallInv, Phase
  <1>2. k.outcome # TransportException
    BY DEF TransportException
  <1> HIDE DEF k
  <1>3. CASE k.outcome = k.handled
    BY <1>3, TellsItself DEF k
  <1>4. CASE Handled(k) /\ k.outcome = Received(k.fname, Answer(k.fname, k.handled))
    <2>1. Tells(Received(k.fname, Answer(k.fname, k.handled)), k.handled)
      BY <1>4, AnswerTold DEF Handled
    <2> QED  BY <1>4, <2>1 DEF k
  <1> QED  BY <1>1, <1>2, <1>3, <1>4 DEF Told

-----------------------------------------------------------------------------
(* The steps                                                               *)

\* A call is where it was when others step who do not have the mutex, or leave
\* it and the counts alone.
LEMMA CallKept ==
  ASSUME NEW d, NEW k, NEW t, NEW w, NEW h, NEW h2,
         NEW n \in [Ids -> Nat], NEW n2 \in [Ids -> Nat],
         CallInv(d, k, t, w, h, n),
         (h2 = h /\ n2 = n) \/ t.at \notin Critical,
         \A i \in Ids : n[i] <= n2[i]
  PROVE  CallInv(d, k, t, w, h2, n2)
  <1>1. Behind(k, n2)
    BY DEF CallInv, Behind
  <1>2. t.at \in Critical => h2 = d
    BY DEF CallInv
  <1>3. ASSUME Serves(t, k.asked, k.floor, n)
        PROVE  Serves(t, k.asked, k.floor, n2)
    <2>1. CASE n2 = n
      BY <1>3, <2>1
    <2>2. CASE t.at \notin Critical
      BY <1>3, <2>2 DEF Serves, Critical
    <2> QED  BY <2>1, <2>2
  <1>4. Phase(k, t, w, n2)
    BY <1>3 DEF CallInv, Phase
  <1> QED  BY <1>1, <1>2, <1>4 DEF CallInv

\* Only the call of c has changed: t, k, w are its thread, caller and message.
Only(c, t, k, w) ==
  /\ DOMAIN thread' = Callers /\ DOMAIN caller' = Callers /\ DOMAIN wire' = Callers
  /\ thread'[c] = t /\ caller'[c] = k /\ wire'[c] = w
  /\ \A d \in Callers \ {c} :
       thread'[d] = thread[d] /\ caller'[d] = caller[d] /\ wire'[d] = wire[d]

\* The calls after a step of c.
LEMMA CallsAfter ==
  ASSUME FileInv, NEW c \in Callers, NEW t, NEW k, NEW w, Only(c, t, k, w),
         (holder' = holder /\ writes' = writes) \/ holder \in {NoOne, c},
         writes' \in [Ids -> Nat], \A i \in Ids : writes[i] <= writes'[i],
         CallInv(c, k, t, w, holder', writes')
  PROVE  \A d \in Callers : CallInv(d, caller'[d], thread'[d], wire'[d], holder', writes')
  <1> SUFFICES ASSUME NEW d \in Callers, d # c
               PROVE  CallInv(d, caller'[d], thread'[d], wire'[d], holder', writes')
    BY DEF Only
  <1> DEFINE kk == caller[d]
             tt == thread[d]
             ww == wire[d]
  <1>1. caller'[d] = kk /\ thread'[d] = tt /\ wire'[d] = ww
    BY DEF Only
  <1>2. CallInv(d, kk, tt, ww, holder, writes)
    BY DEF FileInv
  <1>3. tt.at \in Critical => holder = d
    BY <1>2 DEF CallInv
  <1>4. (holder' = holder /\ writes' = writes) \/ tt.at \notin Critical
    BY <1>3, CallersAssumption
  <1>5. writes \in [Ids -> Nat]
    BY DEF FileInv, Shapes
  <1> DEFINE h == holder'
             n == writes'
  <1> HIDE DEF kk, tt, ww, h, n
  <1>6. n \in [Ids -> Nat] /\ (\A i \in Ids : writes[i] <= n[i])
         /\ ((h = holder /\ n = writes) \/ tt.at \notin Critical)
    BY <1>4 DEF h, n
  <1>7. CallInv(d, kk, tt, ww, h, n)
    BY ONLY <1>2, <1>5, <1>6, CallKept
  <1> QED  BY <1>1, <1>7 DEF h, n

\* A step of c that leaves the files alone and is not in the middle of a write.
LEMMA QuietStep ==
  ASSUME FileInv, NEW c \in Callers, NEW t, NEW k, NEW w, Only(c, t, k, w),
         holder' = holder \/ holder \in {NoOne, c},
         holder' \in Callers \cup {NoOne},
         thread[c].at \notin {"write_create", "write_data"},
         disk' = disk, writes' = writes,
         acked' \in [Ids -> Int], \A i \in Ids : acked'[i] < writes[i],
         CallInv(c, k, t, w, holder', writes)
  PROVE  FileInv'
  <1>1. Shapes'
    BY DEF FileInv, Shapes, Only
  <1>2. \A d \in Callers : CallInv(d, caller'[d], thread'[d], wire'[d], holder', writes')
    <2>1. writes' \in [Ids -> Nat] /\ \A i \in Ids : writes[i] <= writes'[i]
      BY DEF FileInv, Shapes
    <2>2. CallInv(c, k, t, w, holder', writes')
      OBVIOUS
    <2> QED  BY <2>1, <2>2, CallsAfter
  <1>3. ASSUME NEW i \in Ids
        PROVE  DiskInv(i, disk'[i], writes'[i], holder', thread')
    <2> DEFINE d == disk[i]
               n == writes[i]
    <2>1. DiskInv(i, d, n, holder, thread)
      BY DEF FileInv
    <2>2. n \in Nat
      BY DEF FileInv, Shapes
    <2>3. disk'[i] = d /\ writes'[i] = n
      OBVIOUS
    <2> HIDE DEF d, n
    <2>4. ASSUME holder \in Callers, thread[holder].at \in {"write_create", "write_data"},
                 thread[holder].id = i
          PROVE  /\ holder' \in Callers
                 /\ thread'[holder'].at \in {"write_create", "write_data"}
                 /\ thread'[holder'].id = i
      <3>1. holder # c
        BY <2>4
      <3>2. holder' = holder
        BY <2>4, <3>1, CallersAssumption
      <3> QED  BY <2>4, <3>1, <3>2 DEF Only
    <2>5. DiskInv(i, d, n, holder', thread')
      BY <2>1, <2>4 DEF DiskInv
    <2> QED  BY <2>3, <2>5
  <1> QED  BY <1>1, <1>2, <1>3 DEF FileInv

\* A thread that is not idle serves the call that its caller waits for.
LEMMA Serving ==
  ASSUME FileInv, NEW c \in Callers, thread[c].at # "idle"
  PROVE  /\ DOMAIN thread[c] = ThreadFields /\ DOMAIN caller[c] = CallerFields
         /\ caller[c].at = "waiting" /\ wire[c] = NoMessage
         /\ thread[c].fname = caller[c].fname
         /\ Serves(thread[c], caller[c].asked, caller[c].floor, writes)
         /\ thread[c].at \in Critical => holder = c
         /\ Behind(caller[c], writes)
  BY DEF FileInv, CallInv, Phase

\* The thread of c goes on with its call, and no other thread moves.
Moves(c) ==
  /\ DOMAIN thread' = Callers
  /\ \A d \in Callers \ {c} : thread'[d] = thread[d]
  /\ DOMAIN thread'[c] = ThreadFields
  /\ thread'[c].fname = thread[c].fname
  /\ thread'[c].id = thread[c].id

LEMMA GotoIs ==
  ASSUME FileInv, NEW c \in Callers, DOMAIN thread[c] = ThreadFields, NEW x, Goto(c, x)
  PROVE  /\ Moves(c)
         /\ thread'[c].at = x
         /\ thread'[c].file = thread[c].file
         /\ thread'[c].outcome = thread[c].outcome
  BY DEF FileInv, Shapes, Goto, Moves, ThreadFields

LEMMA EndIs ==
  ASSUME FileInv, NEW c \in Callers, DOMAIN thread[c] = ThreadFields, NEW x, NEW o,
         EndWith(c, x, o)
  PROVE  /\ Moves(c)
         /\ thread'[c].at = x
         /\ thread'[c].outcome = o
  BY DEF FileInv, Shapes, EndWith, Moves, ThreadFields

\* A step of a thread that serves a call and leaves the files alone.
LEMMA ServeStep ==
  ASSUME FileInv, NEW c \in Callers, thread[c].at # "idle",
         thread[c].at \notin {"write_create", "write_data"},
         Moves(c),
         Serves(thread'[c], caller[c].asked, caller[c].floor, writes),
         thread'[c].at \in Critical => holder' = c,
         holder' = holder \/ holder \in {NoOne, c},
         holder' \in Callers \cup {NoOne},
         UNCHANGED <<shared, disk, caller, writes>>
  PROVE  FileInv'
  <1> DEFINE t == thread'[c]
             k == caller[c]
             w == wire[c]
             h == holder'
  <1>1. /\ DOMAIN k = CallerFields
        /\ k.at = "waiting" /\ w = NoMessage
        /\ thread[c].fname = k.fname
        /\ Behind(k, writes)
    BY Serving
  <1>2. Only(c, t, k, w)
    BY DEF Only, Moves, FileInv, Shapes, shared
  <1>3. DOMAIN t = ThreadFields /\ t.fname = k.fname
    BY <1>1 DEF Moves
  <1>4. Serves(t, k.asked, k.floor, writes) /\ (t.at \in Critical => h = c)
    OBVIOUS
  <1> HIDE DEF t, k, w, h
  <1>5. CallInv(c, k, t, w, h, writes)
    BY <1>1, <1>3, <1>4 DEF CallInv, Phase
  <1>6. acked' \in [Ids -> Int] /\ (\A i \in Ids : acked'[i] < writes[i])
         /\ disk' = disk /\ writes' = writes
    BY DEF FileInv, Shapes, shared
  <1>7. CallInv(c, k, t, w, holder', writes)
    BY <1>5 DEF h
  <1> QED  BY <1>2, <1>6, <1>7, QuietStep

\* The outcomes of is_successor.
LEMMA Successor == is_successor \subseteq {"owner", "other", "unknown"}
  BY DEF is_successor

LEMMA Refused ==
  ASSUME NEW answer \in {"owner", "other", "unknown"}, answer # "owner"
  PROVE  Refusal(answer) \in Refusals
  BY DEF Refusals

LEMMA StepAssignPredecessor ==
  ASSUME FileInv, NEW c \in Callers, AssignPredecessor(c)
  PROVE  FileInv'
  <1>1. thread[c].at = "assign" /\ EndWith(c, "reply", ReturnedVoid)
        /\ UNCHANGED <<shared, holder, disk, caller, writes>>
    BY DEF AssignPredecessor
  <1>2. DOMAIN thread[c] = ThreadFields /\ Serves(thread[c], caller[c].asked, caller[c].floor, writes)
    BY <1>1, Serving
  <1>3. thread[c].fname = "setPredecessor"
    BY <1>1, <1>2 DEF Serves
  <1>4. Moves(c) /\ thread'[c].at = "reply" /\ thread'[c].outcome = ReturnedVoid
    BY <1>1, <1>2, EndIs
  <1>5. IsAnswerTo("setPredecessor", caller[c].asked, caller[c].floor, ReturnedVoid)
    BY DEF IsAnswerTo
  <1>6. Serves(thread'[c], caller[c].asked, caller[c].floor, writes)
    BY <1>3, <1>4, <1>5 DEF Serves, Moves
  <1>7. thread'[c].at \notin Critical
    BY <1>4 DEF Critical
  <1>8. holder \in Callers \cup {NoOne}
    BY DEF FileInv, Shapes
  <1> QED  BY <1>1, <1>4, <1>6, <1>7, <1>8, ServeStep

LEMMA StepReadCheck ==
  ASSUME FileInv, NEW c \in Callers, ReadCheck(c)
  PROVE  FileInv'
  <1>1. /\ thread[c].at = "dispatched" /\ thread[c].fname = "readFile"
        /\ UNCHANGED <<shared, holder, disk, caller, writes>>
    BY DEF ReadCheck
  <1>2. PICK answer \in {"owner", "other", "unknown"} :
          IF answer = "owner" THEN Goto(c, "read_lock") ELSE EndWith(c, "reply", Refusal(answer))
    BY Successor DEF ReadCheck
  <1>3. /\ DOMAIN thread[c] = ThreadFields
        /\ Serves(thread[c], caller[c].asked, caller[c].floor, writes)
    BY <1>1, Serving
  <1>4. thread[c].id = caller[c].asked
    BY <1>1, <1>3 DEF Serves
  <1>5. CASE answer = "owner"
    <2>1. Moves(c) /\ thread'[c].at = "read_lock"
      BY <1>2, <1>3, <1>5, GotoIs
    <2>2. Serves(thread'[c], caller[c].asked, caller[c].floor, writes)
      BY <1>1, <1>4, <2>1 DEF Serves, Moves
    <2>3. thread'[c].at \notin Critical
      BY <2>1 DEF Critical
    <2>4. holder \in Callers \cup {NoOne}
      BY DEF FileInv, Shapes
    <2> QED  BY <1>1, <2>1, <2>2, <2>3, <2>4, ServeStep
  <1>6. CASE answer # "owner"
    <2>1. Moves(c) /\ thread'[c].at = "reply" /\ thread'[c].outcome = Refusal(answer)
      BY <1>2, <1>3, <1>6, EndIs
    <2>2. Refusal(answer) \in Refusals
      BY <1>6, Refused
    <2>3. IsAnswerTo("readFile", caller[c].asked, caller[c].floor, Refusal(answer))
      BY <2>2 DEF IsAnswerTo, ReadAnswer
    <2>4. Serves(thread'[c], caller[c].asked, caller[c].floor, writes)
      BY <1>1, <2>1, <2>3 DEF Serves, Moves
    <2>5. thread'[c].at \notin Critical
      BY <2>1 DEF Critical
    <2>6. holder \in Callers \cup {NoOne}
      BY DEF FileInv, Shapes
    <2> QED  BY <1>1, <2>1, <2>4, <2>5, <2>6, ServeStep
  <1> QED  BY <1>5, <1>6

LEMMA StepReadLock ==
  ASSUME FileInv, NEW c \in Callers, ReadLock(c)
  PROVE  FileInv'
  <1>1. /\ thread[c].at = "read_lock" /\ holder \in {NoOne, c} /\ holder' = c
        /\ Goto(c, "read_file")
        /\ UNCHANGED <<shared, disk, caller, writes>>
    BY DEF ReadLock, CanLock
  <1>2. /\ DOMAIN thread[c] = ThreadFields
        /\ Serves(thread[c], caller[c].asked, caller[c].floor, writes)
    BY <1>1, Serving
  <1>3. thread[c].fname = "readFile" /\ thread[c].id = caller[c].asked
    BY <1>1, <1>2 DEF Serves
  <1>4. Moves(c) /\ thread'[c].at = "read_file"
    BY <1>1, <1>2, GotoIs
  <1>5. Serves(thread'[c], caller[c].asked, caller[c].floor, writes)
    BY <1>3, <1>4 DEF Serves, Moves
  <1> QED  BY <1>1, <1>4, <1>5, ServeStep

\* What a thread that is not itself writing the file finds on the disk.
LEMMA Found ==
  ASSUME FileInv, NEW i \in Ids, holder \in Callers => thread[holder].at \notin {"write_create", "write_data"}
  PROVE  \/ /\ disk[i].state = "whole" /\ writes[i] > 0
            /\ FileOutcome(i) = Returned(RFile_read(RFile0, disk[i].data))
            /\ IsFile(RFile_read(RFile0, disk[i].data), i, writes[i] - 1)
         \/ /\ disk[i] = Absent /\ writes[i] = 0
            /\ FileOutcome(i) = Thrown("file_does_not_exist")
         \/ /\ disk[i] = Torn /\ writes[i] = 0
            /\ FileOutcome(i) = OtherException
  <1>1. DiskInv(i, disk[i], writes[i], holder, thread) /\ writes[i] \in Nat
    BY DEF FileInv, Shapes
  <1>2. /\ "whole" # "absent" /\ "whole" # "torn" /\ "torn" # "absent"
        /\ Absent.state = "absent" /\ Torn.state = "torn"
    BY DEF Absent, Torn
  <1>3. CASE disk[i].state = "whole"
    <2>1. FileOutcome(i) = Returned(RFile_read(RFile0, disk[i].data))
      BY <1>2, <1>3, Zenon DEF FileOutcome
    <2> QED  BY <1>1, <1>2, <1>3, <2>1 DEF DiskInv
  <1>4. CASE disk[i].state # "whole"
    <2>1. disk[i] \in {Absent, Torn} /\ writes[i] = 0
      BY <1>1, <1>4 DEF DiskInv
    <2>2. CASE disk[i] = Absent
      <3>1. FileOutcome(i) = Thrown("file_does_not_exist")
        BY <1>2, <2>2, Zenon DEF FileOutcome
      <3> QED  BY <2>1, <2>2, <3>1
    <2>3. CASE disk[i] = Torn
      <3>1. FileOutcome(i) = OtherException
        BY <1>2, <2>3, Zenon DEF FileOutcome
      <3> QED  BY <2>1, <2>3, <3>1
    <2> QED  BY <2>1, <2>2, <2>3
  <1> QED  BY <1>3, <1>4

LEMMA StepReadFile ==
  ASSUME FileInv, NEW c \in Callers, ReadFile(c)
  PROVE  FileInv'
  <1> DEFINE i == caller[c].asked
             m == caller[c].floor
             o == FileOutcome(i)
  <1>1. /\ thread[c].at = "read_file" /\ EndWith(c, "unlock", FileOutcome(thread[c].id))
        /\ UNCHANGED <<shared, holder, disk, caller, writes>>
    BY DEF ReadFile
  <1>2. /\ DOMAIN thread[c] = ThreadFields
        /\ Serves(thread[c], i, m, writes)
        /\ thread[c].fname = caller[c].fname
        /\ thread[c].at \in Critical => holder = c
        /\ Behind(caller[c], writes)
    BY <1>1, Serving
  <1>3. holder = c /\ thread[c].fname = "readFile" /\ thread[c].id = i
    BY <1>1, <1>2 DEF Serves, Critical
  <1>4. i \in Ids /\ m \in Int /\ m < writes[i] /\ writes[i] \in Nat
    BY <1>2, <1>3 DEF Behind, FileCalls, FileInv, Shapes
  <1>5. Moves(c) /\ thread'[c].at = "unlock" /\ thread'[c].outcome = o
    BY <1>1, <1>2, <1>3, EndIs
  <1>6. \/ /\ writes[i] > 0
           /\ o = Returned(RFile_read(RFile0, disk[i].data))
           /\ IsFile(RFile_read(RFile0, disk[i].data), i, writes[i] - 1)
        \/ writes[i] = 0 /\ o = Thrown("file_does_not_exist")
        \/ writes[i] = 0 /\ o = OtherException
    BY <1>1, <1>3, <1>4, Found
  <1>7. ReadAnswer(i, m, o)
    <2>1. CASE writes[i] = 0 /\ (o = Thrown("file_does_not_exist") \/ o = OtherException)
      <3>1. m < 0
        BY <1>4, <2>1
      <3> QED  BY <2>1, <3>1 DEF ReadAnswer
    <2>2. CASE /\ writes[i] > 0
               /\ o = Returned(RFile_read(RFile0, disk[i].data))
               /\ IsFile(RFile_read(RFile0, disk[i].data), i, writes[i] - 1)
      <3> DEFINE x == RFile_read(RFile0, disk[i].data)
                 v == writes[i] - 1
      <3>1. v \in Nat /\ v >= m
        BY <1>4, <2>2
      <3>2. IsFile(x, i, v) /\ o = Returned(x)
        BY <2>2
      <3> HIDE DEF x, v, o, i, m
      <3>3. x.v.meta.v.version = v
        BY ONLY <3>2, FileSays
      <3>4. IsRead(x, i, m)
        BY <3>1, <3>2, <3>3 DEF IsRead
      <3>5. o.kind = "returned" /\ o.value # <<>> /\ o.value[1] = x
        BY <3>2, Outcomes
      <3> QED  BY <3>2, <3>4, <3>5 DEF ReadAnswer
    <2> QED  BY <1>6, <2>1, <2>2
  <1>8. Serves(thread'[c], i, m, writes)
    <2> HIDE DEF o, i, m
    <2> QED  BY <1>3, <1>5, <1>7 DEF Serves, Moves, IsAnswerTo
  <1>9. holder \in Callers \cup {NoOne}
    BY DEF FileInv, Shapes
  <1> QED  BY <1>1, <1>3, <1>5, <1>8, <1>9, ServeStep

LEMMA StepUnlock ==
  ASSUME FileInv, NEW c \in Callers, Unlock(c)
  PROVE  FileInv'
  <1>1. /\ thread[c].at = "unlock" /\ holder' = NoOne /\ Goto(c, "reply")
        /\ UNCHANGED <<shared, disk, caller, writes>>
    BY DEF Unlock
  <1>2. /\ DOMAIN thread[c] = ThreadFields
        /\ Serves(thread[c], caller[c].asked, caller[c].floor, writes)
        /\ thread[c].at \in Critical => holder = c
    BY <1>1, Serving
  <1>3. holder = c
    BY <1>1, <1>2 DEF Critical
  <1>4. Moves(c) /\ thread'[c].at = "reply" /\ thread'[c].outcome = thread[c].outcome
    BY <1>1, <1>2, GotoIs
  <1>5. Serves(thread'[c], caller[c].asked, caller[c].floor, writes)
    BY <1>1, <1>2, <1>4 DEF Serves, Moves
  <1>6. thread'[c].at \notin Critical
    BY <1>4 DEF Critical
  <1> QED  BY <1>1, <1>3, <1>4, <1>5, <1>6, ServeStep

LEMMA StepWriteCheck ==
  ASSUME FileInv, NEW c \in Callers, WriteCheck(c)
  PROVE  FileInv'
  <1> DEFINE i == caller[c].asked
             m == caller[c].floor
             f == WithVersion(WithHash(thread[c].file), 0)
  <1>1. /\ thread[c].at = "dispatched" /\ thread[c].fname = "writeFile"
        /\ UNCHANGED <<shared, holder, disk, caller, writes>>
    BY DEF WriteCheck
  <1>2. PICK answer \in {"owner", "other", "unknown"} :
          IF answer = "owner"
          THEN thread' = [thread EXCEPT ![c].at = "write_lock", ![c].file = f]
          ELSE EndWith(c, "reply", Refusal(answer))
    BY Successor DEF WriteCheck
  <1>3. DOMAIN thread[c] = ThreadFields /\ Serves(thread[c], i, m, writes)
    BY <1>1, Serving
  <1>4. thread[c].id = i /\ IsGiven(thread[c].file, i)
    BY <1>1, <1>3 DEF Serves
  <1>5. IsFile(f, i, 0)
    BY <1>4, Stamped
  <1>6. holder \in Callers \cup {NoOne}
    BY DEF FileInv, Shapes
  <1> HIDE DEF f
  <1>7. CASE answer = "owner"
    <2>1. thread' = [thread EXCEPT ![c].at = "write_lock", ![c].file = f]
      BY <1>2, <1>7
    <2>2. Moves(c) /\ thread'[c].at = "write_lock" /\ thread'[c].file = f
      BY <1>3, <2>1 DEF FileInv, Shapes, Moves, ThreadFields
    <2>3. Serves(thread'[c], i, m, writes)
      BY <1>1, <1>4, <1>5, <2>2 DEF Serves, Moves
    <2>4. thread'[c].at \notin Critical
      BY <2>2 DEF Critical
    <2> QED  BY <1>1, <1>6, <2>2, <2>3, <2>4, ServeStep
  <1>8. CASE answer # "owner"
    <2>1. Moves(c) /\ thread'[c].at = "reply" /\ thread'[c].outcome = Refusal(answer)
      BY <1>2, <1>3, <1>8, EndIs
    <2>2. Refusal(answer) \in Refusals
      BY <1>8, Refused
    <2>3. IsAnswerTo("writeFile", i, m, Refusal(answer))
      BY <2>2 DEF IsAnswerTo, WriteAnswer
    <2>4. Serves(thread'[c], i, m, writes)
      BY <1>1, <2>1, <2>3 DEF Serves, Moves
    <2>5. thread'[c].at \notin Critical
      BY <2>1 DEF Critical
    <2> QED  BY <1>1, <1>6, <2>1, <2>4, <2>5, ServeStep
  <1> QED  BY <1>7, <1>8

LEMMA StepWriteLock ==
  ASSUME FileInv, NEW c \in Callers, WriteLock(c)
  PROVE  FileInv'
  <1> DEFINE i == caller[c].asked
             m == caller[c].floor
             at == IF disk[i] = Absent THEN "write_create" ELSE "write_old"
  <1>1. /\ thread[c].at = "write_lock" /\ holder \in {NoOne, c} /\ holder' = c
        /\ Goto(c, IF disk[thread[c].id] = Absent THEN "write_create" ELSE "write_old")
        /\ UNCHANGED <<shared, disk, caller, writes>>
    BY DEF WriteLock, CanLock
  <1>2. /\ DOMAIN thread[c] = ThreadFields
        /\ Serves(thread[c], i, m, writes)
        /\ thread[c].fname = caller[c].fname
        /\ Behind(caller[c], writes)
    BY <1>1, Serving
  <1>3. thread[c].fname = "writeFile" /\ thread[c].id = i /\ IsFile(thread[c].file, i, 0)
    BY <1>1, <1>2 DEF Serves
  <1>4. i \in Ids
    BY <1>2, <1>3 DEF Behind, FileCalls
  <1>5. Moves(c) /\ thread'[c].at = at /\ thread'[c].file = thread[c].file
    BY <1>1, <1>2, <1>3, GotoIs
  <1>6. holder \in Callers => thread[holder].at \notin {"write_create", "write_data"}
    BY <1>1, CallersAssumption
  <1>7. disk[i] = Absent => writes[i] = 0
    <2>1. "whole" # "absent" /\ Absent.state = "absent" /\ Torn.state = "torn" /\ "torn" # "absent"
      BY DEF Absent, Torn
    <2> QED  BY <1>4, <1>6, <2>1, Found
  <1>8. Serves(thread'[c], i, m, writes)
    <2>1. CASE disk[i] = Absent
      <3>1. thread'[c].at = "write_create" /\ writes[i] = 0
        BY <1>5, <1>7, <2>1
      <3> QED  BY <1>3, <1>5, <3>1 DEF Serves, Moves
    <2>2. CASE disk[i] # Absent
      <3>1. thread'[c].at = "write_old"
        BY <1>5, <2>2
      <3> QED  BY <1>3, <1>5, <3>1 DEF Serves, Moves
    <2> QED  BY <2>1, <2>2
  <1> QED  BY <1>1, <1>5, <1>8, ServeStep

LEMMA StepWriteOld ==
  ASSUME FileInv, NEW c \in Callers, WriteOld(c)
  PROVE  FileInv'
  <1> DEFINE i == caller[c].asked
             m == caller[c].floor
             old == FileOutcome(i)
             f(v) == WithVersion(thread[c].file, v)
  <1>1. thread[c].at = "write_old" /\ UNCHANGED <<shared, holder, disk, caller, writes>>
    BY DEF WriteOld
  <1>2. /\ DOMAIN thread[c] = ThreadFields
        /\ Serves(thread[c], i, m, writes)
        /\ thread[c].fname = caller[c].fname
        /\ thread[c].at \in Critical => holder = c
        /\ Behind(caller[c], writes)
    BY <1>1, Serving
  <1>3. /\ thread[c].fname = "writeFile" /\ thread[c].id = i
        /\ IsFile(thread[c].file, i, 0) /\ holder = c
    BY <1>1, <1>2 DEF Serves, Critical
  <1>4. i \in Ids
    BY <1>2, <1>3 DEF Behind, FileCalls
  <1>5. PICK answer \in {"owner", "other", "unknown"} :
          CASE answer # "owner" -> EndWith(c, "unlock", Refusal(answer))
            [] old.kind = "returned" ->
                 thread' = [thread EXCEPT
                   ![c].at = "write_remove",
                   ![c].file = f(old.value[1].v.meta.v.version + 1)]
            [] OTHER -> EndWith(c, "unlock", old)
    BY <1>3, Successor, Zenon DEF WriteOld
  <1>6. \/ answer # "owner" /\ EndWith(c, "unlock", Refusal(answer))
        \/ /\ old.kind = "returned"
           /\ thread' = [thread EXCEPT
                ![c].at = "write_remove",
                ![c].file = f(old.value[1].v.meta.v.version + 1)]
        \/ old.kind # "returned" /\ EndWith(c, "unlock", old)
    BY <1>5, Zenon
  <1>7. \/ /\ writes[i] > 0
           /\ old = Returned(RFile_read(RFile0, disk[i].data))
           /\ IsFile(RFile_read(RFile0, disk[i].data), i, writes[i] - 1)
        \/ writes[i] = 0 /\ old = Thrown("file_does_not_exist")
        \/ writes[i] = 0 /\ old = OtherException
    BY <1>1, <1>3, <1>4, Found
  <1>8. holder \in Callers \cup {NoOne}
    BY DEF FileInv, Shapes
  <1>9. ASSUME NEW o, WriteAnswer(o), EndWith(c, "unlock", o)
        PROVE  FileInv'
    <2>1. Moves(c) /\ thread'[c].at = "unlock" /\ thread'[c].outcome = o
      BY <1>2, <1>9, EndIs
    <2>2. IsAnswerTo("writeFile", i, m, o)
      BY <1>9 DEF IsAnswerTo
    <2>3. Serves(thread'[c], i, m, writes)
      BY <1>3, <2>1, <2>2 DEF Serves, Moves
    <2> QED  BY <1>1, <1>3, <1>8, <2>1, <2>3, ServeStep
  <1> HIDE DEF old, f
  <1>10. CASE answer # "owner" /\ EndWith(c, "unlock", Refusal(answer))
    <2>1. WriteAnswer(Refusal(answer))
      BY <1>10, Refused DEF WriteAnswer
    <2> QED  BY <1>9, <1>10, <2>1
  <1>11. CASE old.kind # "returned" /\ EndWith(c, "unlock", old)
    <2>1. old = Thrown("file_does_not_exist") \/ old = OtherException
      BY <1>7, <1>11, Outcomes
    <2>2. WriteAnswer(old)
      BY <2>1 DEF WriteAnswer
    <2> QED  BY <1>9, <1>11, <2>2
  <1>12. CASE /\ old.kind = "returned"
              /\ thread' = [thread EXCEPT
                   ![c].at = "write_remove",
                   ![c].file = f(old.value[1].v.meta.v.version + 1)]
    <2> DEFINE x == RFile_read(RFile0, disk[i].data)
               v == writes[i] - 1
               g == f(old.value[1].v.meta.v.version + 1)
    <2>1. old = Returned(x) /\ IsFile(x, i, v)
      BY <1>7, <1>12 DEF Thrown, OtherException
    <2>2. old.value[1] = x
      BY <2>1, Outcomes
    <2>3. x.v.meta.v.version = v
      BY <2>1, FileSays
    <2>4. v + 1 = writes[i]
      BY <1>4 DEF FileInv, Shapes
    <2>5. g = f(writes[i])
      BY <2>2, <2>3, <2>4
    <2>6. IsFile(f(writes[i]), i, writes[i])
      BY <1>3, Versioned DEF f
    <2>7. IsFile(g, i, writes[i])
      BY <2>5, <2>6
    <2> HIDE DEF x, v, g
    <2>8. thread' = [thread EXCEPT ![c].at = "write_remove", ![c].file = g]
      BY <1>12 DEF g
    <2>9. Moves(c) /\ thread'[c].at = "write_remove" /\ thread'[c].file = g
      BY <1>2, <2>8 DEF FileInv, Shapes, Moves, ThreadFields
    <2>10. Serves(thread'[c], i, m, writes)
      BY <1>3, <2>7, <2>9 DEF Serves, Moves
    <2> QED  BY <1>1, <1>3, <1>8, <2>9, <2>10, ServeStep
  <1> QED  BY <1>6, <1>10, <1>11, <1>12

\* A step of the thread that writes: it changes its file on the disk to d and
\* goes on, or has written it once more.
LEMMA WritingStep ==
  ASSUME FileInv, NEW c \in Callers,
         thread[c].at \in {"write_remove", "write_create", "write_data"},
         NEW d, disk' = [disk EXCEPT ![thread[c].id] = d],
         Moves(c), UNCHANGED <<shared, holder>>,
         DOMAIN caller' = Callers, \A b \in Callers \ {c} : caller'[b] = caller[b],
         writes' \in [Ids -> Nat], \A i \in Ids : writes[i] <= writes'[i],
         \A i \in Ids \ {thread[c].id} : writes'[i] = writes[i],
         CallInv(c, caller'[c], thread'[c], wire[c], c, writes'),
         DiskInv(thread[c].id, d, writes'[thread[c].id], c, thread')
  PROVE  FileInv'
  <1> DEFINE j == thread[c].id
             h == holder
  <1>1. /\ Serves(thread[c], caller[c].asked, caller[c].floor, writes)
        /\ thread[c].fname = caller[c].fname
        /\ thread[c].at \in Critical => holder = c
        /\ Behind(caller[c], writes)
    BY Serving
  <1>2. thread[c].fname = "writeFile" /\ j = caller[c].asked /\ holder = c
    BY <1>1 DEF Serves, Critical
  <1>3. j \in Ids
    BY <1>1, <1>2 DEF Behind, FileCalls
  <1>4. Shapes'
    <2>1. /\ holder' \in Callers \cup {NoOne} /\ DOMAIN thread' = Callers
          /\ DOMAIN wire' = Callers /\ DOMAIN disk' = Ids
      BY DEF FileInv, Shapes, Moves, shared
    <2>2. acked' = acked /\ acked \in [Ids -> Int] /\ writes \in [Ids -> Nat]
      BY DEF FileInv, Shapes, shared
    <2>3. ASSUME NEW i \in Ids PROVE acked'[i] < writes'[i]
      <3>1. acked[i] < writes[i] /\ writes[i] <= writes'[i]
        BY DEF FileInv, Shapes
      <3>2. acked[i] \in Int /\ writes[i] \in Nat /\ writes'[i] \in Nat
        BY <2>2
      <3> QED  BY <2>2, <3>1, <3>2
    <2> QED  BY <2>1, <2>2, <2>3 DEF Shapes
  <1>5. \A b \in Callers : CallInv(b, caller'[b], thread'[b], wire'[b], holder', writes')
    <2>1. Only(c, thread'[c], caller'[c], wire[c])
      BY DEF Only, Moves, shared, FileInv, Shapes
    <2>2. holder' = c /\ holder \in {NoOne, c}
      BY <1>2
    <2>3. CallInv(c, caller'[c], thread'[c], wire[c], holder', writes')
      BY <2>2
    <2> QED  BY <2>1, <2>2, <2>3, CallsAfter
  <1>6. ASSUME NEW i \in Ids
        PROVE  DiskInv(i, disk'[i], writes'[i], holder', thread')
    <2>1. CASE i = j
      <3>1. disk'[i] = d
        BY <1>3, <2>1 DEF FileInv, Shapes
      <3> QED  BY <1>2, <2>1, <3>1
    <2>2. CASE i # j
      <3>1. disk'[i] = disk[i] /\ writes'[i] = writes[i]
        BY <2>2 DEF FileInv, Shapes
      <3>2. DiskInv(i, disk[i], writes[i], holder, thread)
        BY DEF FileInv
      <3>3. DiskInv(i, disk[i], writes[i], holder, thread')
        BY <1>2, <2>2, <3>2 DEF DiskInv
      <3> QED  BY <3>1, <3>3
    <2> QED  BY <2>1, <2>2
  <1> QED  BY <1>4, <1>5, <1>6 DEF FileInv

\* A thread in the middle of a write goes on to the position at.
LEMMA WriterGoes ==
  ASSUME FileInv, NEW c \in Callers,
         thread[c].at \in {"write_remove", "write_create"},
         NEW at \in {"write_create", "write_data"}, Goto(c, at),
         NEW d \in {Absent, Torn}, disk' = [disk EXCEPT ![thread[c].id] = d],
         UNCHANGED <<shared, holder, caller, writes>>
  PROVE  FileInv'
  <1> DEFINE k == caller[c]
             t == thread'[c]
             i == k.asked
  <1>1. /\ DOMAIN thread[c] = ThreadFields /\ DOMAIN k = CallerFields
        /\ k.at = "waiting" /\ wire[c] = NoMessage
        /\ Serves(thread[c], i, k.floor, writes)
        /\ thread[c].fname = k.fname
        /\ Behind(k, writes)
    BY Serving
  <1>2. thread[c].fname = "writeFile" /\ thread[c].id = i /\ IsFile(thread[c].file, i, writes[i])
    BY <1>1 DEF Serves
  <1>3. Moves(c) /\ t.at = at /\ t.file = thread[c].file
    BY <1>1, GotoIs
  <1>4. Serves(t, i, k.floor, writes) /\ DOMAIN t = ThreadFields /\ t.fname = k.fname
    BY <1>1, <1>2, <1>3 DEF Serves, Moves
  <1>5. CallInv(c, k, t, wire[c], c, writes)
    BY <1>1, <1>4 DEF CallInv, Phase
  <1>6. DiskInv(i, d, writes[i], c, thread')
    BY <1>2, <1>3 DEF DiskInv, Moves
  <1>7. writes' \in [Ids -> Nat] /\ (\A j \in Ids : writes[j] <= writes'[j])
         /\ DOMAIN caller' = Callers
    BY DEF FileInv, Shapes
  <1>8. CallInv(c, caller'[c], thread'[c], wire[c], c, writes')
    BY <1>5
  <1>9. DiskInv(thread[c].id, d, writes'[thread[c].id], c, thread')
    BY <1>2, <1>6
  <1> QED  BY <1>3, <1>7, <1>8, <1>9, WritingStep

LEMMA StepWriteRemove ==
  ASSUME FileInv, NEW c \in Callers, WriteRemove(c)
  PROVE  FileInv'
  BY WriterGoes DEF WriteRemove

LEMMA StepWriteCreate ==
  ASSUME FileInv, NEW c \in Callers, WriteCreate(c)
  PROVE  FileInv'
  BY WriterGoes DEF WriteCreate

LEMMA StepWriteData ==
  ASSUME FileInv, NEW c \in Callers, WriteData(c)
  PROVE  FileInv'
  <1> DEFINE k == caller[c]
             k2 == caller'[c]
             t == thread[c]
             t2 == thread'[c]
             i == k.asked
             n == writes[i]
             data == RFile_write(t.file)
  <1>1. /\ t.at = "write_data" /\ disk' = [disk EXCEPT ![t.id] = Whole(data)]
        /\ EndWith(c, "unlock", ReturnedVoid)
        /\ caller' = [caller EXCEPT ![c].version = t.file.v.meta.v.version]
        /\ writes' = [writes EXCEPT ![t.id] = @ + 1]
        /\ UNCHANGED <<shared, holder>>
    BY DEF WriteData
  <1>2. /\ DOMAIN t = ThreadFields /\ DOMAIN k = CallerFields
        /\ k.at = "waiting" /\ wire[c] = NoMessage
        /\ Serves(t, i, k.floor, writes)
        /\ t.fname = k.fname
        /\ Behind(k, writes)
    BY <1>1, Serving
  <1>3. t.fname = "writeFile" /\ t.id = i /\ IsFile(t.file, i, n)
    BY <1>1, <1>2 DEF Serves
  <1>4. i \in Ids /\ n \in Nat /\ writes \in [Ids -> Nat] /\ DOMAIN caller = Callers
    BY <1>2, <1>3 DEF Behind, FileCalls, FileInv, Shapes
  <1>5. /\ writes' \in [Ids -> Nat] /\ (\A j \in Ids : writes[j] <= writes'[j])
        /\ writes'[i] = n + 1 /\ (\A j \in Ids \ {i} : writes'[j] = writes[j])
    BY <1>1, <1>3, <1>4
  <1>6. Moves(c) /\ t2.at = "unlock" /\ t2.outcome = ReturnedVoid
    BY <1>1, <1>2, EndIs
  <1>7. t.file.v.meta.v.version = n
    BY <1>3, FileSays
  <1>8. /\ DOMAIN k2 = CallerFields /\ k2.version = n
        /\ k2.at = k.at /\ k2.fname = k.fname /\ k2.asked = k.asked /\ k2.floor = k.floor
        /\ DOMAIN caller' = Callers /\ \A b \in Callers \ {c} : caller'[b] = caller[b]
    BY <1>1, <1>2, <1>4, <1>7 DEF CallerFields
  <1>9. CallInv(c, k2, t2, wire[c], c, writes')
    <2>1. Behind(k2, writes')
      BY <1>2, <1>4, <1>5, <1>8 DEF Behind
    <2>2. IsAnswerTo("writeFile", i, k2.floor, ReturnedVoid)
      BY DEF IsAnswerTo, WriteAnswer
    <2>3. Serves(t2, k2.asked, k2.floor, writes') /\ DOMAIN t2 = ThreadFields /\ t2.fname = k2.fname
      BY <1>2, <1>3, <1>6, <1>8, <2>2 DEF Serves, Moves
    <2> QED  BY <1>2, <1>8, <2>1, <2>3 DEF CallInv, Phase
  <1>10. DiskInv(i, Whole(data), writes'[i], c, thread')
    <2>1. RFile_read(RFile0, data) = t.file /\ data.meta.version = n
      BY <1>3, FileKept
    <2>2. Whole(data).state = "whole" /\ Whole(data).data = data
      BY DEF Whole
    <2>3. writes'[i] > 0 /\ writes'[i] - 1 = n
      BY <1>4, <1>5
    <2> QED  BY <1>3, <2>1, <2>2, <2>3 DEF DiskInv
  <1>11. DiskInv(thread[c].id, Whole(data), writes'[thread[c].id], c, thread')
    BY <1>3, <1>10
  <1> QED  BY <1>1, <1>3, <1>5, <1>6, <1>8, <1>9, <1>11, WritingStep

LEMMA IdleIs ==
  /\ DOMAIN IdleThread = ThreadFields /\ IdleThread.at = "idle"
  /\ "idle" \notin Critical
  BY DEF IdleThread, ThreadFields, Critical

\* The reply is on its way to the caller.
LEMMA StepFinish ==
  ASSUME FileInv, NEW c \in Callers, Finish(c)
  PROVE  FileInv'
  <1> DEFINE k == caller[c]
             k2 == caller'[c]
             t == thread[c]
             w == Answer(t.fname, t.outcome)
  <1>1. /\ t.at = "reply" /\ wire' = [wire EXCEPT ![c] = w]
        /\ thread' = [thread EXCEPT ![c] = IdleThread]
        /\ caller' = [caller EXCEPT ![c].handled = t.outcome]
        /\ UNCHANGED <<holder, disk, writes, acked>>
    BY DEF Finish
  <1>2. /\ DOMAIN k = CallerFields
        /\ k.at = "waiting"
        /\ Serves(t, k.asked, k.floor, writes)
        /\ t.fname = k.fname
        /\ Behind(k, writes)
    BY <1>1, Serving
  <1>3. IsAnswerTo(t.fname, k.asked, k.floor, t.outcome)
    BY <1>1, <1>2 DEF Serves
  <1>4. /\ DOMAIN k2 = CallerFields /\ k2.handled = t.outcome /\ k2.version = k.version
        /\ k2.at = k.at /\ k2.fname = k.fname /\ k2.asked = k.asked /\ k2.floor = k.floor
    BY <1>1, <1>2 DEF CallerFields, FileInv, Shapes
  <1>5. Only(c, IdleThread, k2, w)
    BY <1>1 DEF Only, FileInv, Shapes
  <1>6. Behind(k2, writes)
    BY <1>2, <1>4 DEF Behind
  <1>7. Handled(k2) /\ w = Answer(k2.fname, k2.handled)
    BY <1>2, <1>3, <1>4 DEF Handled
  <1> HIDE DEF w
  <1>8. CallInv(c, k2, IdleThread, w, holder, writes)
    BY <1>2, <1>4, <1>6, <1>7, IdleIs DEF CallInv, Phase
  <1>9. holder' = holder /\ holder' \in Callers \cup {NoOne}
         /\ disk' = disk /\ writes' = writes
         /\ acked' \in [Ids -> Int] /\ \A i \in Ids : acked'[i] < writes[i]
    BY <1>1 DEF FileInv, Shapes
  <1>10. CallInv(c, k2, IdleThread, w, holder', writes)
    BY <1>8, <1>9
  <1>11. thread[c].at \notin {"write_create", "write_data"}
    BY <1>1
  <1> QED  BY <1>5, <1>9, <1>10, <1>11, QuietStep

\* A call on its way is that of a caller who waits.
LEMMA Answering ==
  ASSUME NEW fname, NEW o
  PROVE  Answer(fname, o).mtype \in {"T_REPLY", "T_EXCEPTION"}
  BY DEF Answer, Reply, Exception

LEMMA Calling ==
  ASSUME FileInv, NEW c \in Callers, wire[c].mtype = "T_CALL"
  PROVE  /\ DOMAIN caller[c] = CallerFields
         /\ caller[c].at = "waiting" /\ thread[c].at = "idle"
         /\ IsCall(caller[c].fname, caller[c].asked, wire[c])
         /\ Behind(caller[c], writes)
  <1> DEFINE k == caller[c]
             w == wire[c]
             t == thread[c]
  <1>1. DOMAIN k = CallerFields /\ Behind(k, writes) /\ Phase(k, t, w, writes)
    BY DEF FileInv, CallInv
  <1>2. w # NoMessage
    <2>1. NoMessage.mtype = "none"
      BY DEF NoMessage
    <2> QED  BY <2>1
  <1>3. w # Answer(k.fname, k.handled)
    BY Answering
  <1> HIDE DEF k, w, t
  <1>4. k.at = "waiting" /\ t.at = "idle" /\ IsCall(k.fname, k.asked, w)
    BY <1>1, <1>2, <1>3 DEF Phase
  <1> QED  BY <1>1, <1>4 DEF k, w, t

\* dispatchCall, for a thread that serves the call.
LEMMA StepDispatch ==
  ASSUME FileInv, NEW c \in Callers, NEW fname, NEW t, Dispatch(c, fname, t),
         t.fname = fname, DOMAIN t = ThreadFields, t.at \notin Critical,
         IsCall(fname, caller[c].asked, wire[c]) => Serves(t, caller[c].asked, caller[c].floor, writes)
  PROVE  FileInv'
  <1> DEFINE k == caller[c]
  <1>1. /\ wire[c].mtype = "T_CALL" /\ wire[c].fname = fname
        /\ wire' = [wire EXCEPT ![c] = NoMessage]
        /\ thread' = [thread EXCEPT ![c] = t]
        /\ UNCHANGED <<holder, disk, caller, writes, acked>>
    BY DEF Dispatch
  <1>2. /\ DOMAIN k = CallerFields
        /\ k.at = "waiting" /\ thread[c].at = "idle"
        /\ IsCall(k.fname, k.asked, wire[c])
        /\ Behind(k, writes)
    BY <1>1, Calling
  <1>3. k.fname = fname
    BY <1>1, <1>2 DEF IsCall
  <1>4. Serves(t, k.asked, k.floor, writes)
    BY <1>2, <1>3
  <1>5. Only(c, t, k, NoMessage)
    BY <1>1 DEF Only, FileInv, Shapes
  <1>6. holder' = holder /\ holder' \in Callers \cup {NoOne}
         /\ disk' = disk /\ writes' = writes
         /\ acked' \in [Ids -> Int] /\ \A i \in Ids : acked'[i] < writes[i]
    BY <1>1 DEF FileInv, Shapes
  <1>7. CallInv(c, k, t, NoMessage, holder', writes)
    BY <1>2, <1>3, <1>4 DEF CallInv, Phase
  <1>8. thread[c].at \notin {"write_create", "write_data"}
    BY <1>2
  <1> QED  BY <1>5, <1>6, <1>7, <1>8, QuietStep

\* The threads that process_X starts.
LEMMA StartedIs ==
  ASSUME NEW fname, NEW o
  PROVE  /\ DOMAIN Started(fname) = ThreadFields
         /\ Started(fname).at = "dispatched" /\ Started(fname).fname = fname
         /\ DOMAIN Ended(fname, o) = ThreadFields
         /\ Ended(fname, o).at = "reply" /\ Ended(fname, o).fname = fname
         /\ Ended(fname, o).outcome = o
         /\ {"dispatched", "reply", "assign"} \cap Critical = {}
  <1>1. DOMAIN Started(fname) = ThreadFields
    BY DEF Started, IdleThread, ThreadFields
  <1>2. Started(fname).at = "dispatched" /\ Started(fname).fname = fname
    BY DEF Started, IdleThread
  <1>3. DOMAIN Ended(fname, o) = ThreadFields
    BY DEF Ended, IdleThread, ThreadFields
  <1>4. /\ Ended(fname, o).at = "reply" /\ Ended(fname, o).fname = fname
        /\ Ended(fname, o).outcome = o
    BY DEF Ended, IdleThread
  <1>5. {"dispatched", "reply", "assign"} \cap Critical = {}
    BY DEF Critical
  <1> QED  BY <1>1, <1>2, <1>3, <1>4, <1>5

\* A method of the ring ends at once with what it may answer.
LEMMA RingEnds ==
  ASSUME FileInv, NEW c \in Callers, NEW fname, NEW o, Dispatch(c, fname, Ended(fname, o)),
         \A i, floor : IsAnswerTo(fname, i, floor, o)
  PROVE  FileInv'
  <1> DEFINE t == Ended(fname, o)
  <1>1. /\ DOMAIN t = ThreadFields /\ t.at = "reply" /\ t.fname = fname /\ t.outcome = o
        /\ t.at \notin Critical
    BY StartedIs
  <1> HIDE DEF t
  <1>2. Serves(t, caller[c].asked, caller[c].floor, writes)
    BY <1>1 DEF Serves
  <1>3. Dispatch(c, fname, t)
    BY DEF t
  <1> QED  BY <1>1, <1>2, <1>3, StepDispatch

LEMMA StepProcessRing ==
  ASSUME FileInv, NEW c \in Callers,
         \/ process_setFingertable(c) \/ process_findSucc(c)
         \/ process_findPred(c) \/ process_getNodeSucc(c)
  PROVE  FileInv'
  <1>1. CASE process_setFingertable(c)
    <2>1. PICK o \in {ReturnedVoid, OtherException} :
            Dispatch(c, "setFingertable", Ended("setFingertable", o))
      BY <1>1 DEF process_setFingertable
    <2>2. \A i, floor : IsAnswerTo("setFingertable", i, floor, o)
      BY DEF IsAnswerTo
    <2> QED  BY <2>1, <2>2, RingEnds
  <1>2. CASE process_findSucc(c)
    <2>1. PICK o \in LookupOutcomes : Dispatch(c, "findSucc", Ended("findSucc", o))
      BY <1>2 DEF process_findSucc
    <2>2. \A i, floor : IsAnswerTo("findSucc", i, floor, o)
      BY DEF IsAnswerTo
    <2> QED  BY <2>1, <2>2, RingEnds
  <1>3. CASE process_findPred(c)
    <2>1. PICK o \in LookupOutcomes : Dispatch(c, "findPred", Ended("findPred", o))
      BY <1>3 DEF process_findPred
    <2>2. \A i, floor : IsAnswerTo("findPred", i, floor, o)
      BY DEF IsAnswerTo
    <2> QED  BY <2>1, <2>2, RingEnds
  <1>4. CASE process_getNodeSucc(c)
    <2>1. PICK o \in LookupOutcomes : Dispatch(c, "getNodeSucc", Ended("getNodeSucc", o))
      BY <1>4 DEF process_getNodeSucc
    <2>2. \A i, floor : IsAnswerTo("getNodeSucc", i, floor, o)
      BY DEF IsAnswerTo
    <2> QED  BY <2>1, <2>2, RingEnds
  <1> QED  BY <1>1, <1>2, <1>3, <1>4

LEMMA StepProcessFile ==
  ASSUME FileInv, NEW c \in Callers,
         \/ process_writeFile(c) \/ process_readFile(c) \/ process_setPredecessor(c)
  PROVE  FileInv'
  <1> DEFINE i == caller[c].asked
             m == caller[c].floor
  <1>1. CASE process_writeFile(c)
    <2> DEFINE file == ReadFields(writeFile_args, wire[c].body).rFile
               id == FileId(file.v.meta.v.filename, file.v.meta.v.owner)
               t == [Started("writeFile") EXCEPT !.file = file, !.id = id]
    <2>1. Dispatch(c, "writeFile", t)
      BY <1>1 DEF process_writeFile
    <2>2. IsCall("writeFile", i, wire[c]) => IsGiven(file, i)
      BY DEF IsCall, RingCalls
    <2>3. IsGiven(file, i) => id = i
      BY GivenId
    <2> HIDE DEF file, id
    <2>4. /\ DOMAIN t = ThreadFields /\ t.at = "dispatched" /\ t.fname = "writeFile"
          /\ t.file = file /\ t.id = id
      BY StartedIs DEF ThreadFields
    <2>5. t.at \notin Critical
      BY <2>4, StartedIs
    <2> HIDE DEF t, i, m
    <2>6. IsCall("writeFile", i, wire[c]) => Serves(t, i, m, writes)
      BY <2>2, <2>3, <2>4 DEF Serves
    <2> QED  BY <2>1, <2>4, <2>5, <2>6, StepDispatch DEF i, m
  <1>2. CASE process_readFile(c)
    <2> DEFINE args == ReadFields(readFile_args, wire[c].body)
               id == FileId(args.filename, args.owner)
               t == [Started("readFile") EXCEPT !.id = id]
    <2>1. Dispatch(c, "readFile", t)
      BY <1>2 DEF process_readFile
    <2>2. IsCall("readFile", i, wire[c]) => id = i
      BY DEF IsCall, RingCalls
    <2> HIDE DEF args, id
    <2>3. /\ DOMAIN t = ThreadFields /\ t.at = "dispatched" /\ t.fname = "readFile"
          /\ t.id = id
      BY StartedIs DEF ThreadFields
    <2>4. t.at \notin Critical
      BY <2>3, StartedIs
    <2> HIDE DEF t, i, m
    <2>5. IsCall("readFile", i, wire[c]) => Serves(t, i, m, writes)
      BY <2>2, <2>3 DEF Serves
    <2> QED  BY <2>1, <2>3, <2>4, <2>5, StepDispatch DEF i, m
  <1>3. CASE process_setPredecessor(c)
    <2> DEFINE node == ReadFields(setPredecessor_args, wire[c].body).node
               x == node.v.id
               t == [Started("setPredecessor") EXCEPT !.at = "assign", !.node = x]
    <2>1. Dispatch(c, "setPredecessor", t)
      BY <1>3 DEF process_setPredecessor
    <2> HIDE DEF node, x
    <2>2. /\ DOMAIN t = ThreadFields /\ t.at = "assign" /\ t.fname = "setPredecessor"
      BY StartedIs DEF ThreadFields
    <2>3. t.at \notin Critical
      BY <2>2, StartedIs
    <2> HIDE DEF t, i, m
    <2>4. Serves(t, i, m, writes)
      BY <2>2 DEF Serves
    <2> QED  BY <2>1, <2>2, <2>3, <2>4, StepDispatch DEF i, m
  <1> QED  BY <1>1, <1>2, <1>3

LEMMA IdleCallerIs ==
  /\ DOMAIN IdleCaller = CallerFields
  /\ IdleCaller.at = "idle" /\ IdleCaller.fname = "" /\ IdleCaller.asked = <<>>
  /\ IdleCaller.outcome = ReturnedVoid /\ IdleCaller.handled = ReturnedVoid
  /\ IdleCaller.version = -1 /\ IdleCaller.floor = -1
  BY DEF IdleCaller, CallerFields

\* call_rpc, with the message of a call.
LEMMA StepSend ==
  ASSUME FileInv, NEW c \in Callers, NEW msg, NEW asked, Send(c, msg, asked),
         IsCall(msg.fname, asked, msg), msg.fname \in FileCalls => asked \in Ids
  PROVE  FileInv'
  <1> DEFINE k == caller[c]
             k2 == caller'[c]
             t == thread[c]
             w == wire'[c]
             v == IF up /\ asked \in Ids THEN acked[asked] ELSE -1
  <1>1. /\ k.at = "idle"
        /\ caller' = [caller EXCEPT ![c] =
             [IdleCaller EXCEPT !.at = IF up THEN "waiting" ELSE "idle",
                          !.fname = msg.fname, !.asked = asked,
                          !.outcome = IF up THEN @ ELSE TransportException,
                          !.handled = IF up THEN @ ELSE TransportException,
                          !.floor = IF up /\ asked \in Ids THEN acked[asked] ELSE -1]]
        /\ wire' = [wire EXCEPT ![c] = IF up THEN msg ELSE NoMessage]
        /\ UNCHANGED <<server, acked>>
    BY DEF Send
  <1>2. t.at = "idle" /\ DOMAIN t = ThreadFields
    BY <1>1 DEF FileInv, CallInv, Phase
  <1>3. /\ DOMAIN k2 = CallerFields /\ k2.fname = msg.fname /\ k2.asked = asked
        /\ k2.at = (IF up THEN "waiting" ELSE "idle")
        /\ k2.version = -1 /\ k2.floor = v
        /\ ~up => k2.outcome = TransportException
    BY <1>1, IdleCallerIs DEF FileInv, Shapes, CallerFields
  <1>4. w = (IF up THEN msg ELSE NoMessage)
    BY <1>1 DEF FileInv, Shapes
  <1>5. Only(c, t, k2, w)
    BY <1>1 DEF Only, FileInv, Shapes, server
  <1>6. v \in Int /\ (asked \in Ids => v < writes[asked] /\ -1 < writes[asked])
    BY DEF FileInv, Shapes
  <1> HIDE DEF k2, v, w, t
  <1>7. Behind(k2, writes)
    BY <1>3, <1>6 DEF Behind
  <1>8. CASE up
    <2>1. IsCall(k2.fname, k2.asked, w) /\ k2.at = "waiting"
      BY <1>3, <1>4, <1>8
    <2>2. CallInv(c, k2, t, w, holder', writes)
      BY <1>2, <1>3, <1>7, <2>1 DEF CallInv, Phase, Critical
    <2>3. holder' = holder /\ holder' \in Callers \cup {NoOne}
           /\ disk' = disk /\ writes' = writes
           /\ acked' \in [Ids -> Int] /\ \A i \in Ids : acked'[i] < writes[i]
      BY <1>1 DEF FileInv, Shapes, server
    <2>4. thread[c].at \notin {"write_create", "write_data"}
      BY <1>2 DEF t
    <2> QED  BY <1>5, <2>2, <2>3, <2>4, QuietStep
  <1>9. CASE ~up
    <2>1. w = NoMessage /\ k2.at = "idle" /\ Told(k2)
      BY <1>3, <1>4, <1>9 DEF Told
    <2>2. CallInv(c, k2, t, w, holder', writes)
      BY <1>2, <1>3, <1>7, <2>1 DEF CallInv, Phase, Critical
    <2>3. holder' = holder /\ holder' \in Callers \cup {NoOne}
           /\ disk' = disk /\ writes' = writes
           /\ acked' \in [Ids -> Int] /\ \A i \in Ids : acked'[i] < writes[i]
      BY <1>1 DEF FileInv, Shapes, server
    <2>4. thread[c].at \notin {"write_create", "write_data"}
      BY <1>2 DEF t
    <2> QED  BY <1>5, <2>2, <2>3, <2>4, QuietStep
  <1> QED  BY <1>8, <1>9

LEMMA StepCall ==
  ASSUME FileInv, NEW c \in Callers, CallWriteFile(c) \/ CallReadFile(c) \/ CallRing(c)
  PROVE  FileInv'
  <1>1. CASE CallWriteFile(c)
    <2>1. PICK name \in Names, content \in Contents, marked \in BOOLEAN :
            Send(c, send_writeFile(GivenFile(name, content, marked)), FileId(name[1], name[2]))
      BY <1>1 DEF CallWriteFile
    <2> DEFINE msg == send_writeFile(GivenFile(name, content, marked))
               i == FileId(name[1], name[2])
    <2>2. i \in Ids
      BY DEF Ids
    <2>3. Send(c, msg, i)
      BY <2>1
    <2>4. /\ IsGiven(ReadFields(writeFile_args, msg.body).rFile, i)
          /\ msg.fname = "writeFile" /\ msg.mtype = "T_CALL"
      BY ONLY FileArrives, name \in Names, content \in Contents, marked \in BOOLEAN
    <2> HIDE DEF msg, i
    <2>5. IsCall(msg.fname, i, msg)
      BY <2>4 DEF IsCall
    <2> QED  BY <2>2, <2>3, <2>5, StepSend
  <1>2. CASE CallReadFile(c)
    <2>1. PICK name \in Names :
            Send(c, send_readFile(name[1], name[2]), FileId(name[1], name[2]))
      BY <1>2 DEF CallReadFile
    <2> DEFINE a == name[1]
               b == name[2]
               msg == send_readFile(a, b)
               i == FileId(a, b)
    <2>2. i \in Ids
      BY DEF Ids
    <2>3. Send(c, msg, i)
      BY <2>1
    <2> HIDE DEF a, b
    <2>4. /\ ReadFields(readFile_args, msg.body).filename = a
          /\ ReadFields(readFile_args, msg.body).owner = b
          /\ msg.fname = "readFile" /\ msg.mtype = "T_CALL"
      BY NameArrives
    <2> HIDE DEF msg
    <2>5. IsCall(msg.fname, i, msg)
      BY <2>4 DEF IsCall
    <2> HIDE DEF i
    <2> QED  BY <2>2, <2>3, <2>5, StepSend
  <1>3. CASE CallRing(c)
    <2>1. PICK msg : /\ Send(c, msg, <<>>)
                     /\ \/ \E id \in {NearId, FarId} : msg = send_setPredecessor(Node(id))
                        \/ msg = send_setFingertable(<<Node(FarId)>>)
                        \/ msg = send_findSucc(FarId)
                        \/ msg = send_findPred(FarId)
                        \/ msg = send_getNodeSucc
      BY <1>3 DEF CallRing
    <2>2. msg.fname \in RingCalls /\ msg.mtype = "T_CALL"
      BY <2>1 DEF send_setPredecessor, send_setFingertable, send_findSucc, send_findPred,
                  send_getNodeSucc, Call, RingCalls
    <2> DEFINE empty == <<>>
    <2>3. Send(c, msg, empty)
      BY <2>1
    <2> HIDE DEF empty
    <2>4. IsCall(msg.fname, empty, msg)
      BY <2>2 DEF IsCall
    <2>5. msg.fname \notin FileCalls
      BY <2>2 DEF RingCalls, FileCalls
    <2> QED  BY <2>3, <2>4, <2>5, StepSend
  <1> QED  BY <1>1, <1>2, <1>3

LEMMA StepReceive ==
  ASSUME FileInv, NEW c \in Callers, Receive(c)
  PROVE  FileInv'
  <1> DEFINE k == caller[c]
             k2 == caller'[c]
             t == thread[c]
             w == wire[c]
             o == Received(k.fname, w)
  <1>1. /\ k.at = "waiting" /\ w.mtype \in {"T_REPLY", "T_EXCEPTION"}
        /\ caller' = [caller EXCEPT ![c].at = "idle", ![c].outcome = o]
        /\ wire' = [wire EXCEPT ![c] = NoMessage]
        /\ acked' = IF k.fname = "writeFile" /\ o.kind = "returned" /\ k.version > acked[k.asked]
                    THEN [acked EXCEPT ![k.asked] = k.version]
                    ELSE acked
        /\ UNCHANGED server
    BY DEF Receive
  <1>2. /\ DOMAIN k = CallerFields /\ DOMAIN t = ThreadFields /\ Behind(k, writes)
        /\ Phase(k, t, w, writes)
    BY DEF FileInv, CallInv
  <1>3. w # NoMessage
    <2>1. NoMessage.mtype = "none"
      BY DEF NoMessage
    <2> QED  BY <1>1, <2>1
  <1>4. t.at = "idle" /\ Handled(k) /\ w = Answer(k.fname, k.handled)
    BY <1>1, <1>2, <1>3 DEF Phase, IsCall
  <1>5. /\ DOMAIN k2 = CallerFields /\ k2.handled = k.handled /\ k2.version = k.version
        /\ k2.at = "idle" /\ k2.fname = k.fname /\ k2.asked = k.asked /\ k2.floor = k.floor
        /\ k2.outcome = o
    <2> HIDE DEF o
    <2> QED  BY <1>1, <1>2 DEF CallerFields, FileInv, Shapes
  <1>6. Only(c, t, k2, NoMessage)
    <2> HIDE DEF o
    <2> QED  BY <1>1 DEF Only, FileInv, Shapes, server
  <1>7. o = Received(k.fname, Answer(k.fname, k.handled))
    BY <1>4
  <1> HIDE DEF k, k2, t, w, o
  <1>8. Told(k2)
    BY <1>4, <1>5, <1>7 DEF Told, Handled
  <1>9. Behind(k2, writes)
    BY <1>2, <1>5 DEF Behind
  <1>10. CallInv(c, k2, t, NoMessage, holder', writes)
    BY <1>2, <1>4, <1>5, <1>8, <1>9 DEF CallInv, Phase, Critical
  <1>11. acked' \in [Ids -> Int] /\ \A i \in Ids : acked'[i] < writes[i]
    <2>1. acked \in [Ids -> Int] /\ \A i \in Ids : acked[i] < writes[i]
      BY DEF FileInv, Shapes
    <2>2. CASE acked' = acked
      BY <2>1, <2>2
    <2>3. CASE k.fname = "writeFile" /\ acked' = [acked EXCEPT ![k.asked] = k.version]
      <3>1. k.asked \in Ids /\ k.version \in Int /\ k.version < writes[k.asked]
        BY <1>2, <2>3 DEF Behind, FileCalls
      <3> QED  BY <2>1, <2>3, <3>1
    <2> QED  BY <1>1, <2>2, <2>3
  <1>12. holder' = holder /\ holder' \in Callers \cup {NoOne}
          /\ disk' = disk /\ writes' = writes
    BY <1>1 DEF FileInv, Shapes, server
  <1>13. thread[c].at \notin {"write_create", "write_data"}
    BY <1>4 DEF t
  <1> QED  BY <1>6, <1>10, <1>11, <1>12, <1>13, QuietStep

LEMMA StepBroken ==
  ASSUME FileInv, NEW c \in Callers, Broken(c)
  PROVE  FileInv'
  <1> DEFINE k == caller[c]
             k2 == caller'[c]
             t == thread[c]
             o == TransportException
  <1> HIDE DEF o
  <1>1. /\ wire[c] = NoMessage /\ t.at = "idle"
        /\ caller' = [caller EXCEPT ![c].at = "idle", ![c].outcome = o]
        /\ UNCHANGED <<server, wire, acked>>
    BY DEF Broken, o
  <1>2. DOMAIN k = CallerFields /\ DOMAIN t = ThreadFields /\ Behind(k, writes)
    BY DEF FileInv, CallInv
  <1>3. /\ DOMAIN k2 = CallerFields /\ k2.version = k.version
        /\ k2.at = "idle" /\ k2.fname = k.fname /\ k2.asked = k.asked /\ k2.floor = k.floor
        /\ k2.outcome = o
    BY <1>1, <1>2 DEF CallerFields, FileInv, Shapes
  <1>4. Only(c, t, k2, NoMessage)
    BY <1>1 DEF Only, FileInv, Shapes, server
  <1> HIDE DEF k, k2, t
  <1>5. Told(k2)
    BY <1>3 DEF Told, o
  <1>6. Behind(k2, writes)
    BY <1>2, <1>3 DEF Behind
  <1>7. CallInv(c, k2, t, NoMessage, holder', writes)
    BY <1>1, <1>2, <1>3, <1>5, <1>6 DEF CallInv, Phase, Critical
  <1>8. /\ acked' \in [Ids -> Int] /\ (\A i \in Ids : acked'[i] < writes[i])
        /\ holder' = holder /\ holder' \in Callers \cup {NoOne}
        /\ disk' = disk /\ writes' = writes
    BY <1>1 DEF FileInv, Shapes, server
  <1>9. thread[c].at \notin {"write_create", "write_data"}
    BY <1>1 DEF t
  <1> QED  BY <1>4, <1>7, <1>8, <1>9, QuietStep

\* An answer stays one when no version has to be there.
LEMMA AnswerWeaker ==
  ASSUME NEW fname, NEW i, NEW floor, NEW o, IsAnswerTo(fname, i, floor, o)
  PROVE  IsAnswerTo(fname, i, -1, o)
  <1> DEFINE x == o.value[1]
             v == x.v.meta.v.version
  <1>1. IsRead(x, i, floor) => IsRead(x, i, -1)
    BY DEF IsRead
  <1>2. ReadAnswer(i, floor, o) => ReadAnswer(i, -1, o)
    BY <1>1 DEF ReadAnswer
  <1> QED  BY <1>2 DEF IsAnswerTo

\* A caller to whom no version was acknowledged.
Forgot(k) == [k EXCEPT !.version = -1, !.floor = -1]

\* What the end of the process makes of a caller and of its message.
LEMMA CallLost ==
  ASSUME NEW c, NEW k, NEW t, NEW w, NEW h, NEW k2, NEW w2, NEW h2,
         NEW n \in [Ids -> Nat], NEW n2 \in [Ids -> Nat], NEW lost,
         CallInv(c, k, t, w, h, n),
         \A i \in Ids \ lost : n2[i] = n[i],
         k2 = IF k.asked \in lost THEN Forgot(k) ELSE k,
         w2 = IF w.mtype = "T_CALL" THEN NoMessage ELSE w
  PROVE  CallInv(c, k2, IdleThread, w2, h2, n2)
  <1>1. /\ DOMAIN k = CallerFields /\ Behind(k, n) /\ Phase(k, t, w, n)
    BY DEF CallInv
  <1>2. /\ DOMAIN k2 = CallerFields /\ k2.at = k.at /\ k2.fname = k.fname /\ k2.asked = k.asked
        /\ k2.outcome = k.outcome /\ k2.handled = k.handled
        /\ k.asked \in lost => k2.version = -1 /\ k2.floor = -1
        /\ k.asked \notin lost => k2.version = k.version /\ k2.floor = k.floor
    BY <1>1 DEF CallerFields, Forgot
  <1>3. Behind(k2, n2)
    <2>1. CASE k.asked \in lost
      BY <1>1, <1>2, <2>1 DEF Behind
    <2>2. CASE k.asked \notin lost
      BY <1>1, <1>2, <2>2 DEF Behind
    <2> QED  BY <2>1, <2>2
  <1>4. Handled(k) => Handled(k2)
    <2>1. CASE k.asked \in lost
      BY <1>2, <2>1, AnswerWeaker DEF Handled
    <2>2. CASE k.asked \notin lost
      BY <1>2, <2>2 DEF Handled
    <2> QED  BY <2>1, <2>2
  <1>5. Told(k) => Told(k2)
    BY <1>2, <1>4 DEF Told
  <1>6. NoMessage.mtype # "T_CALL"
    BY DEF NoMessage
  <1>7. Answer(k.fname, k.handled).mtype # "T_CALL"
    BY Answering
  <1>8. IsCall(k.fname, k.asked, w) => w.mtype = "T_CALL"
    BY DEF IsCall
  <1>9. Phase(k2, IdleThread, w2, n2)
    <2>1. CASE k.at = "idle" /\ w = NoMessage /\ Told(k)
      <3>1. w2 = NoMessage
        BY <1>6, <2>1
      <3> QED  BY <1>2, <1>5, <2>1, <3>1, IdleIs DEF Phase
    <2>2. CASE k.at = "waiting" /\ (w = NoMessage \/ w.mtype = "T_CALL")
      <3>1. w2 = NoMessage
        BY <1>6, <2>2
      <3> QED  BY <1>2, <2>2, <3>1, IdleIs DEF Phase
    <2>3. CASE k.at = "waiting" /\ Handled(k) /\ w = Answer(k.fname, k.handled)
      <3>1. w2 = Answer(k2.fname, k2.handled)
        BY <1>2, <1>7, <2>3
      <3> QED  BY <1>2, <1>4, <2>3, <3>1, IdleIs DEF Phase
    <2> QED  BY <1>1, <1>8, <2>1, <2>2, <2>3 DEF Phase
  <1> QED  BY <1>2, <1>3, <1>9, IdleIs DEF CallInv

\* The end of the process: a file that was being written is as if it had never been.
LEMMA StepCrash ==
  ASSUME FileInv, Crash
  PROVE  FileInv'
  <1> DEFINE lost == {i \in Ids : disk[i].state # "whole"}
  <1>1. /\ holder' = NoOne
        /\ thread' = [c \in Callers |-> IdleThread]
        /\ wire' = [c \in Callers |-> IF wire[c].mtype = "T_CALL" THEN NoMessage ELSE wire[c]]
        /\ writes' = [i \in Ids |-> IF i \in lost THEN 0 ELSE writes[i]]
        /\ acked' = [i \in Ids |-> IF i \in lost THEN -1 ELSE acked[i]]
        /\ caller' = [c \in Callers |->
             IF caller[c].asked \in lost
             THEN [caller[c] EXCEPT !.version = -1, !.floor = -1] ELSE caller[c]]
        /\ disk' = disk
    BY DEF Crash
  <1>2. ASSUME NEW i \in Ids
        PROVE  DiskInv(i, disk'[i], writes'[i], holder', thread')
    <2> DEFINE d == disk[i]
               n == writes[i]
    <2>1. DiskInv(i, d, n, holder, thread)
      BY DEF FileInv
    <2>2. Absent.state # "whole" /\ Torn.state # "whole"
      BY DEF Absent, Torn
    <2>3. disk'[i] = d /\ writes'[i] = (IF d.state # "whole" THEN 0 ELSE n)
      BY <1>1
    <2> HIDE DEF d, n
    <2>4. CASE d.state = "whole"
      BY <2>1, <2>2, <2>3, <2>4 DEF DiskInv
    <2>5. CASE d.state # "whole"
      BY <2>1, <2>3, <2>5 DEF DiskInv
    <2> QED  BY <2>4, <2>5
  <1> HIDE DEF lost
  <1>3. Shapes'
    <2>1. writes \in [Ids -> Nat] /\ acked \in [Ids -> Int]
          /\ \A i \in Ids : acked[i] < writes[i]
      BY DEF FileInv, Shapes
    <2> DEFINE n == [i \in Ids |-> IF i \in lost THEN 0 ELSE writes[i]]
               a == [i \in Ids |-> IF i \in lost THEN -1 ELSE acked[i]]
    <2>2. n \in [Ids -> Nat] /\ a \in [Ids -> Int] /\ \A i \in Ids : a[i] < n[i]
      BY ONLY <2>1
    <2>3. writes' = n /\ acked' = a
      BY <1>1
    <2> HIDE DEF n, a
    <2>4. /\ holder' \in Callers \cup {NoOne}
          /\ DOMAIN thread' = Callers /\ DOMAIN wire' = Callers
          /\ DOMAIN caller' = Callers /\ DOMAIN disk' = Ids
      BY <1>1 DEF FileInv, Shapes
    <2>5. writes' \in [Ids -> Nat] /\ acked' \in [Ids -> Int]
          /\ \A i \in Ids : acked'[i] < writes'[i]
      BY <2>2, <2>3
    <2> QED  BY <2>4, <2>5 DEF Shapes
  <1>4. ASSUME NEW c \in Callers
        PROVE  CallInv(c, caller'[c], thread'[c], wire'[c], holder', writes')
    <2> DEFINE k == caller[c]
               t == thread[c]
               w == wire[c]
               k2 == caller'[c]
               w2 == wire'[c]
               h2 == holder'
               n2 == writes'
    <2>1. CallInv(c, k, t, w, holder, writes) /\ writes \in [Ids -> Nat]
      BY DEF FileInv, Shapes
    <2>2. /\ k2 = IF k.asked \in lost THEN Forgot(k) ELSE k
          /\ w2 = IF w.mtype = "T_CALL" THEN NoMessage ELSE w
          /\ thread'[c] = IdleThread
      BY <1>1 DEF Forgot
    <2>3. n2 \in [Ids -> Nat] /\ (\A i \in Ids \ lost : n2[i] = writes[i])
      BY <1>1, <2>1
    <2> HIDE DEF k, t, w, k2, w2, h2, n2
    <2>4. CallInv(c, k2, IdleThread, w2, h2, n2)
      BY ONLY <2>1, <2>2, <2>3, CallLost
    <2> QED  BY <2>2, <2>4 DEF k2, w2, h2, n2
  <1> QED  BY <1>2, <1>3, <1>4 DEF FileInv

\* What the invariant is about.
kept == <<holder, disk, thread, wire, caller, writes, acked>>

LEMMA StepKept ==
  ASSUME FileInv, UNCHANGED kept
  PROVE  FileInv'
  <1>1. Shapes'
    BY DEF FileInv, Shapes, kept
  <1>2. ASSUME NEW c \in Callers
        PROVE  CallInv(c, caller'[c], thread'[c], wire'[c], holder', writes')
    BY DEF FileInv, kept
  <1>3. ASSUME NEW i \in Ids
        PROVE  DiskInv(i, disk'[i], writes'[i], holder', thread')
    BY DEF FileInv, kept
  <1> QED  BY <1>1, <1>2, <1>3 DEF FileInv

\* FileInv holds when the node has been started, and every step keeps it.
LEMMA Initially ==
  ASSUME Init
  PROVE  FileInv
  <1>1. Shapes
    BY DEF Init, Shapes
  <1>2. ASSUME NEW c \in Callers
        PROVE  CallInv(c, caller[c], thread[c], wire[c], holder, writes)
    <2>1. caller[c] = IdleCaller /\ thread[c] = IdleThread /\ wire[c] = NoMessage
      BY DEF Init
    <2>2. Told(IdleCaller)
      BY IdleCallerIs DEF Told
    <2>3. Phase(IdleCaller, IdleThread, NoMessage, writes)
      BY <2>2, IdleCallerIs, IdleIs DEF Phase
    <2> DEFINE k == IdleCaller
    <2>4. k.fname \notin FileCalls /\ k.version = -1 /\ k.floor = -1
      BY IdleCallerIs DEF FileCalls
    <2> HIDE DEF k
    <2>5. Behind(k, writes)
      BY <2>4 DEF Behind, Init
    <2> QED  BY <2>1, <2>3, <2>5, IdleCallerIs, IdleIs DEF CallInv, k
  <1>3. ASSUME NEW i \in Ids
        PROVE  DiskInv(i, disk[i], writes[i], holder, thread)
    <2>1. disk[i] = Absent /\ writes[i] = 0
      BY DEF Init
    <2> QED  BY <2>1 DEF DiskInv
  <1> QED  BY <1>1, <1>2, <1>3 DEF FileInv

LEMMA Inductive ==
  ASSUME FileInv, [Next]_vars
  PROVE  FileInv'
  <1>1. ASSUME NEW c \in Callers, CallWriteFile(c) \/ CallReadFile(c) \/ CallRing(c)
        PROVE  FileInv'
    BY <1>1, StepCall
  <1>2. ASSUME NEW c \in Callers, Process(c)
        PROVE  FileInv'
    BY <1>2, StepProcessRing, StepProcessFile, StepFinish DEF Process
  <1>3. ASSUME NEW c \in Callers, Handle(c)
        PROVE  FileInv'
    BY <1>3, StepAssignPredecessor, StepReadCheck, StepReadLock, StepReadFile, StepUnlock,
       StepWriteCheck, StepWriteLock, StepWriteOld, StepWriteRemove, StepWriteCreate,
       StepWriteData DEF Handle
  <1>4. ASSUME NEW c \in Callers, Return(c)
        PROVE  FileInv'
    BY <1>4, StepReceive, StepBroken DEF Return
  <1>5. CASE Restart
    BY <1>5, StepKept DEF Restart, kept
  <1>6. CASE UNCHANGED vars
    BY <1>6, StepKept DEF vars, kept
  <1> QED  BY <1>1, <1>2, <1>3, <1>4, <1>5, <1>6, StepCrash DEF Next

\* FileInv is an invariant.
THEOREM Invariant == Spec => []FileInv
  BY Initially, Inductive, PTL DEF Spec

\* The version in a file counts the writes since there was no such file, and
\* only the thread that has the mutex sees the file while it is not whole: the
\* check, the lock and the four steps of writeFile, in every interleaving of the
\* connections' threads and with the process ending between any two of them.
THEOREM VersionsCounted == Spec => []VersionsCount
  BY Invariant, ImpliesVersions, PTL

\* A readFile that began after a writeFile was acknowledged answers with that
\* version or a later one of that file, and with the content that its hash is
\* of; it does not miss the file or find it torn.
THEOREM AckedIsRead == Spec => []ReadsAcked
  BY Invariant, ImpliesReads, PTL

\* A caller that is not told that the connection broke is told what the handler
\* returned or threw, for each of the seven methods of the processor.
THEOREM CallersToldTruth == Spec => []OutcomeFaithful
  BY Invariant, ImpliesOutcomes, PTL
=============================================================================
