-------------------------------- MODULE Layers --------------------------------
(***************************************************************************)
(* registry.Extract: the entries of an image's layers are carried out one  *)
(* after the other on a directory that it does not empty, over whatever a  *)
(* failed attempt or another image has left there, against the flattened   *)
(* filesystem the image stands for.  A directory and the names in it stand *)
(* for a tree.                                                             *)
(***************************************************************************)
EXTENDS Naturals, Sequences, FiniteSets, FiniteSetsExt

CONSTANTS
  Names,   \* the names in the directory
  Images,  \* the images a new app may have: the entries of all their layers
  Others,  \* those its reference may come to stand for later
  Retries  \* bound: attempts after the first

(* What a name stands for: a file, told apart by the layer and the name it *)
(* was packed under, a symlink to a name of the directory, or nothing.     *)
Thing(kind, layer, name) == [kind |-> kind, layer |-> layer, name |-> name]
NoFile  == Thing("none", 0, "")
Files   == [kind : {"file"}, layer : Nat, name : Names]
Symlinks == [kind : {"symlink"}, layer : Nat, name : Names]
Things  == Files \cup Symlinks \cup {NoFile}

(* Entries: the directory, a file, a symlink, a hard link to another name, *)
(* a whiteout, and the whiteout of all lower layers have in the directory. *)
Header(op, layer, name, arg) ==
  [op |-> op, layer |-> layer, name |-> name, arg |-> arg]

Headers ==
  [op : {"dir", "opaque"}, layer : Nat, name : {""}, arg : {NoFile}]
    \cup [op : {"white"}, layer : Nat, name : Names, arg : {NoFile}]
    \cup [op : {"file"}, layer : Nat, name : Names, arg : Files]
    \cup [op : {"symlink"}, layer : Nat, name : Names, arg : Symlinks]
    \cup [op : {"link"}, layer : Nat, name : Names,
          arg : [kind : {"name"}, layer : {0}, name : Names]]

ASSUME LayersAssumption ==
  /\ IsFiniteSet(Names) /\ "" \notin Names
  /\ \A img \in Images \cup Others :
       /\ img \in Seq(Headers)
       /\ \A i, j \in DOMAIN img : i < j => img[i].layer <= img[j].layer

VARIABLES
  image,   \* the image that is pulled
  done,    \* how many of its entries Extract has carried out
  disk,    \* the directory
  before,  \* history: what it was when this image was first pulled on it
  tries,
  outcome  \* how the last Extract returned

xvars == <<image, done, disk, before, tries, outcome>>

-----------------------------------------------------------------------------
(* The disk: names refer to inodes, inodes have contents.                  *)

NoDisk == [dir |-> FALSE, inode |-> [n \in Names |-> 0],
           data |-> [i \in 1 .. Cardinality(Names) |-> NoFile]]

Free(d) == CHOOSE i \in DOMAIN d.data : \A n \in Names : d.inode[n] # i

Content(d, n) == IF d.inode[n] = 0 THEN NoFile ELSE d.data[d.inode[n]]

RemoveName(d, n) == [d EXCEPT !.inode[n] = 0]

Store(d, i, n, content) ==
  LET named == [d EXCEPT !.inode[n] = i] IN [named EXCEPT !.data[i] = content]

(* OpenFile with O_TRUNC follows a symlink, and writes into the inode that *)
(* has the name.  The parent is made if need be.                           *)
Written(d, n) ==
  IF Content(d, n).kind = "symlink" THEN Content(d, n).name ELSE n

WriteFile(d, n, content) ==
  LET t == Written(d, n)
  IN [Store(d, IF d.inode[t] = 0 THEN Free(d) ELSE d.inode[t], t, content)
        EXCEPT !.dir = TRUE]

(* os.Remove, then Symlink or Link: no parent is made, and the error of a  *)
(* missing one, or of a missing target, is dropped.                        *)
MakeSymlink(d, n, content) ==
  LET e == RemoveName(d, n)
  IN IF e.dir THEN Store(e, Free(e), n, content) ELSE e

\* Mutant: without the Remove, a link is not made where an attempt left one.
MakeLinkOnce(d, n, to) ==
  IF d.dir /\ d.inode[to] # 0 /\ d.inode[n] = 0
  THEN [d EXCEPT !.inode[n] = d.inode[to]] ELSE d

MakeLink(d, n, to) ==
  LET e == RemoveName(d, n)
  IN IF e.dir /\ e.inode[to] # 0 THEN [e EXCEPT !.inode[n] = e.inode[to]]
     ELSE e

\* Mutant: a whiteout is taken for an empty file.
WhiteoutFile(d, n) == WriteFile(d, n, Thing("file", 0, n))

Whiteout(d, n) == RemoveName(d, n)

RemoveDir(d) == NoDisk

Apply(d, e) ==
  CASE e.op = "dir" -> [d EXCEPT !.dir = TRUE]
    [] e.op = "file" -> WriteFile(d, e.name, e.arg)
    [] e.op = "symlink" -> MakeSymlink(d, e.name, e.arg)
    [] e.op = "link" -> MakeLink(d, e.name, e.arg.name)
    [] e.op = "white" -> Whiteout(d, e.name)
    [] e.op = "opaque" -> RemoveDir(d)

-----------------------------------------------------------------------------
ExtractInit ==
  /\ image \in Images
  /\ done = 0
  /\ disk = NoDisk /\ before = NoDisk
  /\ tries = 0
  /\ outcome = "running"

(* One header of the tar stream.                                           *)
ExtractEntry ==
  /\ outcome = "running" /\ done < Len(image)
  /\ disk' = Apply(disk, image[done + 1])
  /\ done' = done + 1
  /\ UNCHANGED <<image, before, tries, outcome>>

ExtractDone ==
  /\ outcome = "running" /\ done = Len(image)
  /\ outcome' = "ok"
  /\ UNCHANGED <<image, done, disk, before, tries>>

(* The download breaks off, at the latest before the end of the stream,    *)
(* and it may be in the middle of a file.                                  *)
Half(n) == Thing("file", 0, n)

HalfWritten ==
  /\ done < Len(image) /\ image[done + 1].op = "file"
  /\ disk' = WriteFile(disk, image[done + 1].name, Half(image[done + 1].name))

ExtractFails ==
  /\ outcome = "running"
  /\ disk' = disk \/ HalfWritten
  /\ outcome' = "error"
  /\ UNCHANGED <<image, done, before, tries>>

(* The user pulls again: the same image, or another one, when the image    *)
(* reference was edited or its tag has moved.  A prune in between may have *)
(* removed the directory, if it is one of those it takes for needless.     *)
PullAgain ==
  /\ outcome # "running" /\ tries < Retries
  /\ \/ UNCHANGED <<image, disk, before>>
     \/ image' \in Others /\ UNCHANGED disk /\ before' = disk
     \/ /\ image' \in {image} \cup Others
        /\ disk' = RemoveDir(disk) /\ before' = RemoveDir(disk)
  /\ done' = 0
  /\ tries' = tries + 1
  /\ outcome' = "running"

ExtractNext == ExtractEntry \/ ExtractDone \/ ExtractFails \/ PullAgain

ExtractSpec == ExtractInit /\ [][ExtractNext]_xvars

-----------------------------------------------------------------------------
(* The filesystem an image stands for: a name is what the last entry for   *)
(* it says, unless a higher layer hides it, wherever in its layer; a hard  *)
(* link is the file that has the other name.                               *)

Packs(e, n) == e.op \in {"file", "symlink", "link"} /\ e.name = n
Hides(e, n) == e.op = "opaque" \/ (e.op = "white" /\ e.name = n)

Seen(img, n) ==
  {i \in DOMAIN img :
     /\ Packs(img[i], n)
     /\ \A j \in DOMAIN img :
          Hides(img[j], n) => img[j].layer <= img[i].layer}

LinkedTo(img, i) ==
  {j \in 1 .. i - 1 : img[j].op = "file" /\ img[j].name = img[i].arg.name}

Packed(img, i) ==
  IF img[i].op = "link" THEN img[Max(LinkedTo(img, i))].arg ELSE img[i].arg

Flattened(img, n) ==
  IF Seen(img, n) = {} THEN NoFile ELSE Packed(img, Max(Seen(img, n)))

(* The images Extract is right about.  The whiteouts of a layer come       *)
(* before its files;                                                       *)
WhiteoutsFirst(img) ==
  \A i, j \in DOMAIN img :
    (/\ i < j /\ img[i].layer = img[j].layer
     /\ img[j].op \in {"white", "opaque"})
      => img[i].op \in {"dir", "white", "opaque"}

(* where the directory is gone, something makes it again before the first  *)
(* link in it;                                                             *)
Makes(e) == e.op \in {"dir", "file"}

DirBeforeLinks(img) ==
  \A i \in DOMAIN img : img[i].op \in {"link", "symlink"} =>
    \E j \in 1 .. i - 1 :
      Makes(img[j]) /\ \A k \in j .. i - 1 : img[k].op # "opaque"

(* a hard link follows a file of its layer that has the other name, as in  *)
(* any tar file;                                                           *)
FileBeforeLinks(img) ==
  \A i \in DOMAIN img : img[i].op = "link" =>
    \E j \in LinkedTo(img, i) : img[j].layer = img[i].layer

(* and no name is at one time a file and at another a symlink or a hard    *)
(* link, nor is the file of a hard link written again.                     *)
NotRewritten(img) ==
  \A i, j \in DOMAIN img : img[j].op = "file" =>
    /\ img[i].op \in {"link", "symlink"} => img[i].name # img[j].name
    /\ (img[i].op = "link" /\ img[i].arg.name = img[j].name) => j < i

Plain(img) ==
  /\ WhiteoutsFirst(img) /\ DirBeforeLinks(img)
  /\ FileBeforeLinks(img) /\ NotRewritten(img)

(* What an earlier image left is in its way neither: a file of the image   *)
(* has a free name, or that of a file which has no other.                  *)
Takes(img, d) ==
  \A n \in Names :
    (/\ d.inode[n] # 0
     /\ \E i \in DOMAIN img : img[i].op = "file" /\ img[i].name = n)
      => /\ Content(d, n).kind = "file"
         /\ \A m \in Names \ {n} : d.inode[m] # d.inode[n]

Touches(e, n) == Packs(e, n) \/ Hides(e, n)

Touched(img, n) == \E i \in DOMAIN img : Touches(img[i], n)

(* After a pull each name the image packs or hides is as in the image's    *)
(* flattened filesystem, whatever attempts broke off and whatever image    *)
(* was there before; any other name is as that image left it, for Extract  *)
(* does not empty the directory (extract.go:14-44, 60-128).                *)
ExtractedOnTop ==
  outcome = "ok" /\ Plain(image) /\ Takes(image, before) =>
    \A n \in Names :
      Content(disk, n) = IF Touched(image, n) THEN Flattened(image, n)
                                              ELSE Content(before, n)

(* "Extract writes the image's flattened filesystem to destDir"            *)
(* (extract.go:14): so it is where no other image has been before.         *)
ExtractedIsImage ==
  outcome = "ok" /\ Plain(image) /\ before = NoDisk =>
    \A n \in Names : Content(disk, n) = Flattened(image, n)
==============================================================================
