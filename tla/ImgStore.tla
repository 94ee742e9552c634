------------------------------ MODULE ImgStore ------------------------------
(***************************************************************************)
(* What an imgFS promises to the caller of its library when every write    *)
(* works: a store of named images with a place for MaxFiles of them.       *)
(* There are no offsets here, no sizes, no counters, no second copy of the *)
(* index and no shared or derived bytes: an image read is the image        *)
(* inserted.  An error code means what its name says, and a call that      *)
(* returns one leaves the store as it was.                                 *)
(*                                                                         *)
(* Two restrictions of the code are part of the promise, because a caller  *)
(* meets them: an id may be given again to a content that is already       *)
(* stored, and a derived image may be refused while a lower place is free. *)
(***************************************************************************)
EXTENDS Integers

CONSTANTS MaxFiles, Ids, Images, Broken, DerivedRes, ORIG_RES, NoId, NoImage,
          ReadsFail  \* whether what a read or a list takes may be missing

VARIABLES
  images,  \* what each place holds: an image with its id, or Nothing
  reply    \* the last call and what it returned

svars == <<images, reply>>

Places == 0 .. MaxFiles - 1
Nothing == [id |-> NoId, img |-> NoImage]
Entry(id, img) == [id |-> id, img |-> img]

Free == {p \in Places : images[p] = Nothing}
Used == Places \ Free
Under(id) == {p \in Used : images[p].id = id}
Stored == {images[p].img : p \in Used}

Returns(call, id, arg, err, out) ==
  reply' = [call |-> [call |-> call, id |-> id, arg |-> arg],
            err |-> err, out |-> out, ids |-> [p \in {} |-> NoId]]

Init ==
  /\ images = [p \in Places |-> Nothing]
  /\ reply = [call |-> [call |-> "create", id |-> NoId, arg |-> NoImage],
              err |-> "ERR_NONE", out |-> NoImage, ids |-> [p \in {} |-> NoId]]

Create ==
  /\ Returns("create", NoId, NoImage, "ERR_NONE", NoImage)
  /\ images' = [p \in Places |-> Nothing]

\* Opening and closing change nothing a caller can see.
Session ==
  /\ Returns("none", NoId, NoImage, "ERR_NONE", NoImage)
  /\ UNCHANGED images

Insert(id, img) ==
  /\ Returns("insert", id, img, "ERR_NONE", NoImage)
  /\ img \notin Broken
  /\ Under(id) = {} \/ img \in Stored
  /\ \E p \in Free : images' = [images EXCEPT ![p] = Entry(id, img)]

RefuseInsert(id, img, err) ==
  /\ Returns("insert", id, img, err, NoImage)
  /\ \/ err = "ERR_IMGFS_FULL" /\ Free = {}
     \/ err = "ERR_IMGLIB" /\ Free # {} /\ img \in Broken
     \/ err = "ERR_DUPLICATE_ID" /\ Free # {} /\ img \notin Broken /\ Under(id) # {}
  /\ UNCHANGED images

Delete(id) ==
  /\ Returns("delete", id, NoImage, "ERR_NONE", NoImage)
  /\ \E p \in Under(id) : images' = [images EXCEPT ![p] = Nothing]

RefuseDelete(id) ==
  /\ Returns("delete", id, NoImage, "ERR_IMAGE_NOT_FOUND", NoImage)
  /\ Under(id) = {}
  /\ UNCHANGED images

Read(id, res) ==
  /\ \E p \in Under(id) :
       Returns("read", id, res, "ERR_NONE", [img |-> images[p].img, res |-> res])
  /\ UNCHANGED images

RefuseRead(id, res, err) ==
  /\ Returns("read", id, res, err, NoImage)
  /\ \/ err = "ERR_IMAGE_NOT_FOUND" /\ Under(id) = {}
     \/ /\ err = "ERR_INVALID_IMGID"
        /\ res \in DerivedRes
        /\ \E p \in Under(id), q \in Free : q < p
     \/ err \in {"ERR_IO", "ERR_OUT_OF_MEMORY"} /\ ReadsFail /\ Under(id) # {}
     \/ err = "ERR_IMGLIB" /\ ReadsFail /\ Under(id) # {} /\ res \in DerivedRes
  /\ UNCHANGED images

List ==
  /\ reply' = [call |-> [call |-> "list", id |-> NoId, arg |-> NoImage],
               err |-> "ERR_NONE", out |-> NoImage,
               ids |-> [p \in Used |-> images[p].id]]
  /\ UNCHANGED images

RefuseList ==
  /\ Returns("list", NoId, NoImage, "ERR_RUNTIME", NoImage)
  /\ ReadsFail
  /\ UNCHANGED images

ReadErrors == {"ERR_IMAGE_NOT_FOUND", "ERR_INVALID_IMGID", "ERR_IO",
               "ERR_OUT_OF_MEMORY", "ERR_IMGLIB"}

Next ==
  \/ Create
  \/ Session
  \/ \E id \in Ids, img \in Images :
       \/ Insert(id, img)
       \/ \E err \in {"ERR_IMGFS_FULL", "ERR_IMGLIB", "ERR_DUPLICATE_ID"} :
            RefuseInsert(id, img, err)
  \/ \E id \in Ids : Delete(id) \/ RefuseDelete(id)
  \/ \E id \in Ids, res \in DerivedRes \union {ORIG_RES} :
       \/ Read(id, res)
       \/ \E err \in ReadErrors : RefuseRead(id, res, err)
  \/ List
  \/ RefuseList

Spec == Init /\ [][Next]_svars

=============================================================================
