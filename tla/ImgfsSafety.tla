----------------------------- MODULE ImgfsSafety -----------------------------
(***************************************************************************)
(* What makes the library of Imgfs correct while every write to the file   *)
(* works (Faults \subseteq {"read"}): the parts of its inductive invariant, *)
(* and the abstract store it implements.                                   *)
(***************************************************************************)
EXTENDS Imgfs

\* While the file is open its copy in memory and the file agree on the header
\* and on every entry, though do_insert writes one slot, do_delete the whole
\* array and do_read a slot it resized, each in its own order.
FileInSync ==
  is_open => /\ header = disk_header
             /\ \A i \in Slots : SameSlot(metadata[i], disk_metadata[i])

\* The number of images in the header is the number of valid entries: the test
\* of do_insert for a full file and of lazily_resize for an index rely on it.
Counted == disk_header.nb_files = Cardinality(Valid(disk_metadata))

\* Every valid entry leads to the image it was inserted with, at each of its
\* resolutions: neither a slot's previous occupant, nor an entry it shares its
\* content with, nor a derived image lies where it points.
Intact == \A i \in Valid(disk_metadata) : EntryIntact(disk_metadata[i], data)

\* Content-level deduplication: entries with one content share one original.
SharedOriginals ==
  \A i, j \in Valid(disk_metadata) :
    disk_metadata[i].SHA = disk_metadata[j].SHA
      => disk_metadata[i].offset[ORIG_RES] = disk_metadata[j].offset[ORIG_RES]

\* The inductive invariant.
Safe == TypeOK /\ FileInSync /\ Counted /\ Intact /\ SharedOriginals

\* image_dedup.c "throw[s] an error if it finds a duplicate": an id names one
\* image of the file.
UniqueIds ==
  \A i, j \in Valid(disk_metadata) :
    disk_metadata[i].img_id = disk_metadata[j].img_id => i = j

\* An image that is stored can be read, at every resolution.
StoredIsReadable ==
  [][reply'.call.call = "read" /\ Named(metadata, reply'.call.id) # {}
       => reply'.err = "ERR_NONE"]_vars

\* The version in the header moves by one with every change of the images in the
\* file, and with nothing else.
VersionFollowsContent ==
  [][\/ Create
     \/ disk_header'.version = (IF Visible(disk_metadata') = Visible(disk_metadata)
                                THEN disk_header.version
                                ELSE Inc(disk_header.version))]_vars

-----------------------------------------------------------------------------
\* The image that a caller finds in slot i.
StoredIn(i) ==
  LET m == IF is_open THEN metadata[i] ELSE disk_metadata[i]
      c == Content(m, data, ORIG_RES)
  IN  IF m.is_valid
      THEN [id |-> m.img_id, img |-> IF c = NoImage THEN NoImage ELSE c.img]
      ELSE [id |-> NoId, img |-> NoImage]

Store == INSTANCE ImgStore WITH images <- [i \in Slots |-> StoredIn(i)],
                              ReadsFail <- "read" \in Faults

\* The library keeps the promise of ImgStore: with every call the store behind
\* the offsets, the counters and the two copies of the index does what ImgStore
\* allows, and returns what ImgStore returns.
ImplementsStore == Store!Spec

=============================================================================
