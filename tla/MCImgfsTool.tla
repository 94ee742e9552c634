----------------------------- MODULE MCImgfsTool -----------------------------
(***************************************************************************)
(* ImgfsTool on small instances: a file of two slots, and limits that are  *)
(* to each other as those of the code are.                                 *)
(***************************************************************************)
EXTENDS ImgfsToolProps, TLC

Seqs == INSTANCE SequencesExt

CONSTANTS a, b, x, y, f, long

MCIds    == {a, b}
MCImages == {x, y}
MCSizeOf ==
  [p \in Images \X Res |->
     (IF p[1] = x THEN 1 ELSE 2) + (IF p[2] = ORIG_RES THEN 0 ELSE 3)]

\* Numbers at both ends of each limit, below zero, and with letters behind.
MCNumeral ==
  LET number(n) == [value |-> n, rest |-> FALSE]
  IN  "0" :> number(0) @@ "1" :> number(1) @@ "thumb" :> number(MAX_THUMB_RES)
      @@ "thumb+1" :> number(MAX_THUMB_RES + 1) @@ "small+1" :> number(MAX_SMALL_RES + 1)
      @@ "16" :> number(UINT16_LIMIT + 2) @@ "32" :> number(UINT32_LIMIT)
      @@ "32+1" :> number(UINT32_LIMIT + 1) @@ "max+2" :> number(UINTMAX_LIMIT + 2)
      @@ "-1" :> number(-1) @@ "-max" :> number(-UINTMAX_LIMIT)
      @@ "1x" :> [value |-> 1, rest |-> TRUE]

Words == Options \union DOMAIN MCNumeral \union {"word"}

\* Every list of up to two words, of an option and two words, and of two options
\* with their numbers.
OptionLists ==
  Seqs!BoundedSeq(Words, 2)
  \union {<<o, n, m>> : o \in Options, n \in Words, m \in Words}
  \union {s \o t : s \in {<<"-max_files", n>> : n \in {"1", "32"}},
                   t \in {<<o, n, m>> : o \in Options, n \in {"1", "thumb", "thumb+1"},
                                        m \in {"1", "thumb+1", "small+1"}}}
  \union {<<o, "1", n, p, n, m>> : o \in {"-thumb_res", "-small_res"},
                                   p \in {"-thumb_res", "-small_res"},
                                   n \in {"1", "thumb"}, m \in {"1", "thumb"}}

MCCreateLines == {<<"create", f>> \o args : args \in OptionLists}

MCCommandLines ==
  {<<>>, <<"format", f>>, <<"help">>, <<"list", f>>, <<"create">>,
   <<"create", f>>, <<"insert", f, a>>,
   <<"delete", f, long>>}
  \union {<<"delete", f, id>> : id \in MCIds}
  \union {<<"read", f, a>>, <<"read", f, a, "thumbnail">>, <<"read", f, a, "tiny">>}
  \union {<<"insert", f, a, x>>, <<"insert", f, b, x>>, <<"insert", f, b, y>>, <<"insert", f, b, <<a, "orig">> >>}

\* Of a process that has ended nothing is read again, and of the version nothing
\* but whether it has moved, which the number of images tells as well.
View ==
  <<extent, files, lost, stage, is_open, metadata, disk_metadata, data,
    header.nb_files, disk_header.nb_files,
    IF stage = "shell" THEN <<>>
    ELSE <<build, line, code, pointers, printed, before, opened.nb_files, cause, twice>> >>

=============================================================================
