---------------------------- MODULE ToolArguments ----------------------------
(***************************************************************************)
(* The command line of imgfscmd: the table of commands and the checks of   *)
(* arguments in imgfscmd.c and imgfscmd_functions.c, with the conversions  *)
(* of util.c and imgfs_tools.c they call, and what the help text promises. *)
(*                                                                         *)
(* A command line is the sequence of words after the program's name.  A    *)
(* word is a model value or a string; of a number it matters what          *)
(* strtoumax() reads of it.  The limits are constants, so that a small     *)
(* instance has the same cases as the widths and limits of the code.       *)
(***************************************************************************)
EXTENDS Integers, Sequences

CONSTANTS
  Numeral,         \* what strtoumax() reads of a word that starts with a number
  LongWords,       \* the words longer than MAX_IMG_ID
  UINT16_LIMIT,    \* largest value of a uint16_t
  UINT32_LIMIT,    \* largest value of a uint32_t, and MAX_FLAG_MAX_FILES
  UINTMAX_LIMIT,   \* largest value of a uintmax_t
  MAX_THUMB_RES,
  MAX_SMALL_RES

ASSUME LimitsAssumption ==
  /\ UINT16_LIMIT \in Nat /\ UINT32_LIMIT \in Nat /\ UINTMAX_LIMIT \in Nat
  /\ MAX_THUMB_RES \in 1 .. UINT16_LIMIT
  /\ MAX_SMALL_RES \in 1 .. UINT16_LIMIT
  /\ UINT16_LIMIT <= UINT32_LIMIT
  /\ UINT32_LIMIT <= UINTMAX_LIMIT
ASSUME NumeralAssumption ==
  \A w \in DOMAIN Numeral : Numeral[w] \in [value : Int, rest : BOOLEAN]

-----------------------------------------------------------------------------
(* Conversions *)

\* A conversion that does not ask for the end of the word.
AtouintPrefix(word, max) ==
  IF /\ word \in DOMAIN Numeral
     /\ Numeral[word].value \in -UINTMAX_LIMIT .. UINTMAX_LIMIT
     /\ Numeral[word].value % (UINTMAX_LIMIT + 1) <= max
  THEN Numeral[word].value % (UINTMAX_LIMIT + 1)
  ELSE 0

\* atouint16, atouint32: 0 for what is no number, goes on behind one or does not
\* fit.  strtoumax() takes a minus sign and negates as unsigned.
Atouint(word, max) ==
  IF /\ word \in DOMAIN Numeral
     /\ ~Numeral[word].rest
     /\ Numeral[word].value \in -UINTMAX_LIMIT .. UINTMAX_LIMIT
     /\ Numeral[word].value % (UINTMAX_LIMIT + 1) <= max
  THEN Numeral[word].value % (UINTMAX_LIMIT + 1)
  ELSE 0

ResolutionNames == {"thumb", "thumbnail", "small", "orig", "original"}

\* resolution_atoi
ResolutionAtoi(word) ==
  CASE word \in {"thumb", "thumbnail"} -> "thumb"
    [] word = "small" -> "small"
    [] word \in {"orig", "original"} -> "orig"

-----------------------------------------------------------------------------
(* The options of create *)

Options == {"-max_files", "-thumb_res", "-small_res"}

\* strtoumax() reads no number where an option is named.
ASSUME OptionsAssumption == Options \intersect DOMAIN Numeral = {}

\* The number of words an option takes.
Arity(option) == IF option = "-max_files" THEN 1 ELSE 2

\* The type of its values and their limit.
Width(option) == IF option = "-max_files" THEN UINT32_LIMIT ELSE UINT16_LIMIT

Limit(option) ==
  CASE option = "-max_files" -> UINT32_LIMIT
    [] option = "-thumb_res" -> MAX_THUMB_RES
    [] option = "-small_res" -> MAX_SMALL_RES

Values(args, i) ==
  [k \in 1 .. Arity(args[i]) |-> Atouint(args[i + k], Width(args[i]))]

OptionError(args, i) ==
  CASE args[i] \notin Options -> "ERR_INVALID_ARGUMENT"
    [] Len(args) - i < Arity(args[i]) -> "ERR_NOT_ENOUGH_ARGUMENTS"
    [] \E k \in 1 .. Arity(args[i]) : Values(args, i)[k] \notin 1 .. Limit(args[i]) ->
         IF args[i] = "-max_files" THEN "ERR_MAX_FILES" ELSE "ERR_RESOLUTIONS"
    [] OTHER -> "ERR_NONE"

\* An option is set, unless it is set by a later word.
SetEarlier(option, values, set) ==
  [o \in DOMAIN set \union {option} |-> IF o \in DOMAIN set THEN set[o] ELSE values]

\* The loop of do_create_cmd: its first error, or the options that are set.
CreateOptions(args) ==
  LET from[i \in 1 .. Len(args) + 1] ==
        IF i = Len(args) + 1 THEN [err |-> "ERR_NONE", set |-> <<>>]
        ELSE IF OptionError(args, i) # "ERR_NONE"
             THEN [err |-> OptionError(args, i), set |-> <<>>]
             ELSE LET rest == from[i + Arity(args[i]) + 1]
                  IN  [rest EXCEPT !.set = SetEarlier(args[i], Values(args, i), @)]
  IN  from[1]

-----------------------------------------------------------------------------
(* The other commands *)

ListError(args) ==
  CASE Len(args) > 1 -> "ERR_INVALID_COMMAND"
    [] Len(args) < 1 -> "ERR_INVALID_ARGUMENT"
    [] OTHER -> "ERR_NONE"

CreateError(args) ==
  IF args = <<>> THEN "ERR_NOT_ENOUGH_ARGUMENTS" ELSE CreateOptions(Tail(args)).err

DeleteError(args) ==
  CASE Len(args) < 2 -> "ERR_NOT_ENOUGH_ARGUMENTS"
    [] Len(args) >= 2 /\ args[2] \in LongWords -> "ERR_INVALID_IMGID"
    [] OTHER -> "ERR_NONE"

ReadError(args) ==
  CASE Len(args) \notin {2, 3} -> "ERR_NOT_ENOUGH_ARGUMENTS"
    [] Len(args) = 3 /\ args[3] \notin ResolutionNames -> "ERR_RESOLUTIONS"
    [] OTHER -> "ERR_NONE"

InsertError(args) ==
  IF Len(args) # 3 THEN "ERR_NOT_ENOUGH_ARGUMENTS" ELSE "ERR_NONE"

Commands == {"list", "create", "insert", "read", "delete", "help"}

ArgumentError(name, args) ==
  CASE name = "list"   -> ListError(args)
    [] name = "create" -> CreateError(args)
    [] name = "delete" -> DeleteError(args)
    [] name = "read"   -> ReadError(args)
    [] name = "insert" -> InsertError(args)
    [] name = "help"   -> "ERR_NONE"

\* main: the error a command line is refused with.
CommandLineError(line) ==
  CASE line = <<>> -> "ERR_NOT_ENOUGH_ARGUMENTS"
    [] line # <<>> /\ line[1] \notin Commands -> "ERR_INVALID_COMMAND"
    [] OTHER -> ArgumentError(line[1], Tail(line))

-----------------------------------------------------------------------------
(* imgfscmd as it was first handed in (src/grading/project01/done) has     *)
(* neither read nor insert.  The commands it has check as much.            *)

HandinListError(args) == ListError(args)

HandinCreateError(args) == CreateError(args)

HandinDeleteError(args) == DeleteError(args)

HandinCommands == {"list", "create", "delete", "help"}

HandinArgumentError(name, args) ==
  CASE name = "list"   -> HandinListError(args)
    [] name = "create" -> HandinCreateError(args)
    [] name = "delete" -> HandinDeleteError(args)
    [] name = "help"   -> "ERR_NONE"

HandinLineError(line) ==
  CASE line = <<>> -> "ERR_NOT_ENOUGH_ARGUMENTS"
    [] line # <<>> /\ line[1] \notin HandinCommands -> "ERR_INVALID_COMMAND"
    [] OTHER -> HandinArgumentError(line[1], Tail(line))

\* The resolution of a read.
ReadResolution(line) == IF Len(line) = 4 THEN ResolutionAtoi(line[4]) ELSE "orig"

-----------------------------------------------------------------------------
(* What help says of the options of create, as a language: a list of       *)
(* options, each followed by its numbers, in any order.                    *)

\* The number a word stands for, modulo 2^64.
Denotes(word, n) ==
  /\ word \in DOMAIN Numeral
  /\ ~Numeral[word].rest
  /\ \E k \in {-1, 0} : Numeral[word].value = n + k * (UINTMAX_LIMIT + 1)

OptionAt(args, p) ==
  /\ args[p] \in Options
  /\ p + Arity(args[p]) <= Len(args)
  /\ \A k \in 1 .. Arity(args[p]) :
       \E n \in 1 .. Limit(args[p]) : Denotes(args[p + k], n)

\* Starts are the places of the options, and every word belongs to one option.
Divides(args, starts) ==
  /\ \A p \in starts : OptionAt(args, p)
  /\ \A i \in DOMAIN args : \E p \in starts : i \in p .. p + Arity(args[p])
  /\ \A p, q \in starts : p < q => p + Arity(args[p]) < q

Usable(args) == \E starts \in SUBSET DOMAIN args : Divides(args, starts)

\* The option o has been given the values v, and not again after that.
Asks(args, o, v) ==
  \E starts \in SUBSET DOMAIN args :
    /\ Divides(args, starts)
    /\ \E p \in starts :
         /\ args[p] = o
         /\ \A q \in starts : args[q] = o => q <= p
         /\ Len(v) = Arity(o)
         /\ \A k \in DOMAIN v : v[k] <= Limit(o) /\ Denotes(args[p + k], v[k])

=============================================================================
