---------------------------- MODULE CommandLine ----------------------------
(***************************************************************************)
(* The words of a run command, from the line the user types to the argv    *)
(* the child executes: parse_command and the join in main.c, strtok in     *)
(* namespace.c.  The line is the part after the names, a sequence of       *)
(* characters: two blanks, one of the two quotes, a carriage return (main  *)
(* strips the newline only), one that is none of these.                    *)
(***************************************************************************)
EXTENDS Integers, Sequences, Functions

CONSTANTS
    MaxArgs,   \* 32, the size of both arrays of words
    Before,    \* words of the line before the command: run, flags, names
    MaxLen     \* bound: characters of the line

ASSUME ConstantsAssumption ==
    /\ MaxArgs \in Nat /\ Before \in Nat /\ MaxLen \in Nat
    /\ 4 <= Before /\ Before < MaxArgs

\* What separates words.
Blanks == {" ", "\t"}
Quote == "\""
Return == "\r"
Chars == {" ", "\t", Quote, Return, "a"}

VARIABLES
    line,
    cursor,        \* position in it, from 1; Len(line) + 1 is the NUL
    args,          \* the words parse_command has found
    command_line,
    argv,          \* what execvp gets
    pc

vars == <<line, cursor, args, command_line, argv, pc>>

\* The first position from i on whose character is in S, or that of the NUL.
Find(i, S) == CHOOSE j \in i .. Len(line) + 1 :
                /\ j = Len(line) + 1 \/ line[j] \in S
                /\ \A k \in i .. j - 1 : line[k] \notin S

\* Over the delimiter at end, but not over the NUL.
Past(end) == IF end <= Len(line) THEN end + 1 ELSE end

\* One turn of parse_command's loop.
ParseWord ==
    /\ pc = "parse"
    /\ LET start  == Find(cursor, Chars \ Blanks)
           quoted == start <= Len(line) /\ line[start] = Quote
           first  == IF quoted THEN start + 1 ELSE start
           end    == Find(first, IF quoted THEN {Quote} ELSE Blanks)
       IN  /\ start <= Len(line) /\ Len(args) < MaxArgs - Before
           /\ args' = Append(args, SubSeq(line, first, end - 1))
           /\ cursor' = Past(end)
    /\ UNCHANGED <<line, command_line, argv, pc>>

\* The line is used up, or the array of words is full.
ParseDone ==
    /\ pc = "parse"
    /\ \/ Find(cursor, Chars \ Blanks) > Len(line)
       \/ Len(args) = MaxArgs - Before
    /\ pc' = IF args = << >> THEN "usage" ELSE "join"
    /\ UNCHANGED <<line, cursor, args, command_line, argv>>

\* One turn of the join.  Faulty: no separator.
NoSpace(text, sep, word) == text \o word
Glued(text, sep, word) == text \o sep \o word

\* The words one after the other, with sep between two of them.
Joined(words, sep) ==
    LET join[n \in 0 .. Len(words)] ==
          IF n = 0 THEN << >>
          ELSE IF n = 1 THEN words[1] ELSE Glued(join[n - 1], sep, words[n])
    IN  join[Len(words)]

\* The run branch of main puts a space between the words; container_create
\* replaces an empty command by the default one.
Join ==
    /\ pc = "join"
    /\ command_line' = Joined(args, <<" ">>)
    /\ pc' = IF command_line' = << >> THEN "default" ELSE "exec"
    /\ UNCHANGED <<line, cursor, args, argv>>

\* The last word grows by a character.
Extended(words, c) == [words EXCEPT ![Len(words)] = Append(@, c)]

\* The words of the first n characters, from those of one less.
Scanned(words, text, n, S) ==
    IF text[n] \in S THEN words
    ELSE IF n = 1 \/ text[n - 1] \in S THEN Append(words, <<text[n]>>)
    ELSE Extended(words, text[n])

\* strtok until NULL: the maximal runs of characters that are not in S, in
\* the first n characters for each n.
Split(text, S) ==
    LET split[n \in 0 .. Len(text)] ==
          IF n = 0 THEN << >> ELSE Scanned(split[n - 1], text, n, S)
    IN  split

Tokens(text, S) == Split(text, S)[Len(text)]

\* The first n words, or all of them.
UpTo(words, n) == IF Len(words) <= n THEN words ELSE SubSeq(words, 1, n)

\* EINVAL without a word, E2BIG when the array cannot hold the final NULL.
build_exec_argv ==
    /\ pc = "exec"
    /\ LET words == Tokens(command_line, {" "})
       IN  IF Len(words) \in 1 .. MaxArgs - 1
           THEN argv' = words /\ pc' = "done"
           ELSE pc' = "failed" /\ UNCHANGED argv
    /\ UNCHANGED <<line, cursor, args, command_line>>

Init ==
    /\ line \in UNION {[1 .. n -> Chars] : n \in 0 .. MaxLen}
    /\ cursor = 1
    /\ args = << >> /\ command_line = << >> /\ argv = << >>
    /\ pc = "parse"

Next == ParseWord \/ ParseDone \/ Join \/ build_exec_argv

Spec == Init /\ [][Next]_vars

----------------------------------------------------------------------------
HasQuote == \E i \in 1 .. Len(line) : line[i] = Quote

\* The text without its spaces.
Squeezed(text) ==
    LET squeeze[n \in 0 .. Len(text)] ==
          IF n = 0 THEN << >>
          ELSE IF text[n] = " " THEN squeeze[n - 1] ELSE Append(squeeze[n - 1], text[n])
    IN  squeeze[Len(text)]

\* Without quotes the command always gets exactly the words typed, blanks of any
\* kind and number apart, up to the size of the array.  Whatever the quotes, also
\* an unclosed one, no character of a word is lost or doubled on the way, and
\* the joined command is no longer than the line, so its buffer is large enough.
WordsArrive ==
    /\ ~HasQuote =>
         LET words == Tokens(line, Blanks)
         IN  /\ pc = "done" => argv = UpTo(words, MaxArgs - Before)
             /\ pc \notin {"default", "failed"}
    /\ pc = "done" => Joined(argv, << >>) = Squeezed(Joined(args, << >>))
    /\ Len(command_line) <= Len(line)

\* A quoted argument with spaces reaches the command as one argument.  It does
\* not: the join drops the quotes and strtok splits at the spaces inside.
QuotedWordsArrive ==
    /\ pc = "done"
    /\ Len(SelectSeq(line, LAMBDA c : c = Quote)) % 2 = 0
    /\ << >> \notin Range(args)
    => argv = args
=============================================================================
