--------------------------------- MODULE Shells --------------------------------
(***************************************************************************)
(* The shells of bite/pctrl: shell.c, Myshell.c and mini_shell.c, which    *)
(* also redirects.  Each reads a line into a buffer, cuts it into          *)
(* arguments in place by writing NULs, forks, and waits for the child.     *)
(*                                                                         *)
(* shell.c and mini_shell.c clear the buffer before each line, Myshell.c   *)
(* does not.  A step of the parser is one round of its outer loop.  Lines  *)
(* end in a newline and fit the buffer.                                    *)
(***************************************************************************)
EXTENDS Integers, SequencesExt, FiniteSetsExt

CONSTANT MaxLine    \* bound: length of a line, without its newline

VARIABLES shell,
          pc,      \* "read", "parse", "fork", "open" or "exec"
          line,    \* history: the line read last
          buf,     \* the buffer
          ptr,     \* where the parser is
          argv,    \* where each argument begins
          flag,    \* relocate_flag: 1 and 2 for the output, 4 for the input
          name,    \* where filename_in and filename_out begin, 0: NULL
          io       \* of the child: where each file begins, 0: as the shell has it

parsed == <<ptr, argv, flag, name>>
vars == <<shell, pc, line, buf, parsed, io>>

Shells == {"shell.c", "Myshell.c", "mini_shell.c"}
NUL == "\\0"
Blank == " "
Chars == IF shell = "mini_shell.c" THEN {Blank, "w", "<", ">"} ELSE {Blank, "w"}
Lines == BoundedSeq(Chars, MaxLine)
Size == MaxLine + 4                 \* 1024
Nowhere == [in |-> 0, out |-> 0]
Clear == [k \in 1..Size |-> NUL]

(* What a caller makes of the buffer: the text from k to the next NUL.     *)
TextEnd(k) == Min({n \in k..Size : buf[n] = NUL})
Text(k) == [n \in 1..TextEnd(k) - k |-> buf[k + n - 1]]
Args == [n \in 1..Len(argv) |-> Text(argv[n])]

(* The buffer of Myshell.c is not initialised; what is in it is any one    *)
(* character, up to its last cells.                                        *)
Found == {[k \in 1..Size |-> IF k > MaxLine + 2 THEN NUL ELSE c] :
            c \in IF shell = "Myshell.c" THEN Chars \cup {NUL} ELSE {NUL}}

Init == /\ shell \in Shells /\ pc = "read" /\ line = <<>>
        /\ buf \in Found
        /\ ptr = 1 /\ argv = <<>> /\ flag = 0 /\ name = Nowhere /\ io = Nowhere

-----------------------------------------------------------------------------
(* fgets writes a NUL behind the newline, and the shell one over it; what  *)
(* is behind the two in the buffer of Myshell.c is of earlier lines.       *)
Fgets(text, nuls) == /\ pc = "read" /\ pc' = "parse"
                     /\ line' = text
                     /\ buf' = [k \in 1..Size |-> IF k <= Len(text) THEN text[k]
                                                  ELSE IF k <= Len(text) + nuls THEN NUL
                                                  ELSE buf[k]]
                     /\ UNCHANGED <<shell, parsed, io>>

(* Seeded fault: only one NUL ends the line.                               *)
ReadLineOneNul == \E text \in Lines : Fgets(text, 1)

ReadLine == \E text \in Lines : Fgets(text, 2)

(* From k on, the first character of b that is no blank, and the first     *)
(* that is blank or NUL.                                                   *)
SkipBlanks(b, k) == Min({n \in k..Size : b[n] # Blank})
SkipWord(b, k) == Min({n \in k..Size : b[n] \in {Blank, NUL}})

(* The end of a round: what stands at k, if it is no blank, is an argument *)
(* and cut off by a NUL; then ptr++.                                       *)
Argument(b, k) == IF b[k] = Blank
                  THEN ptr' = k + 1 /\ buf' = b /\ UNCHANGED argv
                  ELSE /\ ptr' = SkipWord(b, k) + 1
                       /\ buf' = [b EXCEPT ![SkipWord(b, k)] = NUL]
                       /\ argv' = Append(argv, k)

Word == /\ pc = "parse" /\ buf[ptr] \notin {"<", ">", NUL}
        /\ Argument(buf, ptr)
        /\ UNCHANGED <<shell, pc, line, flag, name, io>>

(* The file name begins behind the blanks at k and is cut off.  The round  *)
(* goes on behind it, and what stands there is taken for an argument,      *)
(* whatever it is.                                                         *)
Filename(which, k) == LET begin == SkipBlanks(buf, k)
                          cut == SkipWord(buf, begin)
                      IN /\ name' = [name EXCEPT ![which] = begin]
                         /\ Argument([buf EXCEPT ![cut] = NUL], cut + 1)

RedirectOut == /\ pc = "parse" /\ buf[ptr] = ">"
               /\ flag' = IF buf[ptr + 1] = ">" THEN 2 ELSE 1
               /\ Filename("out", ptr + flag')
               /\ UNCHANGED <<shell, pc, line, io>>

RedirectIn == /\ pc = "parse" /\ buf[ptr] = "<"
              /\ flag' = (flag % 4) + 4
              /\ Filename("in", ptr + 1)
              /\ UNCHANGED <<shell, pc, line, io>>

EndOfLine == /\ pc = "parse" /\ buf[ptr] = NUL /\ pc' = "fork"
             /\ UNCHANGED <<shell, line, buf, parsed, io>>

(* The next round of the shell has new variables; only the buffer of       *)
(* Myshell.c is where it was.                                              *)
Prompt == /\ pc' = "read" /\ line' = <<>>
          /\ buf' = IF shell = "Myshell.c" THEN buf ELSE Clear
          /\ ptr' = 1 /\ argv' = <<>> /\ flag' = 0 /\ name' = Nowhere /\ io' = Nowhere
          /\ UNCHANGED shell

Fork == /\ pc = "fork" /\ pc' = "open"
        /\ UNCHANGED <<shell, line, buf, parsed, io>>

ForkFails == pc = "fork" /\ Prompt

(* The child opens the files and runs the command, or exits when one of    *)
(* these fails; the shell waits for it.                                    *)
OpenFiles == /\ pc = "open" /\ pc' = "exec"
             /\ io' = [out |-> IF flag % 4 # 0 THEN name.out ELSE 0,
                       in |-> IF flag >= 4 THEN name.in ELSE 0]
             /\ UNCHANGED <<shell, line, buf, parsed>>

Wait == /\ pc = "exec" \/ (pc = "open" /\ flag # 0)
        /\ Prompt

Next == \/ ReadLine \/ Word \/ RedirectOut \/ RedirectIn \/ EndOfLine
        \/ Fork \/ ForkFails \/ OpenFiles \/ Wait

Spec == Init /\ [][Next]_vars

-----------------------------------------------------------------------------
(* What the user means by a line: its words, in order.  A word begins      *)
(* where no blank stands behind one, and ends before the next blank.       *)
Starts == {k \in 1..Len(line) : line[k] # Blank /\ (k = 1 \/ line[k - 1] = Blank)}
WordEnd(k) == Min({n \in k..Len(line) : n = Len(line) \/ line[n + 1] = Blank})
InOrder(T) == CHOOSE s \in [1..Cardinality(T) -> T] :
                \A m, n \in 1..Cardinality(T) : m < n => s[m] < s[n]
WordsAt(T) == [n \in 1..Cardinality(T) |-> SubSeq(line, InOrder(T)[n], WordEnd(InOrder(T)[n]))]

(* `<name`, `>name` and `>>name` ask for a redirection.                    *)
Marked == {k \in Starts : line[k] # "w"}
NameAt(k) == Min({n \in k..WordEnd(k) + 1 : n = WordEnd(k) + 1 \/ line[n] = "w"})
Name(k) == SubSeq(line, NameAt(k), WordEnd(k))
WellFormed == \A k \in Starts :
  /\ NameAt(k) <= WordEnd(k) /\ \A n \in NameAt(k)..WordEnd(k) : line[n] = "w"
  /\ SubSeq(line, k, NameAt(k) - 1) \in {<<>>, <<"<">>, <<">">>, <<">", ">">>}

TypeOK == /\ shell \in Shells
          /\ pc \in {"read", "parse", "fork", "open", "exec"}
          /\ line \in Lines
          /\ buf \in [1..Size -> Chars \cup {NUL}]
          /\ ptr \in 1..Size
          /\ \A n \in 1..Len(argv) : argv[n] \in 1..Size
          /\ flag \in {0, 1, 2, 4, 5, 6}
          /\ name \in [{"in", "out"} -> 0..Size] /\ io \in [{"in", "out"} -> 0..Size]

(* The command gets the words of its own line, in order, although the      *)
(* parser steps over the NUL that ends the line and Myshell.c has older    *)
(* text behind it; and one redirection goes to the file named, the others  *)
(* of its descriptors are as the shell has them.  But if the line ends     *)
(* there, or a blank behind, the command gets an empty argument too.       *)
ArgumentsInOrder == pc = "exec" /\ WellFormed =>
  /\ Marked = {} => Args = WordsAt(Starts) /\ io = Nowhere
  /\ \A k \in Marked : Marked = {k} =>
       LET plain == WordsAt(Starts \ {k})
           atEnd == WordEnd(k) + 1 >= Len(line)
           side == IF line[k] = "<" THEN "in" ELSE "out"
       IN /\ Args = IF atEnd THEN Append(plain, <<>>) ELSE plain
          /\ io[side] # 0 /\ Text(io[side]) = Name(k)
          /\ \A other \in {"in", "out"} \ {side} : io[other] = 0

(* relocateIO_note.txt:2 says that `<` redirects standard input to the     *)
(* file named; does the command read from it?                              *)
InputRedirected == pc = "exec" /\ WellFormed =>
  \A k \in Marked : line[k] = "<" => io.in # 0

=============================================================================
