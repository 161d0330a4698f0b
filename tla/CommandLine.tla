---------------------------- MODULE CommandLine -----------------------------
(***************************************************************************)
(* How a console line becomes the arguments of a command: handleCommand    *)
(* (src/src/command.cpp).  Words are separated by spaces; both kinds of    *)
(* quote keep spaces and the other kind; the words are written one after   *)
(* the other into a buffer of fixed size, with a zero behind each.         *)
(*                                                                         *)
(* Somebody types the arguments they mean, quoting as they like; the loop  *)
(* of handleCommand takes one character per iteration and never looks      *)
(* ahead, so it reads each one as it is typed.  Every state is a line that *)
(* may end there, a quote left open included.                              *)
(***************************************************************************)
EXTENDS Integers, Sequences

CONSTANTS
  ArgvSize,    \* the length of argv, 32
  ArgbufSize,  \* the length of argbuf without the last zero, 1023
  MaxWords,    \* bound: words that are typed
  MaxBytes     \* bound: characters of the words and zeros between them

ASSUME CommandLineAssumption ==
  /\ ArgvSize \in Nat \ {0} /\ ArgbufSize \in Nat
  /\ MaxWords \in Nat /\ MaxBytes \in Nat

VARIABLES
  args,     \* the arguments that are meant,
  need,     \* the bytes they take, with the zeros between them,
  open,     \* and the quote that is open where they are typed
  argbuf,   \* the loop of handleCommand: what is written up to arg_dst,
  argv,     \* where in it the words begin, from 1 on,
  arg_ptr,  \* where the word begun begins,
  quotes    \* the quote that is open there

typedVars == <<args, need, open>>
loopVars == <<argbuf, argv, arg_ptr, quotes>>
lineVars == <<typedVars, loopVars>>

Letters == {"letter", "space", "single", "double"}
Quotes == {"single", "double"}
NUL == "nul"

-----------------------------------------------------------------------------
Full == Len(argv) >= ArgvSize \/ Len(argbuf) >= ArgbufSize

\* Mutant: quotes of the other kind are dropped inside a quoted word.
TogglesAny(c) == c \in Quotes

\* A quote opens one, or closes the one of its kind.
Toggles(c) == c \in Quotes /\ quotes \in {"none", c}

Toggle(c) ==
  /\ quotes' = IF quotes = c THEN "none" ELSE c
  /\ UNCHANGED <<argbuf, argv, arg_ptr>>

\* A space that is not quoted ends the word.
EndWord ==
  /\ argbuf' = Append(argbuf, NUL)
  /\ argv' = Append(argv, arg_ptr)
  /\ arg_ptr' = Len(argbuf) + 2
  /\ UNCHANGED quotes

\* Everything else is copied.
Copy(c) ==
  /\ argbuf' = Append(argbuf, c)
  /\ UNCHANGED <<argv, arg_ptr, quotes>>

\* One character of the line; nothing more is read when something is full.
Read(c) ==
  \/ Full /\ UNCHANGED loopVars
  \/ ~Full /\ Toggles(c) /\ Toggle(c)
  \/ ~Full /\ ~Toggles(c) /\ c = "space" /\ quotes = "none" /\ EndWord
  \/ ~Full /\ ~Toggles(c) /\ ~(c = "space" /\ quotes = "none") /\ Copy(c)

-----------------------------------------------------------------------------
(***************************************************************************)
(* What is typed, one character at a time: a quote around what follows or  *)
(* at its end, a character of the word (one that means nothing else here), *)
(* or the space before the next word.                                      *)
(***************************************************************************)
OpenQuote == /\ open = "none"
             /\ \E q \in Quotes : open' = q /\ Read(q)
             /\ UNCHANGED <<args, need>>

CloseQuote == /\ open # "none"
              /\ open' = "none" /\ Read(open)
              /\ UNCHANGED <<args, need>>

TypeChar == /\ need < MaxBytes
            /\ \E c \in Letters :
                 /\ IF open = "none" THEN c = "letter" ELSE c # open
                 /\ args' = [args EXCEPT ![Len(args)] = Append(@, c)]
                 /\ Read(c)
            /\ need' = need + 1
            /\ UNCHANGED open

NextWord == /\ open = "none"
            /\ need < MaxBytes /\ Len(args) < MaxWords
            /\ args' = Append(args, <<>>)
            /\ Read("space")
            /\ need' = need + 1
            /\ UNCHANGED open

InitLine == /\ args = << <<>> >> /\ need = 0 /\ open = "none"
            /\ argbuf = <<>> /\ argv = <<>> /\ arg_ptr = 1 /\ quotes = "none"

TypeLine == OpenQuote \/ CloseQuote \/ TypeChar \/ NextWord

-----------------------------------------------------------------------------
\* The loop ends with a zero behind the last word, which is an argument if
\* there is room in argv.
Argbuf == Append(argbuf, NUL)
Argv == IF Len(argv) < ArgvSize THEN Append(argv, arg_ptr) ELSE argv

\* What a command reads at place p of the buffer: all up to the next zero.
StringAt(p) ==
  LET end == CHOOSE e \in p..Len(Argbuf) :
               Argbuf[e] = NUL /\ \A j \in p..(e - 1) : Argbuf[j] # NUL IN
  SubSeq(Argbuf, p, end - 1)

\* The arguments of the line.
handleCommand == [i \in 1..Len(Argv) |-> StringAt(Argv[i])]

\* The words and the zeros between them fit the buffer.
Fits == Len(args) <= ArgvSize /\ need <= ArgbufSize

(***************************************************************************)
(* Every list of arguments can be typed: however it is quoted, a command   *)
(* gets exactly the words that were meant, spaces, quotes and empty words  *)
(* included; and a line that is too long loses only its end, with the      *)
(* buffer and argv never exceeded (handleCommand).                         *)
(***************************************************************************)
QuotingWorks ==
  LET given == handleCommand
      last == Len(given) IN
  /\ Fits => given = args
  /\ last \in 1..ArgvSize /\ last <= Len(args)
  /\ Len(argbuf) <= ArgbufSize
  /\ \A i \in 1..last : Argv[i] \in 1..Len(Argbuf)
  /\ \A i \in 1..(last - 1) : given[i] = args[i]
  /\ Len(given[last]) <= Len(args[last])
  /\ given[last] = SubSeq(args[last], 1, Len(given[last]))
=============================================================================
