----------------------------- MODULE InputRelay -----------------------------
(***************************************************************************)
(* What is typed at `sbx start`, or piped into it, on its way to the shell:*)
(* the input pumps of sbx/cli.py, the pipe to the runner, _relay_input and *)
(* split_resize_requests of sbx/process.py.                                *)
(*                                                                         *)
(* Resize requests travel in the same byte stream as the keys.  A read may *)
(* take any part of what was written: the relay has to find the requests   *)
(* whatever the cuts, and must not hold back keys.  The bytes of a request *)
(* between its introducer ESC ] and its BEL are one element, the size.     *)
(***************************************************************************)
EXTENDS Naturals, Sequences, FiniteSets, SequencesExt, FiniteSetsExt

CONSTANTS Key,        \* bytes with no meaning to the relays
          Size,       \* sizes of the host's terminal
          MaxTyped,   \* how many keys are typed and resizes made
          MaxScript,  \* length of a piped script
          CutsEscape  \* whether a read may end just after an ESC, see RelayRead

ASSUME BoundsAreNat == MaxTyped \in Nat /\ MaxScript \in Nat
ASSUME CutsEscapeIsBoolean == CutsEscape \in BOOLEAN
ASSUME BytesDiffer ==
    LET meaningful == {"esc", "]", "bel", "cr", "lf"}
    IN  Key \cap meaningful = {} /\ Size \cap (Key \cup meaningful) = {}

VARIABLES
    piped,    \* stdin is a script, not the console
    input,    \* the part of the script that is not read yet
    taken,    \* keys typed, or the script so far (history)
    asked,    \* sizes of the resize events so far (history)
    afterCr,  \* PipedNewlines._after_cr
    pipe,     \* bytes between the two processes
    empty,    \* writes of no bytes in the pipe: how many bytes are before each
    cutShort, \* such a write ended the relay (history)
    ended,    \* the host has closed its end
    held,     \* the fragment _relay_input keeps for the next read
    shell,    \* what was written to the pseudo-console
    sizes,    \* the sizes it was given
    over,     \* the input relay has returned
    gone      \* the shell has exited and its pseudo-console is closed

hostVars == <<piped, input, taken, asked, afterCr, ended>>
relayVars == <<cutShort, held, shell, sizes, over, gone>>
vars == <<piped, input, taken, asked, afterCr, pipe, empty, cutShort, ended,
          held, shell, sizes, over, gone>>

Typed == Key \cup {"esc", "]", "bel"}
\* What a script is made of.  A request in it, size and all, is taken for one:
\* 9999 is nobody's sequence (process.py:31-32).
Script == Key \cup {"cr", "lf", "esc", "]", "bel"}
Byte == Typed \cup Script \cup Size

TypeOK ==
    /\ piped \in BOOLEAN
    /\ input \in Seq(Script)
    /\ taken \in Seq(Typed \cup Script)
    /\ asked \in Seq(Size)
    /\ afterCr \in BOOLEAN
    /\ pipe \in Seq(Byte)
    /\ empty \subseteq Nat
    /\ cutShort \in BOOLEAN
    /\ ended \in BOOLEAN
    /\ held \in Seq(Byte)
    /\ shell \in Seq(Byte \cup {"exit"})
    /\ sizes \in Seq(Size)
    /\ over \in BOOLEAN
    /\ gone \in BOOLEAN

Init ==
    /\ piped \in BOOLEAN
    /\ input \in IF piped THEN UNION {[1..n -> Script] : n \in 0..MaxScript}
                 ELSE {<<>>}
    /\ taken = <<>>
    /\ asked = <<>>
    /\ afterCr = FALSE
    /\ pipe = <<>>
    /\ empty = {}
    /\ cutShort = FALSE
    /\ ended = FALSE
    /\ held = <<>>
    /\ shell = <<>>
    /\ sizes = <<>>
    /\ over = FALSE
    /\ gone = FALSE

-----------------------------------------------------------------------------
(* Sequences of bytes *)

\* How many positions of I are not after i.
Rank(I, i) == Cardinality(I \cap (1..i))

\* The elements of s at the positions in I, in order.
Pick(s, I) == [k \in 1..Cardinality(I) |-> s[CHOOSE i \in I : Rank(I, i) = k]]

\* resize_request (process.py:36-39)
Request(size) == <<"esc", "]", size, "bel">>

\* Where RESIZE_OSC matches (33, 56). Matches cannot overlap.
Matches(data) ==
    {i \in 1..(Len(data) - 3) : \E s \in Size : SubSeq(data, i, i + 3) = Request(s)}

InMatch(data) == UNION {i..(i + 3) : i \in Matches(data)}

\* Where the text after the last match begins (59-60).
RestFrom(data) == Max({0} \cup InMatch(data)) + 1

\* The last ESC ] of the rest, when no BEL follows it; else the end (61-64).
HeldFrom(data) ==
    LET intro == Max({0} \cup {i \in RestFrom(data)..(Len(data) - 1) :
                                   data[i] = "esc" /\ data[i + 1] = "]"})
    IN  IF intro # 0 /\ \A j \in intro..Len(data) : data[j] # "bel"
        THEN intro ELSE Len(data) + 1

\* split_resize_requests: what the shell sees, the sizes, what is held.
PayloadOf(data) == Pick(data, (1..(HeldFrom(data) - 1)) \ InMatch(data))

\* Mutant: the other group of the match.
SizesOfNext(data) == Pick(data, {i + 3 : i \in Matches(data)})

SizesOf(data) == Pick(data, {i + 2 : i \in Matches(data)})
HeldOf(data) == SubSeq(data, HeldFrom(data), Len(data))

\* A script's line ends as a pseudo-console wants them: LF and CRLF are one
\* CR (cli.py:27).
AsKeys(data) ==
    LET kept == {i \in 1..Len(data) :
                    ~(data[i] = "lf" /\ i > 1 /\ data[i - 1] = "cr")}
    IN  [k \in 1..Cardinality(kept) |->
            IF Pick(data, kept)[k] = "lf" THEN "cr" ELSE Pick(data, kept)[k]]

\* Mutant: each read is translated for itself.
WithoutSplitLfNever(data) == data

\* PipedNewlines.feed drops the LF of a CRLF whose CR came before (24-25).
WithoutSplitLf(data) ==
    IF afterCr /\ data[1] = "lf" THEN Tail(data) ELSE data

-----------------------------------------------------------------------------
(* The host's pumps *)

Send(bytes) ==
    /\ pipe' = pipe \o bytes
    /\ empty' = empty \cup {n \in {Len(pipe)} : bytes = <<>>}

\* A key-down record with a character (cli.py:43-46, 115-135).  Keys with an
\* escape sequence and Alt with a key come as several records.
Type(b) ==
    /\ ~piped /\ ~ended
    /\ Len(taken) + Len(asked) < MaxTyped
    /\ taken' = Append(taken, b)
    /\ Send(<<b>>)
    /\ UNCHANGED <<piped, input, asked, afterCr, ended, relayVars>>

\* A window event whose size can be read (cli.py:47-50)
Resize(size) ==
    /\ ~piped /\ ~ended
    /\ Len(taken) + Len(asked) < MaxTyped
    /\ asked' = Append(asked, size)
    /\ Send(Request(size))
    /\ UNCHANGED <<piped, input, taken, afterCr, ended, relayVars>>

\* stdin.read returns some of the script (cli.py:143-149).
ReadStdin(n) ==
    /\ piped /\ n \in 1..Len(input)
    /\ LET data == WithoutSplitLf(SubSeq(input, 1, n))
       IN  /\ afterCr' = (data # <<>> /\ Last(data) = "cr")
           /\ Send(AsKeys(data))
    /\ taken' = taken \o SubSeq(input, 1, n)
    /\ input' = SubSeq(input, n + 1, Len(input))
    /\ UNCHANGED <<piped, asked, ended, relayVars>>

\* The script is read: close_input (cli.py:144-150).
StdinEnds ==
    /\ piped /\ input = <<>> /\ ~ended
    /\ ended' = TRUE
    /\ UNCHANGED <<piped, input, taken, asked, afterCr, pipe, empty, relayVars>>

\* The command of a console session is gone.
ConsoleEnds ==
    /\ ~piped /\ ~ended
    /\ ended' = TRUE
    /\ UNCHANGED <<piped, input, taken, asked, afterCr, pipe, empty, relayVars>>

-----------------------------------------------------------------------------
(* The runner's _relay_input *)

\* A read of n bytes passes over the writes of none between them.
TakeBytes(n) ==
    /\ pipe' = SubSeq(pipe, n + 1, Len(pipe))
    /\ empty' = {m - n : m \in {k \in empty : k >= n}}

\* Mutant: the fragment is replaced by the next read.
RelayForgets(n) ==
    /\ ~over /\ n \in 1..Len(pipe)
    /\ CutsEscape \/ n = Len(pipe) \/ pipe[n] # "esc"
    /\ LET data == SubSeq(pipe, 1, n)
       IN  /\ ~gone
           /\ shell' = shell \o PayloadOf(data)
           /\ sizes' = sizes \o SizesOf(data)
           /\ held' = HeldOf(data)
    /\ TakeBytes(n)
    /\ UNCHANGED <<hostVars, cutShort, over, gone>>

(***************************************************************************)
(* A read takes some of the bytes (process.py:349-368).  That one ends     *)
(* after the ESC of a request, which only the buffer's limit can cause, is *)
(* accepted by the code (50-51): then the request is not recognised.       *)
(***************************************************************************)
RelayRead(n) ==
    /\ ~over /\ n \in 1..Len(pipe)
    /\ CutsEscape \/ n = Len(pipe) \/ pipe[n] # "esc"
    /\ LET data == held \o SubSeq(pipe, 1, n)
       IN  /\ ~gone
           /\ shell' = shell \o PayloadOf(data)
           /\ sizes' = sizes \o SizesOf(data)
           /\ held' = HeldOf(data)
    /\ TakeBytes(n)
    /\ UNCHANGED <<hostVars, cutShort, over, gone>>

\* The shell has exited: a resize fails and is logged, a write of keys ends the
\* relay without a word more (358-368).
RelayBreaks(n) ==
    /\ ~over /\ gone /\ n \in 1..Len(pipe)
    /\ LET data == held \o SubSeq(pipe, 1, n)
       IN  /\ over' = (PayloadOf(data) # <<>>)
           /\ held' = HeldOf(data)
    /\ TakeBytes(n)
    /\ UNCHANGED <<hostVars, cutShort, shell, sizes, gone>>

\* The shell exits by itself, or is killed (482-487).
ShellEnds ==
    /\ ~gone
    /\ gone' = TRUE
    /\ UNCHANGED <<hostVars, pipe, empty, cutShort, held, shell, sizes, over>>

\* The host's end is closed: type `exit` (352-356, 369-372).
RelayEnds ==
    /\ ~over /\ ended /\ pipe = <<>>
    /\ shell' = IF gone THEN shell ELSE Append(shell, "exit")
    /\ over' = TRUE
    /\ UNCHANGED <<hostVars, pipe, empty, cutShort, held, sizes, gone>>

\* A read that finds a write of no bytes first returns none, which the relay
\* takes for the end (355-356).
RelayCutShort ==
    /\ ~over /\ 0 \in empty
    /\ shell' = IF gone THEN shell ELSE Append(shell, "exit")
    /\ over' = TRUE
    /\ cutShort' = TRUE
    /\ UNCHANGED <<hostVars, pipe, empty, held, sizes, gone>>

PumpStep == (\E n \in 1..MaxScript : ReadStdin(n)) \/ StdinEnds
RelayStep ==
    \/ \E n \in 1..Len(pipe) : RelayRead(n) \/ RelayBreaks(n)
    \/ RelayEnds \/ RelayCutShort

Next ==
    \/ \E b \in Typed : Type(b)
    \/ \E s \in Size : Resize(s)
    \/ PumpStep \/ ConsoleEnds \/ RelayStep \/ ShellEnds

Spec == Init /\ [][Next]_vars

-----------------------------------------------------------------------------
(* Properties *)

\* Once the pipe is empty, the shell has got the keys that were typed and no
\* byte of a request, and every resize in order, wherever the reads cut the
\* stream; what is still held is the last of the keys, from an ESC ] on: an ESC
\* alone is not kept waiting (process.py:50-51).
KeysIntact ==
    ~piped /\ ~over /\ ~gone /\ pipe = <<>> =>
        /\ shell \o held = taken /\ sizes = asked
        /\ held # <<>> => SubSeq(held, 1, 2) = <<"esc", "]">>

\* What the relay has written without the `exit` of its own.
Delivered == IF over THEN Front(shell) ELSE shell

\* No byte of a script is lost or moved before its end, its line ends are
\* translated as if it had been read at once (cli.py:17-18), and `exit` follows.
\* What the shell does not get is held back, the end of the script from an ESC ]
\* on that no BEL follows (process.py:61-64), or comes after a write of no bytes
\* that the relay took for the end (355-356).
ScriptIntact ==
    piped /\ ~gone =>
        /\ Delivered \o held \o pipe = AsKeys(taken)
        /\ held # <<>> => SubSeq(held, 1, 2) = <<"esc", "]">>
        /\ over => /\ Last(shell) = "exit"
                   /\ cutShort \/ (pipe = <<>> /\ input = <<>>)
=============================================================================
