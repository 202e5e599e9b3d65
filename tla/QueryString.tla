---------------------------- MODULE QueryString ----------------------------
(***************************************************************************)
(* KVQueryUrlValue::parse and lw_strtok_r of libutils/lw_util.cpp, by      *)
(* which the HTTP server takes the body of a login request apart: pairs    *)
(* k=v joined by &, cut out in place by writing terminators into the       *)
(* caller's buffer, with one tokenizer running inside another.             *)
(*                                                                         *)
(* A text is a sequence of characters; the buffer has a terminator after   *)
(* it.  Characters other than & and = are alike.  Positions stand for      *)
(* pointers.  HttpServer calls parse and takes its steps.                  *)
(***************************************************************************)
EXTENDS Integers, Sequences, SequencesExt, FiniteSetsExt

CONSTANTS Letters,   \* the other characters
          Nul,       \* the terminator
          MaxLen     \* bound: the length of a text

ASSUME LetterAssumption == Letters \cap {"&", "=", Nul} = {} /\ Nul \notin {"&", "="}
ASSUME LengthAssumption == MaxLen \in Nat

VARIABLES text,      \* the text given to parse
          buf,       \* data, as parse has cut it so far
          pc,        \* where parse is
          p0, p1,    \* the pair at hand, and where the next begins
          q1,        \* where the rest of the pair begins
          k,         \* the key of the pair at hand
          kv,        \* _kv
          ret        \* what parse returned

parseVars == <<text, buf, pc, p0, p1, q1, k, kv, ret>>

NULL  == 0
Texts == UNION {[1 .. n -> Letters \cup {"&", "="}] : n \in 0 .. MaxLen}

\* The first place from i on that holds d or ends the string.
Stop(b, i, d) == CHOOSE j \in i .. Len(b) : b[j] \in {d, Nul} /\ \A h \in i .. j - 1 : b[h] \notin {d, Nul}

\* The string that begins at i.
CString(b, i) == SubSeq(b, i, Stop(b, i, Nul) - 1)

\* Slip: an empty rest is a token.
strtok_empty(b, s, d) ==
  IF s = NULL THEN [tok |-> NULL, rest |-> s, buf |-> b]
  ELSE IF b[Stop(b, s, d)] = Nul THEN [tok |-> s, rest |-> NULL, buf |-> b]
  ELSE [tok |-> s, rest |-> Stop(b, s, d) + 1, buf |-> [b EXCEPT ![Stop(b, s, d)] = Nul]]

\* lw_strtok_r: the token from s up to the delimiter, which is overwritten, or
\* up to the end; none if s is null or the string is at its end.
lw_strtok_r(b, s, d) ==
  IF s = NULL \/ b[s] = Nul THEN [tok |-> NULL, rest |-> s, buf |-> b]
  ELSE IF b[Stop(b, s, d)] = Nul THEN [tok |-> s, rest |-> NULL, buf |-> b]
  ELSE [tok |-> s, rest |-> Stop(b, s, d) + 1, buf |-> [b EXCEPT ![Stop(b, s, d)] = Nul]]

ParseInit ==
  /\ text = <<>> /\ buf = <<Nul>>
  /\ pc = "idle" /\ p0 = NULL /\ p1 = NULL /\ q1 = NULL
  /\ k = <<>> /\ kv = <<>> /\ ret = 0

\* parse is called with t; its caller is done with what it has left.
Call(t) ==
  /\ text' = t /\ buf' = Append(t, Nul)
  /\ pc' = "first" /\ UNCHANGED <<p0, p1, q1, k, kv, ret>>

Dispose ==
  /\ text' = <<>> /\ buf' = <<Nul>>
  /\ pc' = "idle" /\ p0' = NULL /\ p1' = NULL /\ q1' = NULL
  /\ k' = <<>> /\ kv' = <<>> /\ ret' = 0

Return(r) == pc' = "done" /\ ret' = r

-----------------------------------------------------------------------------
(* parse.                                                                  *)

FirstPair ==
  LET t == lw_strtok_r(buf, 1, "&") IN
  /\ pc = "first"
  /\ p0' = t.tok /\ p1' = t.rest /\ buf' = t.buf
  /\ IF t.tok = NULL THEN Return(-1) ELSE pc' = "key" /\ UNCHANGED ret
  /\ UNCHANGED <<text, q1, k, kv>>


Key ==
  LET t == lw_strtok_r(buf, p0, "=") IN
  /\ pc = "key"
  /\ q1' = t.rest /\ buf' = t.buf
  /\ IF t.tok = NULL THEN Return(-1) /\ UNCHANGED k
                     ELSE pc' = "value" /\ k' = CString(t.buf, t.tok) /\ UNCHANGED ret
  /\ UNCHANGED <<text, p0, p1, kv>>

Value ==
  LET t == lw_strtok_r(buf, q1, "=") IN
  /\ pc = "value"
  /\ q1' = t.rest /\ buf' = t.buf
  /\ IF t.tok = NULL THEN Return(-1) /\ UNCHANGED kv
                     ELSE pc' = "next" /\ kv' = Append(kv, <<k, CString(t.buf, t.tok)>>) /\ UNCHANGED ret
  /\ UNCHANGED <<text, p0, p1, k>>

NextPair ==
  LET t == lw_strtok_r(buf, p1, "&") IN
  /\ pc = "next"
  /\ p0' = t.tok /\ p1' = t.rest /\ buf' = t.buf
  /\ IF t.tok = NULL THEN Return(0) ELSE pc' = "key" /\ UNCHANGED ret
  /\ UNCHANGED <<text, q1, k, kv>>

ParseNext == FirstPair \/ Key \/ Value \/ NextPair

-----------------------------------------------------------------------------
(* What a text means: its fields lie between the & in it, and nothing      *)
(* follows the last of them; a field is a key, =, and a value that is not  *)
(* nothing; a value ends at another =.                                     *)

Cuts(t)    == {0, Len(t) + 1} \cup {i \in 1 .. Len(t) : t[i] = "&"}
Cut(t, n)  == CHOOSE i \in Cuts(t) : Cardinality({j \in Cuts(t) : j < i}) = n
Between(t) == [n \in 1 .. Cardinality(Cuts(t)) - 1 |-> SubSeq(t, Cut(t, n - 1) + 1, Cut(t, n) - 1)]
Fields(t)  == IF Last(Between(t)) = <<>> THEN Front(Between(t)) ELSE Between(t)

Equals(f) == {i \in 1 .. Len(f) : f[i] = "="}
Sound(f)  == Equals(f) # {} /\ Min(Equals(f)) < Len(f)
Pair(f)   == LET e == Min(Equals(f))
                 n == Min((Equals(f) \ {e}) \cup {Len(f) + 1})
             IN  <<SubSeq(f, 1, e - 1), SubSeq(f, e + 1, n - 1)>>

\* How many fields there are before one that is not sound.
SoundFields(t) == CHOOSE n \in 0 .. Len(Fields(t)) :
                    /\ \A i \in 1 .. n : Sound(Fields(t)[i])
                    /\ n = Len(Fields(t)) \/ ~ Sound(Fields(t)[n + 1])
Pairs(t)       == [i \in 1 .. SoundFields(t) |-> Pair(Fields(t)[i])]

-----------------------------------------------------------------------------
ParseTypeOK ==
  /\ buf \in Seq(Letters \cup {"&", "=", Nul}) /\ Len(buf) = Len(text) + 1
  /\ pc \in {"idle", "first", "key", "value", "next", "done"}
  /\ {p0, p1, q1} \subseteq 0 .. Len(buf)
  /\ ret \in {0, -1}

\* When parse returns, _kv has the pairs of the sound fields up to the first
\* that is not, and the result says whether that was all of them.  parse
\* overwrites delimiters and nothing else, and none beyond the pair it is
\* working on.  (Checked with the types.)
ParsedExactly ==
  /\ ParseTypeOK
  /\ pc = "done" => /\ kv = Pairs(text)
                    /\ ret = 0 <=> text # <<>> /\ Len(kv) = Len(Fields(text))
  /\ \A i \in 1 .. Len(text) :
       buf[i] # text[i] => /\ buf[i] = Nul /\ text[i] \in {"&", "="}
                           /\ p1 # NULL => i < p1
=============================================================================
