----------------------------- MODULE SqlRedaction ------------------------------
(***************************************************************************)
(* redactSqlLiterals (upstream/sqlRedaction.ts): one pass over a statement *)
(* that replaces literals and drops comments, one action for each round of *)
(* its loops.  Characters are members of a small alphabet; each character  *)
(* that is copied keeps the position it came from.                         *)
(***************************************************************************)
EXTENDS Integers, Sequences, SequencesExt, FiniteSetsExt

CONSTANTS
  Alphabet,   \* the characters statements are made of; dq and nl are " and the end of a line
  MaxLen      \* bound: length of a statement

Digit == {"1"}
Word == {"1", "a", "$"}          \* /[A-Za-z0-9_$]/
InNumber == {"1", "a", "."}      \* /[0-9A-Za-z_.]/
Blank == {" ", "nl"}

VARIABLES
  sql, i, mode,     \* the statement, the position, and the loop it is in
  out,              \* what has been written: characters with their positions
  pass, first       \* 1, then 2 when the result is redacted once more; the first result

vars == <<sql, i, mode, out, pass, first>>

Init ==
  /\ sql \in UNION {[1..k -> Alphabet] : k \in 0..MaxLen}
  /\ i = 1 /\ mode = "top" /\ out = <<>> /\ pass = 1 /\ first = <<>>

-------------------------------------------------------------------------------
N == Len(sql)
At(k) == IF k \in 1..N THEN sql[k] ELSE "none"
Char(c) == <<[ch |-> c, pos |-> 0]>>
Copied(a, b) == [k \in 1..(b - a + 1) |-> [ch |-> sql[a + k - 1], pos |-> a + k - 1]]

Move(k, m) == i' = k /\ mode' = m /\ UNCHANGED <<sql, pass, first>>

(* The loop over the characters between quotes; a doubled one stays inside. *)
Quoted(q, m, written) ==
  /\ mode = m
  /\ \/ i > N /\ Move(i, "top") /\ out' = out \o written
     \/ At(i) = q /\ At(i + 1) = q /\ Move(i + 2, m) /\ UNCHANGED out
     \/ At(i) = q /\ At(i + 1) # q /\ Move(i + 1, "top") /\ out' = out \o written
     \/ i <= N /\ At(i) # q /\ Move(i + 1, m) /\ UNCHANGED out

OpenString == mode = "top" /\ At(i) = "'" /\ Move(i + 1, "string") /\ UNCHANGED out
InString == Quoted("'", "string", Char("?"))

(* An identifier is kept verbatim, quotes included.                          *)
OpenIdentifier ==
  /\ mode = "top" /\ At(i) = "dq"
  /\ out' = out \o Copied(i, i)
  /\ Move(i + 1, "identifier")

InIdentifier ==
  /\ mode = "identifier"
  /\ \/ i > N /\ Move(i, "top") /\ UNCHANGED out
     \/ At(i) = "dq" /\ At(i + 1) = "dq" /\ Move(i + 2, "identifier") /\ out' = out \o Copied(i, i + 1)
     \/ At(i) = "dq" /\ At(i + 1) # "dq" /\ Move(i + 1, "top") /\ out' = out \o Copied(i, i)
     \/ i <= N /\ At(i) # "dq" /\ Move(i + 1, "identifier") /\ out' = out \o Copied(i, i)

LineComment ==
  /\ mode = "top" /\ At(i) = "-" /\ At(i + 1) = "-"
  /\ Move(Min({k \in i..N : sql[k] = "nl"} \cup {N + 1}), "top")
  /\ out' = out \o Char(" ")

CommentEnd == Min({k + 2 : k \in {k \in (i + 2)..(N - 1) : sql[k] = "*" /\ sql[k + 1] = "/"}} \cup {N + 1})

BlockComment ==
  /\ mode = "top" /\ At(i) = "/" /\ At(i + 1) = "*"
  /\ Move(CommentEnd, "top")
  /\ out' = out \o Char(" ")

LastIsWord == out # <<>> /\ Last(out).ch \in Word

Number ==
  /\ mode = "top" /\ At(i) \in Digit /\ ~LastIsWord
  /\ Move(Min({k \in i..N : sql[k] \notin InNumber} \cup {N + 1}), "top")
  /\ out' = out \o Char("?")

Copy ==
  /\ mode = "top" /\ i <= N /\ At(i) \notin {"'", "dq"}
  /\ ~(At(i) = "-" /\ At(i + 1) = "-") /\ ~(At(i) = "/" /\ At(i + 1) = "*")
  /\ At(i) \in Digit => LastIsWord
  /\ out' = out \o Copied(i, i)
  /\ Move(i + 1, "top")

Trimmed(s) ==
  LET kept == {k \in 1..Len(s) : s[k].ch \notin Blank}
  IN IF kept = {} THEN <<>> ELSE SubSeq(s, Min(kept), Max(kept))

Done == mode = "top" /\ i > N

(* The result, redacted once more in a second pass. *)
Return ==
  /\ Done /\ pass = 1
  /\ first' = Trimmed(out) /\ pass' = 2
  /\ sql' = [k \in 1..Len(first') |-> first'[k].ch] /\ i' = 1 /\ mode' = "top" /\ out' = <<>>

Next ==
  \/ OpenString \/ InString \/ OpenIdentifier \/ InIdentifier
  \/ LineComment \/ BlockComment \/ Number \/ Copy \/ Return

Spec == Init /\ [][Next]_vars

-------------------------------------------------------------------------------
(* Properties. *)

(* The lexical state of SQL after the first k characters: an automaton that  *)
(* reads one character at a time and never looks ahead.                      *)
Step(state, c) ==
  CASE state \in {"string", "identifier"} ->
         IF c = (IF state = "string" THEN "'" ELSE "dq") THEN state \o "Quote" ELSE state
    [] state = "line" -> IF c = "nl" THEN "code" ELSE "line"
    [] state = "block" -> IF c = "*" THEN "star" ELSE "block"
    [] state = "star" -> IF c = "/" THEN "blockEnd" ELSE IF c = "*" THEN "star" ELSE "block"
    [] state = "dash" /\ c = "-" -> "line"
    [] state = "slash" /\ c = "*" -> "blockStart"
    [] state = "blockStart" -> IF c = "*" THEN "star" ELSE "block"
    [] c = "'" -> "string"
    [] c = "dq" -> "identifier"
    [] c = "-" -> "dash"
    [] c = "/" -> "slash"
    [] OTHER -> "code"

Lexed(s) == LET f[k \in 0..Len(s)] == IF k = 0 THEN "code" ELSE Step(f[k - 1], s[k]) IN f

Hidden == {"string", "stringQuote", "line", "block", "star", "blockStart", "blockEnd"}

(* No character of a string literal or of the inside of a comment is copied. *)
LiteralsHidden ==
  pass = 1 => LET state == Lexed(sql) IN
    \A k \in 1..Len(out) : out[k].pos # 0 => state[out[k].pos] \notin Hidden

(* A digit is copied only as part of a word that begins with a letter or $,  *)
(* or inside a double-quoted identifier.                                     *)
NumbersHidden ==
  pass = 1 => LET state == Lexed(sql) IN
    \A k \in 1..Len(out) :
      out[k].pos # 0 /\ out[k].ch \in Digit /\ state[out[k].pos] # "identifier" =>
        \E a \in 1..out[k].pos : sql[a] \in {"a", "$"} /\ \A j \in a..out[k].pos : sql[j] \in Word

(* Redacting a result again changes nothing: no token is put together from   *)
(* the pieces around one that was removed.                                   *)
Idempotent ==
  pass = 2 /\ Done => [k \in 1..Len(Trimmed(out)) |-> Trimmed(out)[k].ch] = sql

(* What the comment says: an unterminated construct is redacted to the end.  *)
UnterminatedRedacted ==
  pass = 1 /\ Done /\ Lexed(sql)[N] = "identifier" => \A k \in 1..Len(out) : out[k].pos # N
===============================================================================
