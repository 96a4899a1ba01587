------------------------- MODULE MCDispatcherConfig -------------------------
(* Every configuration of two or three processes over a few entries.       *)
EXTENDS DispatcherConfig

Absent == [kind |-> "absent", names |-> <<>>]
Str(n) == [kind |-> "string", names |-> <<n>>]
List(s) == [kind |-> "list", names |-> s]

ThreeProcesses == <<"gui", "capture", "processor">>
TwoProcesses == <<"gui", "capture">>

\* One name is a letter of the other: bare strings and lists, with names that
\* share letters, that are one letter, and lists of both without repetition.
PlainNames == {"a", "ab"}
PlainEntries ==
  {Absent, Str("a"), Str("ab"), List(<<"a">>), List(<<"ab">>), List(<<"ab", "a">>)}

\* A name given as a bare string here and in a list there.
StringNames == {"ab"}
StringEntries == {Absent, Str("ab"), List(<<"ab">>)}

MCLetters ==
  [n \in {"a", "ab"} |-> IF n = "a" THEN {"a"} ELSE {"a", "b"}]

PlainSizes == [n \in {"a"} |-> 3]
NoSizes == [n \in {} |-> 0]

\* The processes of the configuration, one too few, one of another name.
SomePassed == {ToSet(ThreeProcesses), {"gui", "capture"}, {"gui", "capture", "other"}}
BothPassed == {ToSet(TwoProcesses)}
=============================================================================
