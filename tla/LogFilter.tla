------------------------------- MODULE LogFilter -------------------------------
(***************************************************************************)
(* What a log filter asks for: addresses and, by position, topics.  An     *)
(* option is a set: {} asks for nothing in particular, {S} for a member of *)
(* S, so that a JSON filter with an empty list matches no log.  A log is   *)
(* its address and its topics.                                             *)
(***************************************************************************)
EXTENDS Integers, Sequences

CONSTANT Invalid   \* an address or topic that does not parse

\* Serde refuses a JSON filter with an entry that does not parse.
Parses(f) == \A S \in f.addresses \cup UNION {f.topics[i] : i \in DOMAIN f.topics} : Invalid \notin S

\* The gRPC server drops such entries, and a list left empty asks for nothing.
Kept(option) == {S \ {Invalid} : S \in option} \ {{}}

Matches(l, f) ==
    /\ \A S \in f.addresses : l.address \in S
    /\ \A i \in DOMAIN f.topics : \A S \in f.topics[i] :
         i \in DOMAIN l.topics /\ l.topics[i] \in S
=============================================================================
