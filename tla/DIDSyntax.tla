------------------------------ MODULE DIDSyntax ------------------------------
(***************************************************************************)
(* The DID string form of core/did.go: DID.String writes                   *)
(* "did:<method>:<id>" and ParseDID reads it back.  Both handshake sides   *)
(* call ParseDID on the DID a peer sends and then ValidateBinding on the   *)
(* parsed id, so what ParseDID accepts decides which strings a key can     *)
(* bind.  A string is a sequence of one-character strings.                 *)
(***************************************************************************)
EXTENDS Integers, Sequences

Colon == ":"
Prefix == <<"d", "i", "d", ":">>

\* fmt.Sscanf(s, "did:%s", &method): the literal "did:" must match, and %s
\* must then find a token, skipping leading spaces.
SscanfOK(s) ==
    /\ Len(s) > Len(Prefix)
    /\ SubSeq(s, 1, Len(Prefix)) = Prefix
    /\ \E k \in Len(Prefix) + 1..Len(s) : s[k] # " "

InvalidFormat == [ok |-> FALSE, err |-> "invalid format"]
TooShort == [ok |-> FALSE, err |-> "too short"]

\* The positions of rest holding a colon.
Colons(rest) == {k \in 1..Len(rest) : rest[k] = Colon}

\* Mutant: the scan loop without its break, so the last colon splits.
SplitAtColonNoBreak(rest) ==
    IF Colons(rest) = {} THEN [m |-> <<>>, id |-> <<>>]
    ELSE LET i == CHOOSE i \in Colons(rest) : \A j \in Colons(rest) : j <= i
         IN [m |-> SubSeq(rest, 1, i - 1), id |-> SubSeq(rest, i + 1, Len(rest))]

\* The loop over rest: at the first colon, method = rest[:i], id =
\* rest[i+1:], break.  With no colon id stays "" (method keeps the token
\* Sscanf stored, which the empty id then makes irrelevant).
SplitAtColon(rest) ==
    IF Colons(rest) = {} THEN [m |-> <<>>, id |-> <<>>]
    ELSE LET i == CHOOSE i \in Colons(rest) : \A j \in Colons(rest) : i <= j
         IN [m |-> SubSeq(rest, 1, i - 1), id |-> SubSeq(rest, i + 1, Len(rest))]

\* ParseDID(s): a DID with Method and ID, or an error.
ParseDID(s) ==
    LET sp == SplitAtColon(SubSeq(s, Len(Prefix) + 1, Len(s))) IN
    CASE ~SscanfOK(s)                  -> InvalidFormat
      [] Len(s) <= Len(Prefix)         -> TooShort
      [] sp.m = <<>> \/ sp.id = <<>>   -> InvalidFormat
      [] OTHER                         -> [ok |-> TRUE, Method |-> sp.m, ID |-> sp.id]

\* DID.String: fmt.Sprintf("did:%s:%s", d.Method, d.ID).
DIDString(d) == Prefix \o d.Method \o <<Colon>> \o d.ID

(***************************************************************************)
(* The reference: the DIDs whose string is s, with a non-empty method      *)
(* free of colons and a non-empty id (spec.md 4.1: did:<method>:<id>).     *)
(***************************************************************************)
DIDsOf(s) ==
    {[Method |-> SubSeq(s, Len(Prefix) + 1, k - 1), ID |-> SubSeq(s, k + 1, Len(s))] :
        k \in {k \in Len(Prefix) + 2..Len(s) - 1 :
                 /\ s[k] = Colon
                 /\ SubSeq(s, 1, Len(Prefix)) = Prefix
                 /\ \A j \in Len(Prefix) + 1..k - 1 : s[j] # Colon}}

\* ParseDID accepts exactly the strings of the form did:<method>:<id>, with
\* the method up to the first colon, and what it returns prints back as the
\* string it read: the DID a peer sent is the DID the host keys it by.
ParseDIDMatchesGrammar(s) ==
    LET r == ParseDID(s) IN
    /\ r.ok <=> DIDsOf(s) # {}
    /\ r.ok => /\ DIDsOf(s) = {[Method |-> r.Method, ID |-> r.ID]}
               /\ DIDString(r) = s
====
