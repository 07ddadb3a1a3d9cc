---------------------------- MODULE Negotiation ----------------------------
(***************************************************************************)
(* The default negotiation policy of core/negotiation.go as operators.     *)
(*                                                                         *)
(* Trust deltas are in hundredths (0.05 is 5).  The reason string is       *)
(* abstracted to the list of missing capabilities it prints, and a         *)
(* workflow step string "op:arg" to the record [op, arg].  The response's  *)
(* signature is left out: NegotiationResponse.Encode never writes it.      *)
(***************************************************************************)
EXTENDS Integers, Sequences

\* trustDelta: +0.05 on accept, -0.02 on reject.
AcceptDelta == 5
RejectDelta == -2
trustDelta(accepted) == IF accepted THEN AcceptDelta ELSE RejectDelta

\* missingCapabilities: the required tags, in order, absent from available.
missingCapabilities(required, available) ==
    SelectSeq(required, LAMBDA c : c \notin available)

\* Mutant: the loop over required capabilities stops one short.
buildWorkflowShort(id, required) ==
    <<[op |-> "parse_intent", arg |-> id]>>
    \o [k \in 1..(Len(required) - 1) |-> [op |-> "execute", arg |-> required[k]]]
    \o <<[op |-> "return_result", arg |-> id]>>

\* buildWorkflow: parse_intent:<id>, execute:<cap> per required cap,
\* return_result:<id>.
buildWorkflow(id, required) ==
    <<[op |-> "parse_intent", arg |-> id]>>
    \o [k \in 1..Len(required) |-> [op |-> "execute", arg |-> required[k]]]
    \o <<[op |-> "return_result", arg |-> id]>>

\* The response DefaultNegotiationHandler(agent) builds for an intent, for
\* an agent whose id and DID are both named self.
DefaultNegotiationHandler(self, available, intent) ==
    LET missing  == missingCapabilities(intent.req, available)
        accepted == missing = <<>>
    IN  [type     |-> "neg",
         reqId    |-> intent.id,
         agent    |-> self,
         accepted |-> accepted,
         steps    |-> IF accepted THEN buildWorkflow(intent.id, intent.req)
                                  ELSE <<>>,
         did      |-> self,
         reason   |-> missing,
         delta    |-> trustDelta(accepted)]
=============================================================================
