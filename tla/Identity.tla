------------------------------ MODULE Identity ------------------------------
(***************************************************************************)
(* Symbolic model of the identity primitive of core/did.go.                *)
(*                                                                         *)
(* A peer is named by its Ed25519 public key.  sha256 is modelled as       *)
(* injective, so the DID suffix hex(sha256(pk)) is named by the key        *)
(* itself, and a signature is the pair (signing key, signed data): only    *)
(* the owner of a key can make a signature with it, anyone can copy one.   *)
(***************************************************************************)

\* The empty signature (a nil []byte, omitted on the wire).
NoSig == [by |-> "none", on |-> 0]

\* didFromKey: the DID derived from public key pk, hex(sha256(pk)).
didFromKey(pk) == pk

\* (*DID).ValidateBinding: hex(sha256(pubKey)) equals the DID's id.
ValidateBinding(did, pk) == didFromKey(pk) = did

\* (*DID).Sign with the private key of owner over data.
Sign(owner, data) == [by |-> owner, on |-> data]

\* len(sig) == 0: the signature is empty.
Unsigned(sig) == sig.by = NoSig.by

\* (*DID).Verify of DIDFromPublicKey(pk): ed25519.Verify(pk, data, sig).
\* The empty signature never verifies.
Verify(pk, data, sig) == ~Unsigned(sig) /\ sig.by = pk /\ sig.on = data
=============================================================================
