------------------------- MODULE InternalAssertion -------------------------
(***************************************************************************)
(* The text of an internal assertion, as AssertionSigner::sign writes it   *)
(* and AssertionVerifier::verify reads it (apps/sisterd/identity/          *)
(* internal_assertion.cpp): three parts in base64url, of which the first   *)
(* two are JSON objects and the third an Ed25519 signature of them.        *)
(*                                                                         *)
(* An object is the sequence of its members; a value has the kind that the *)
(* JSON reader finds.  A signature is the key it was made with and the     *)
(* parts it was made over.  The numbers iat and exp stand in               *)
(* AssertionVerifier; here they are only present, and numbers.             *)
(***************************************************************************)
EXTENDS Integers, Sequences

CONSTANTS Kid,            \* config.internalIdentityKeyId
          PublicKeys,     \* publicKeys_: key identifier -> key
          VerificationRequirements,   \* VerificationRequirements: [audience, purpose, capability]
          ValidTokens,         \* the texts that validToken accepts
          Capabilities,   \* the texts that validCapability accepts
          ClaimSets,      \* what sisterd signs: [subject, audience, capabilities, purpose, requestId]
          KeyFiles        \* what the private key's file may be: [regular, strict, key]

Ed25519 == {"ed1", "ed2"}

\* The subsystem has been given a key under the identifier that sisterd signs with.
ASSUME KidAssumption == Kid \in DOMAIN PublicKeys

-----------------------------------------------------------------------------
(* Writing *)

\* FileKeyProvider::currentSigningKey and privateKey().
KeyUsable(file) == file.regular /\ file.strict /\ file.key \in Ed25519

\* What serializeClaims refuses to write.
ClaimsValid(c) ==
    /\ c.subject \in ValidTokens /\ c.audience \in ValidTokens /\ c.purpose \in ValidTokens
    /\ c.requestId \in ValidTokens
    /\ c.capabilities # <<>> /\ Len(c.capabilities) <= 8
    /\ \A i \in DOMAIN c.capabilities : c.capabilities[i] \in Capabilities

Member(name, kind, value) == [name |-> name, kind |-> kind, value |-> value]

SerializeHeader ==
    <<Member("alg", "string", "EdDSA"), Member("typ", "string", "sister-internal+jwt"),
      Member("kid", "string", Kid)>>

SerializeClaims(c) ==
    <<Member("iss", "string", "sisterd"), Member("sub", "string", c.subject),
      Member("aud", "string", c.audience), Member("capabilities", "list", c.capabilities),
      Member("purpose", "string", c.purpose), Member("iat", "number", 0), Member("exp", "number", 0),
      Member("jti", "string", "jti"), Member("request_id", "string", c.requestId)>>

\* The characters of n bytes in base64url, without the padding.
EncodedSize(n) == (4 * n + 2) \div 3

SignatureBytes == 64

Compact(c, key) ==
    [dots |-> 2, clean |-> TRUE, header |-> SerializeHeader, payload |-> SerializeClaims(c),
     characters |-> EncodedSize(SignatureBytes), key |-> key,
     over |-> <<SerializeHeader, SerializeClaims(c)>>]

-----------------------------------------------------------------------------
(* Reading *)

\* base64UrlDecode: the padding is put back, and its bytes taken off the result; one
\* character alone is no group.
DecodedSize(characters) ==
    IF characters % 4 = 1 THEN -1
    ELSE LET groups == (characters + 3) \div 4 IN 3 * groups - (4 * groups - characters)

WellFormed(text) ==
    text.dots = 2 /\ text.clean /\ DecodedSize(text.characters) = SignatureBytes

HeaderNames == {"alg", "typ", "kid"}
ClaimNames == {"iss", "sub", "aud", "capabilities", "purpose", "iat", "exp", "jti", "request_id"}

KindOf(name) ==
    CASE name \in {"iat", "exp"} -> "number" [] name = "capabilities" -> "list" [] OTHER -> "string"

\* The loops of parseHeader and parseClaims: each name once, no other, each with a
\* value of its kind.
Reads(members, names) ==
    /\ \A i \in DOMAIN members : members[i].name \in names /\ members[i].kind = KindOf(members[i].name)
    /\ \A i, j \in DOMAIN members : members[i].name = members[j].name => i = j
    /\ \A name \in names : \E i \in DOMAIN members : members[i].name = name

ValueOf(members, name) == members[CHOOSE i \in DOMAIN members : members[i].name = name].value

HeaderReads(header) ==
    /\ Reads(header, HeaderNames)
    /\ ValueOf(header, "alg") = "EdDSA" /\ ValueOf(header, "typ") = "sister-internal+jwt"

\* parseClaims gives what it read to serializeClaims, for its checks.
Claims(payload) ==
    [subject |-> ValueOf(payload, "sub"), audience |-> ValueOf(payload, "aud"),
     capabilities |-> ValueOf(payload, "capabilities"), purpose |-> ValueOf(payload, "purpose"),
     requestId |-> ValueOf(payload, "request_id")]

ClaimsRead(payload) ==
    /\ Reads(payload, ClaimNames)
    /\ ValueOf(payload, "iss") = "sisterd"
    /\ ClaimsValid(Claims(payload))

\* EVP_DigestVerify with the key of that identifier.
Verifies(text) ==
    text.key = PublicKeys[ValueOf(text.header, "kid")] /\ text.over = <<text.header, text.payload>>

Meets(c) ==
    /\ c.audience = VerificationRequirements.audience /\ c.purpose = VerificationRequirements.purpose
    /\ \E i \in DOMAIN c.capabilities : c.capabilities[i] = VerificationRequirements.capability

\* verify() up to the clocks, in its order: each test is made of what the one before
\* it let through.
Fits(text) ==
    /\ WellFormed(text)
    /\ HeaderReads(text.header)
    /\ ValueOf(text.header, "kid") \in DOMAIN PublicKeys
    /\ Verifies(text)
    /\ ClaimsRead(text.payload)
    /\ Meets(Claims(text.payload))

-----------------------------------------------------------------------------
(* What may become of a text between its writer and its reader. *)

Alterations == {"none", "part missing", "odd character", "signature cut", "claim doubled",
                "claim lost", "header reordered"}

Altered(text, how) ==
    CASE how = "none" -> text
      [] how = "part missing" -> [text EXCEPT !.dots = 1]
      [] how = "odd character" -> [text EXCEPT !.clean = FALSE]
      [] how = "signature cut" -> [text EXCEPT !.characters = @ - 2]
      [] how = "claim doubled" -> [text EXCEPT !.payload = Append(@, Head(@))]
      [] how = "claim lost" -> [text EXCEPT !.payload = Tail(@)]
      [] how = "header reordered" -> [text EXCEPT !.header = Append(Tail(@), Head(@))]
=============================================================================
