----------------------------- MODULE ContentRead -----------------------------
(***************************************************************************)
(* The content vault and the read of one text through the local API:       *)
(* put_bytes and read_verified_bytes of content-vault, authorize_reference *)
(* of core/content_access.rs over raw_event_by_id, and                     *)
(* read_text_content_with_policy of the agent's content_read.rs.           *)
(*                                                                         *)
(* A content stands for its bytes and for their SHA-256 digest.  A vault   *)
(* is what the file of every digest holds.                                 *)
(***************************************************************************)
EXTENDS Naturals, Sequences

CONSTANTS
  Contents,        \* byte strings
  Length,          \* their lengths
  NotUtf8,         \* the ones that are not UTF-8
  MaxTextBytes,    \* MAX_TEXT_CONTENT_BYTES (96 KiB)
  Missing,         \* no file
  NotRegular,      \* a directory, a symbolic link
  PlainText,       \* media types that is_utf8_plain_text accepts
  MediaTypes,
  Scopes,
  None

ASSUME LengthAssumption == Length \in [Contents -> Nat] /\ MaxTextBytes \in Nat
ASSUME NotUtf8Assumption == NotUtf8 \subseteq Contents /\ PlainText \subseteq MediaTypes
ASSUME MissingAssumption ==
  {Missing, NotRegular} \cap Contents = {} /\ Missing # NotRegular

(* SensitivityClass and RetrievalClass as ranks.                           *)
Rank == 0 .. 2
Metadata == 0
Sensitive == 2
NormalRef == 0
SensitiveRef == 1
SecretRef == 2

ContentRef ==
  [sha256 : Contents, media : MediaTypes, length : Nat, compressed : BOOLEAN,
   local : BOOLEAN, class : Rank]

(***************************************************************************)
(* The vault                                                               *)
(***************************************************************************)
Vault == [Contents -> Contents \cup {Missing, NotRegular}]

(* put_bytes: what has a file is taken for stored and is not looked at.    *)
(* The temporary file has a name of its own, and a rename that fails       *)
(* changes nothing.                                                        *)
PutBytes(vault, c) == [vault EXCEPT ![c] = IF @ = Missing THEN c ELSE @]

ReadVerifiedBytes(vault, sha) ==
  IF vault[sha] \in {Missing, NotRegular} THEN "failed"
  ELSE IF Length[vault[sha]] > MaxTextBytes THEN "too_large"
  ELSE IF vault[sha] # sha THEN "failed"
  ELSE "ok"

(***************************************************************************)
(* Authorization                                                           *)
(***************************************************************************)
(* ReadCapabilityPolicy::from_environment: no token, an environment that   *)
(* does not parse, or one of the two profiles.  The metadata profile reads *)
(* no text at all.                                                         *)
MetadataProfile(scopes) ==
  [mode |-> "valid", scopes |-> scopes, sensitivity |-> Metadata, retrieval |-> NormalRef,
   text |-> FALSE]
SensitiveProfile(scopes) ==
  [mode |-> "valid", scopes |-> scopes, sensitivity |-> Sensitive, retrieval |-> SensitiveRef,
   text |-> TRUE]
NoPolicy == [MetadataProfile({}) EXCEPT !.mode = "none"]
InvalidPolicy == [MetadataProfile({}) EXCEPT !.mode = "invalid"]

Policy ==
  [mode : {"valid", "none", "invalid"}, scopes : SUBSET Scopes, sensitivity : Rank,
   retrieval : Rank, text : BOOLEAN]

(* `fault' names what does not decode in a row of raw_event: the indexed   *)
(* sensitivity, the envelope or its version, or their agreement.           *)
Faults == {None, "sensitivity", "envelope", "mismatch"}

Carried(row, sha) == {i \in DOMAIN row.refs : row.refs[i].sha256 = sha}

(* find: the first reference with the digest decides.                      *)
FirstRef(row, sha) ==
  row.refs[CHOOSE i \in Carried(row, sha) : \A j \in Carried(row, sha) : i <= j]

(* Mutant: the envelope is decoded before the scope is checked.            *)
AuthorizeReference_DecodesFirst(rows, id, sha, policy) ==
  IF ~\E row \in rows : row.id = id THEN "denied"
  ELSE LET raw == CHOOSE row \in rows : row.id = id IN
    IF raw.fault # None THEN "failed"
    ELSE IF raw.scope \notin policy.scopes THEN "denied"
    ELSE IF raw.sensitivity > policy.sensitivity THEN "denied"
    ELSE IF Carried(raw, sha) = {} THEN "denied"
    ELSE IF FirstRef(raw, sha).class > policy.retrieval THEN "denied"
    ELSE "granted"

AuthorizeReference(rows, id, sha, policy) ==
  IF ~\E row \in rows : row.id = id THEN "denied"
  ELSE LET raw == CHOOSE row \in rows : row.id = id IN
    IF raw.scope \notin policy.scopes THEN "denied"
    ELSE IF raw.fault = "sensitivity" THEN "failed"
    ELSE IF raw.sensitivity > policy.sensitivity THEN "denied"
    ELSE IF raw.fault # None THEN "failed"
    ELSE IF Carried(raw, sha) = {} THEN "denied"
    ELSE IF FirstRef(raw, sha).class > policy.retrieval THEN "denied"
    ELSE "granted"

(***************************************************************************)
(* The read                                                                *)
(***************************************************************************)
Supported(ref) == ref.local /\ ~ref.compressed /\ ref.media \in PlainText

(* The bytes behind a granted reference.                                   *)
ReadReferenced(vault, ref) ==
  IF ref.class = SecretRef THEN "content_not_authorized"
  ELSE IF ~Supported(ref) THEN "content_type_not_supported"
  ELSE IF ref.length > MaxTextBytes THEN "content_too_large"
  ELSE LET read == ReadVerifiedBytes(vault, ref.sha256) IN
    IF read = "too_large" THEN "content_too_large"
    ELSE IF read = "failed" \/ Length[vault[ref.sha256]] # ref.length THEN "content_unavailable"
    ELSE IF vault[ref.sha256] \in NotUtf8 THEN "content_unavailable"
    ELSE "text"

(* A digest outside Contents is one that is not written as a lowercase     *)
(* SHA-256.                                                                *)
ReadTextContent(rows, vault, policy, request) ==
  IF policy.mode = "invalid" THEN "read_configuration_invalid"
  ELSE IF policy.mode = "none" \/ ~request.token THEN "content_not_authorized"
  ELSE IF ~policy.text THEN "content_not_authorized"
  ELSE IF request.sha256 \notin Contents THEN "content_not_authorized"
  ELSE LET authorized == AuthorizeReference(rows, request.id, request.sha256, policy) IN
    CASE authorized = "failed" -> "content_unavailable"
      [] authorized = "denied" -> "content_not_authorized"
      [] authorized = "granted" ->
           ReadReferenced(vault,
             FirstRef(CHOOSE row \in rows : row.id = request.id, request.sha256))
=============================================================================
