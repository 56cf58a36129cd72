---------------------------------- MODULE Kms ----------------------------------
(***************************************************************************)
(* Envelope encryption as KmsService does it: a text is sealed under a     *)
(* data key of its own, and travels with that data key, which KMS has      *)
(* encrypted.  Only KMS turns an encrypted data key back into the key, so  *)
(* both are named by the key; the GCM tag of a payload opens under the key *)
(* it was sealed with and no other.                                        *)
(***************************************************************************)
CONSTANT Undefined       \* no text, an absent item

Seal(key, text) ==
  [encryptedPayload |-> [key |-> key, text |-> text], encryptedDataKey |-> key]

(***************************************************************************)
(* What decrypt makes of a payload and a data key: the text, or nothing    *)
(* where the tag does not match.  A payload made by Seal is never too      *)
(* short for iv, tag and text, because the text is not empty.              *)
(***************************************************************************)
Unsealed(payload, dataKey) ==
  IF payload.key = dataKey THEN payload.text ELSE Undefined
===============================================================================
