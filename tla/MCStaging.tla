----------------------------- MODULE MCStaging ------------------------------
EXTENDS Staging, TLC

(* Offers of a text, a file, an image and an archive, declared or not.     *)
CONSTANTS zip1, zip2, huge, png

MCEntries == [bytes \in Bytes |-> IF bytes = huge THEN None ELSE "same"]

Declared(type, real, bytes) ==
  [type |-> type, name |-> png, named |-> TRUE, bytes |-> bytes, data |-> TRUE,
   hash |-> ProfileHash(real, png, bytes), digest |-> bytes]
Inline(type, bytes, hash) ==
  [type |-> type, name |-> png, named |-> TRUE, bytes |-> bytes, data |-> FALSE, hash |-> hash,
   digest |-> None]

(* An image without a digest, another one called a file, an archive, one   *)
(* without its name, and a text of undeclared hash.                        *)
MCOffers ==
  {[Declared("Image", "Image", zip1) EXCEPT !.digest = None],
   Declared("File", "Image", zip2),
   Declared("Group", "Group", zip1), [Declared("Group", "Group", zip1) EXCEPT !.named = FALSE],
   Inline("Text", zip1, None)}

(* Another image posted under that name, and the text.                     *)
MCUploads ==
  {[type |-> "Image", name |-> png, bytes |-> zip2, data |-> TRUE],
   [type |-> "Text", name |-> png, bytes |-> zip1, data |-> FALSE]}

Symmetry == Permutations(Puts)
============================================================================
