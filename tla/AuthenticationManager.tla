-------------------------- MODULE AuthenticationManager --------------------------
(*********************************************************************************)
(* AuthenticationManager: salted password hashes.                                *)
(*                                                                               *)
(* The digest is symbolic.  HashPasswordWithSalt feeds SHA-256 the salt and then *)
(* the password; a salt always has 32 hex digits, so the concatenation           *)
(* determines both parts, and a digest free of collisions is a pair.             *)
(*                                                                               *)
(* GenerateSalt draws 16 bytes and ignores the result of RAND_bytes, so a        *)
(* generated salt is ANY member of Salts, one already in use included: no        *)
(* property may rest on a salt being fresh.                                      *)
(*********************************************************************************)
CONSTANTS Passwords,   \* the passwords clients type
          Salts        \* the salts GenerateSalt can return

Hashes == [salt : Salts, password : Passwords]

\* Mutant: the second EVP_DigestUpdate is missing, so the digest is the salt's alone.
DigestOfSaltOnly(password, salt) ==
  [salt |-> salt, password |-> CHOOSE p \in Passwords : TRUE]

HashPasswordWithSalt(password, salt) == [salt |-> salt, password |-> password]

\* salt is what GenerateSalt returned to HashPassword.
HashPassword(password, salt) ==
  [hash |-> HashPasswordWithSalt(password, salt), salt |-> salt]

VerifyPassword(password, storedPassword, salt) ==
  HashPasswordWithSalt(password, salt) = storedPassword
==================================================================================
