------------------------------ MODULE Evidence ------------------------------
(***************************************************************************)
(* What the revocation check of rust/sd_trust_kit/src/revocation.rs can    *)
(* tell about certificates, OCSP responses and revocation lists (CRLs).    *)
(* Times are 1..LastTime; 0 stands for a time that is not there.           *)
(***************************************************************************)
EXTENDS Naturals, Sequences

CONSTANTS
  LastTime,
  Name,      \* distinguished names
  Key,       \* public keys
  Url,       \* addresses without their scheme
  CeiUrl,    \* the list that is tried for certificates of one authority
  Worlds     \* the certificates and the evidence to check with

ASSUME LastTimeAssumption == LastTime \in Nat \ {0}
ASSUME UrlAssumption == CeiUrl \in Url

Time == 1..LastTime
OptionalTime == 0..LastTime

Certificate ==
  [subject : Name, issuer : Name,
   key : Key,                    \* its public key
   signer : Key,                 \* the public key that verifies its signature
   from : Time, until : Time,
   ocspSigning : BOOLEAN,        \* extended key usage OCSPSigning
   digitalSignature : BOOLEAN]   \* no key usage forbids digital signatures

\* What a response says about one certificate, named by issuer and serial.
SingleResponse ==
  [issuerName : Name, issuerKey : Key,   \* by the hashes in its CertID
   own : BOOLEAN,                        \* the serial of the checked certificate
   status : {"good", "revoked", "unknown"}, revokedAt : OptionalTime,
   thisUpdate : OptionalTime, nextUpdate : OptionalTime,
   archiveCutoff : OptionalTime,
   certHash : {"absent", "matches", "differs"}]

Response ==
  [readable : BOOLEAN,
   sha2 : BOOLEAN,                \* signed with SHA-256, -384 or -512
   responder : Name \cup Key,     \* ResponderID, by name or by key
   producedAt : Time,
   key : Key,                     \* the public key that verifies its signature
   singles : Seq(SingleResponse), certs : Seq(Certificate)]

Crl ==
  [readable : BOOLEAN, issuer : Name,
   key : Key,                     \* the public key that verifies its signature
   nextUpdate : OptionalTime,
   \* the first entry with the serial of the checked certificate
   listed : BOOLEAN, revokedAt : OptionalTime]

\* A certificate that cannot be parsed bears a name that no other one names.
World ==
  [cert : Certificate,            \* the certificate to check
   serialReadable : BOOLEAN,
   points : Seq([scheme : {"http", "https", "ldap"}, url : Url]),
   cei : BOOLEAN,                 \* issued by the authority of CeiUrl
   issuers : Seq(Certificate),    \* the other certificates of the signature
   control : OptionalTime,        \* the time of a trusted signature timestamp
   clock : BOOLEAN,               \* the caller says what time it is
   cache : Seq([response : Response, validUntil : Time]),
   embedded : Seq(Response),      \* in the signature or the file
   crls : Seq([url : Url, crl : Crl, validUntil : Time])]

\* Options with cached evidence have to say what time it is.
HasClock(w) == w.clock \/ (w.cache = <<>> /\ w.crls = <<>>)

ASSUME WorldsAssumption == \A w \in Worlds : w \in World /\ HasClock(w)

\* Without a clock it is 1970.
Clock(w, t) == IF w.clock THEN t ELSE 0

Answer == [status : {"none", "good", "revoked", "unavailable"}, revokedAt : OptionalTime]

Unavailable == [status |-> "unavailable", revokedAt |-> 0]
NoAnswer == [status |-> "none", revokedAt |-> 0]
Good == [status |-> "good", revokedAt |-> 0]
Revoked(time) == [status |-> "revoked", revokedAt |-> time]
=============================================================================
