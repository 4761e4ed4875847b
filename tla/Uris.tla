-------------------------------- MODULE Uris --------------------------------
(***************************************************************************)
(* What a URI refers to and how that is verified: src/lib/uri.c, as        *)
(* uri_lua.c and uri_config of utils.lua use it.                           *)
(*                                                                         *)
(* A URI that is made with a parent is taken relative to it, if both have  *)
(* the same scheme, and inherits its settings: the parent of a script, and *)
(* of an index, is the script they are mentioned in.                       *)
(***************************************************************************)
EXTENDS Naturals, Sequences, SequencesExt, FiniteSets, TLC

CONSTANT Keys  \* [names of files -> keys], of the public keys that can be read

\* Fingerprints tell keys apart.
ASSUME KeysAssumption ==
  \A j, k \in DOMAIN Keys : Keys[j].fingerprint = Keys[k].fingerprint => j = k

Schemes == {"http", "https", "file", "data"}

\* A URI as it is written: without a scheme it is relative, from the root or not.
Ref(scheme, host, root, path) == [scheme |-> scheme, host |-> host, root |-> root, path |-> path]
NoRef == Ref("", "", FALSE, <<>>)

(* Values of options.                                                      *)
Nil == [type |-> "nil", tp |-> "", on |-> FALSE, text |-> "", ref |-> NoRef, items |-> <<>>]
Flag(on) == [Nil EXCEPT !.type = "boolean", !.on = on]
Str(text) == [Nil EXCEPT !.type = "string", !.text = text]
Link(ref) == [Nil EXCEPT !.type = "string", !.ref = ref]
Table(items) == [Nil EXCEPT !.type = "table", !.items = items]

-----------------------------------------------------------------------------
(* uriparser: a path without "." and "..", and a URI relative to a base.   *)
Tidy(path) ==
  LET Step(acc, s) == CASE s = "." -> acc
                        [] s = ".." -> IF acc = <<>> THEN acc ELSE Front(acc)
                        [] OTHER -> Append(acc, s)
  IN FoldLeft(Step, <<>>, path)
       \o (IF path # <<>> /\ path[Len(path)] \in {".", ".."} THEN <<"">> ELSE <<>>)

Joined(ref, base) ==
  CASE ref.scheme # "" -> [host |-> ref.host, path |-> Tidy(ref.path)]
    [] ref.scheme = "" /\ ref.root -> [host |-> base.host, path |-> Tidy(ref.path)]
    [] OTHER -> [host |-> base.host,
                 path |-> Tidy((IF base.path = <<>> THEN <<>> ELSE Front(base.path)) \o ref.path)]

\* default_file_parent: the working directory.
Directory == [host |-> "", path |-> <<"cwd", "">>]

NoUri == [at |-> [scheme |-> "", host |-> "", path |-> <<>>, sig |-> FALSE]]

Scheme(ref, parent) == IF ref.scheme # "" THEN ref.scheme
                       ELSE IF parent = NoUri THEN "file" ELSE parent.at.scheme

canonize_uri(ref, parent) ==
  LET scheme == Scheme(ref, parent)
      where == Joined(ref, IF scheme = parent.at.scheme THEN parent.at ELSE Directory)
  IN [scheme |-> scheme, host |-> where.host, path |-> where.path, sig |-> FALSE]

-----------------------------------------------------------------------------
\* The signature is not inherited.
Settings(parent) ==
  IF parent = NoUri
  THEN [ssl_verify |-> TRUE, ocsp |-> TRUE, ca_pin |-> FALSE, pem |-> <<>>, pubkey |-> <<>>, sig |-> NoUri]
  ELSE [ssl_verify |-> parent.ssl_verify, ocsp |-> parent.ocsp, ca_pin |-> parent.ca_pin,
        pem |-> parent.pem, pubkey |-> parent.pubkey, sig |-> NoUri]

uri(ref, parent) == [at |-> canonize_uri(ref, parent)] @@ Settings(parent)
Unknown(ref, parent) == Scheme(ref, parent) \notin Schemes

\* uri_is_local
Local == {"file", "data"}

(* Certificates and keys: URIs without a parent, in front of the list.  CA *)
(* certificates and revocation lists share one, and only for certificates  *)
(* are those of the system left aside.                                     *)
uri_add_pem(u, ref) == [u EXCEPT !.pem = <<canonize_uri(ref, NoUri)>> \o @]
add_ca(u, ref) == [uri_add_pem(u, ref) EXCEPT !.ca_pin = TRUE]
add_pubkey(u, ref) == [u EXCEPT !.pubkey = <<canonize_uri(ref, NoUri)>> \o @]

uri_set_sig(u, ref) == [u EXCEPT !.sig = [uri(ref, u) EXCEPT !.pubkey = <<>>]]

\* Where pubkeys are and no signature was set, it is at the URI with ".sig" added.
ensure_default_signature(u) ==
  IF u.pubkey = <<>> \/ u.sig # NoUri THEN u
  ELSE [u EXCEPT !.sig = [u EXCEPT !.at.sig = TRUE, !.pubkey = <<>>]]

-----------------------------------------------------------------------------
(* utils.uri_config                                                        *)
wrap(val) == CASE val.type = "table" -> val.items
               [] val.type = "boolean" -> <<>>
               [] OTHER -> <<val>>

Added(Add(_, _), u, val) == FoldLeft(LAMBDA acc, item : Add(acc, item.ref), u, wrap(val))

WithCa(u, config) ==
  IF "ca" \notin DOMAIN config THEN u
  ELSE Added(add_ca, [u EXCEPT !.ssl_verify = config["ca"] # Flag(FALSE), !.pem = <<>>, !.ca_pin = FALSE],
             config["ca"])
WithCrl(u, config) ==
  IF "crl" \notin DOMAIN config THEN u ELSE Added(uri_add_pem, [u EXCEPT !.pem = <<>>], config["crl"])
WithOcsp(u, config) ==
  IF "ocsp" \notin DOMAIN config THEN u ELSE [u EXCEPT !.ocsp = config["ocsp"].on]
\* Fault: keys are added to those that are inherited.
PubkeyAdded(u, config) ==
  IF "pubkey" \notin DOMAIN config THEN u ELSE Added(add_pubkey, u, config["pubkey"])
WithPubkey(u, config) ==
  IF "pubkey" \notin DOMAIN config THEN u
  ELSE Added(add_pubkey, [u EXCEPT !.pubkey = <<>>], config["pubkey"])
WithSig(u, config) ==
  IF "sig" \notin DOMAIN config THEN u ELSE uri_set_sig(u, config["sig"].ref)

uri_config(u, config) ==
  WithSig(WithPubkey(WithOcsp(WithCrl(WithCa(u, config), config), config), config), config)

\* Errors: what the options name must be local; the signature need not be.
Unfit(item) == item.type # "string" \/ Scheme(item.ref, NoUri) \notin Local
Misconfigured(u, config) ==
  \/ \E f \in {"ca", "crl", "pubkey"} \cap DOMAIN config :
       \E i \in DOMAIN wrap(config[f]) : Unfit(wrap(config[f])[i])
  \/ "sig" \in DOMAIN config /\ Unknown(config["sig"].ref, u)

Unusable(ref, parent, config) ==
  Unknown(ref, parent) \/ Misconfigured([at |-> canonize_uri(ref, parent)], config)

(* uri_downloader_register and uri_finish: what is asked for and what it   *)
(* is verified with.                                                       *)
Requested(u) ==
  LET s == ensure_default_signature(u)
  IN [at |-> u.at, ssl_verify |-> u.ssl_verify, ocsp |-> u.ocsp, system |-> ~u.ca_pin,
      pem |-> u.pem, pubkey |-> u.pubkey,
      sig |-> IF u.pubkey = <<>> THEN NoUri.at ELSE s.sig.at]

-----------------------------------------------------------------------------
(* Signatures: what is known of the one that is found, and of the key that *)
(* made it for this very content, if one did.                              *)
Signature(pkalg, fingerprint, by) == [pkalg |-> pkalg, fingerprint |-> fingerprint, by |-> by]

\* The file has the format, and the algorithm of keys and signatures is this one.
key_load_generic(file) == file.pkalg = "Ed"

\* Keys that cannot be read or loaded are left out.
list_pubkey_collect(list) ==
  SelectSeq([i \in DOMAIN list |-> Last(list[i].path)],
            LAMBDA k : k \in DOMAIN Keys /\ key_load_generic(Keys[k]))

\* Fault: only the first key is tried.
VerifyFirst(signature, pubkeys) ==
  key_load_generic(signature) /\ pubkeys # <<>> /\ pubkeys[1] = signature.by

\* The key is the first one with the fingerprint of the signature.
sign_verify(signature, pubkeys) ==
  LET same == SelectSeq(pubkeys, LAMBDA k : Keys[k].fingerprint = signature.fingerprint)
  IN key_load_generic(signature) /\ same # <<>> /\ same[1] = signature.by

\* Without keys nothing is verified; with keys of which none can be loaded nothing is accepted.
verify_signature(u, signature) ==
  u.pubkey = <<>> \/ sign_verify(signature, list_pubkey_collect(u.pubkey))
=============================================================================
