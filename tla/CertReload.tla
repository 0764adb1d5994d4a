----------------------------- MODULE CertReload -----------------------------
(***************************************************************************)
(* The certificate of a TLS listener (tls.rs): the acceptor asks a         *)
(* resolver for it at every handshake, and reload_tls_config gives a       *)
(* resolver a new one.  A resolver owns its lock: a clone has a lock of    *)
(* its own.                                                                *)
(***************************************************************************)
EXTENDS Naturals

CONSTANT Certs      \* certificates with their keys; the first is configured

VARIABLES
    acceptor,   \* certificate in the resolver of the acceptor, or NoCert
    kept,       \* certificate in the resolver of cert_resolver, or NoCert
    reloaded,   \* certificate of the last reload that succeeded, or NoCert
    presented   \* certificate of the last handshake, or NoCert

certVars == <<acceptor, kept, reloaded, presented>>

NoCert == 0
Configured == CHOOSE c \in Certs : \A d \in Certs : c <= d

CertTypeOK ==
    /\ {acceptor, kept, reloaded, presented} \subseteq Certs \cup {NoCert}

CertInit ==
    acceptor = NoCert /\ kept = NoCert /\ reloaded = NoCert /\ presented = NoCert

(* create_certified_key: a certificate, a key of either form, and a key    *)
(* that fits; anything else is an error and changes nothing.               *)
Parsed(c) == c \in Certs

(* create_acceptor: the acceptor gets a clone of the resolver that         *)
(* serve_listener keeps, with the certificate of now.                      *)
ServeListener ==
    /\ acceptor = NoCert
    /\ Parsed(Configured)
    /\ kept' = Configured
    /\ acceptor' = kept'
    /\ UNCHANGED <<reloaded, presented>>

Reload(c) ==
    /\ kept # NoCert
    /\ Parsed(c)
    /\ kept' = c
    /\ reloaded' = c
    /\ UNCHANGED <<acceptor, presented>>

Resolve ==
    /\ acceptor # NoCert
    /\ presented' = acceptor
    /\ UNCHANGED <<acceptor, kept, reloaded>>

CertNext == ServeListener \/ (\E c \in Certs : Reload(c)) \/ Resolve

CertSpec == CertInit /\ [][CertNext]_certVars

(***************************************************************************)
(* A handshake after a reload presents the certificate of the reload       *)
(* (tls.rs, reload: "TLS certificate reloaded successfully").              *)
(***************************************************************************)
ReloadedIsPresented ==
    [][Resolve /\ reloaded # NoCert => presented' = reloaded]_certVars
=============================================================================
