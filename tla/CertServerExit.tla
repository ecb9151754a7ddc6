---------------------------- MODULE CertServerExit ----------------------------
(***************************************************************************)
(* CCertServerExit (CertServerExit.cpp) and the server side of             *)
(* ICertServerExit.  certsrv.exe gives every ICertExit::Notify a context   *)
(* number, valid until the call returns and free for another call after    *)
(* that.  An ICertServerExit object answers for the context last set on    *)
(* it; each notification has an object of its own.                         *)
(*                                                                         *)
(* The certificate announced by call c is called c here: a property read   *)
(* yields the certificate that it is a property of.                        *)
(***************************************************************************)
EXTENDS Calls

CONSTANTS
  Context,    \* the context numbers of certsrv.exe, none of them 0
  NoContext   \* context 0, or an object without an interface

ASSUME CertServerAssumption == NoContext \notin Context

VARIABLES
  server,     \* the call that each context number stands for
  m_ptrInner  \* the context set on the interface of each object

certServerVars == <<server, m_ptrInner>>

(* What NotifyCertIssued asks the object for.                               *)
Property == {"SubjectKeyIdentifier", "SerialNumber", "RawCertificate"}

CertServerTypeOK ==
  /\ server \in [Context -> Call \cup {NoCall}]
  /\ m_ptrInner \in [Call -> Context \cup {NoContext}]

CertServerStart ==
  /\ server = [x \in Context |-> NoCall]
  /\ m_ptrInner = [c \in Call |-> NoContext]

-----------------------------------------------------------------------------
(* certsrv.exe opens a context for call c, and closes it when c returns.    *)
OpenContext(c, x) ==
  /\ server[x] = NoCall
  /\ server' = [server EXCEPT ![x] = c]

CloseContext(c) ==
  server' = [x \in Context |-> IF server[x] = c THEN NoCall ELSE server[x]]

(* A mistake: one object for all notifications, as a member of the module.  *)
CertServerInitShared(c, x, ok) ==
  /\ m_ptrInner' = [d \in Call |-> IF ok THEN x ELSE NoContext]
  /\ UNCHANGED server

(* CCertServerExit::Init: whatever the object had is released first, and    *)
(* released again when the new interface or its context cannot be had.      *)
CertServerInit(c, x, ok) ==
  /\ m_ptrInner' = [m_ptrInner EXCEPT ![c] = IF ok THEN x ELSE NoContext]
  /\ UNCHANGED server

(* CCertServerExit::Clear, which the destructor comes down to.              *)
CertServerClear(c) == m_ptrInner' = [m_ptrInner EXCEPT ![c] = NoContext]

(* GetCertificateProperty and the two ways to copy its result: they fail    *)
(* without an interface and without an open context, and, like every call,  *)
(* for want of memory; what they copy belongs to the context's certificate. *)
CertificateProperty(c, v, ok) ==
  \/ /\ ok
     /\ m_ptrInner[c] \in Context
     /\ v = server[m_ptrInner[c]]
     /\ v # NoCall
  \/ ~ ok /\ v = NoCall
=============================================================================
