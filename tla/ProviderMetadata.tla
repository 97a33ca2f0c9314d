-------------------------- MODULE ProviderMetadata --------------------------
(***************************************************************************)
(* The metadata of a provider that is not configured statically: requests  *)
(* of all worker processes share two files in OIDCMetadataDir, the         *)
(* discovery document of the OP (.provider) and the client that was        *)
(* registered with it (.client).  oidc_metadata_get reads both, downloads  *)
(* the document again when it is older than the refresh interval, and      *)
(* registers a client when there is none whose secret is alive.  A file is *)
(* replaced by renaming a complete temporary file over it; nothing else    *)
(* keeps the requests apart.                                               *)
(*                                                                         *)
(* Documents and clients are numbered in the order in which the OP made    *)
(* them.                                                                   *)
(***************************************************************************)
EXTENDS FiniteSets, FiniteSetsExt, Integers

CONSTANTS MetaWorkers,      \* requests that need the metadata
          DocInterval,      \* OIDCProviderMetadataRefreshInterval, 0 for never
          SecretLife,       \* lifetime of a client secret
          CallBound,        \* how long a call to the OP can take
          MaxDoc, MaxClient,  \* bounds: documents the OP publishes, clients it registers
          MetaFaults        \* subset of {"op", "file"}

ASSUME MetaAssumption ==
    /\ IsFiniteSet(MetaWorkers)
    /\ DocInterval \in Nat /\ SecretLife \in Nat \ {0} /\ CallBound \in Nat
    /\ MaxDoc \in Nat \ {0} /\ MaxClient \in Nat \ {0}
    /\ MetaFaults \subseteq {"op", "file"}

VARIABLES opDoc,        \* the document that the OP serves
          outdated,     \* how long the earlier ones have been superseded
          pfile,        \* .provider: the document, 0 for none, and the age of the file
          cfile,        \* .client: the client, 0 for none, and how long its secret lives
          clients,      \* number of clients registered
          disturbed,    \* the faults that have happened
          crossed,      \* two registrations were under way together, or a secret expired
          mstate        \* the requests

metaVars == <<opDoc, outdated, pfile, cfile, clients, disturbed, crossed, mstate>>

Docs == 0 .. MaxDoc
MetaClients == 0 .. MaxClient
OutdatedCap == DocInterval + CallBound + 1
MetaSteps == {"idle", "stat", "read", "retrieve", "touch", "write", "client",
              "register", "save", "ready", "failed"}

MetaTypeOK ==
    /\ opDoc \in 1 .. MaxDoc
    /\ outdated \in [Docs -> 0 .. OutdatedCap]
    /\ pfile \in [doc : Docs, age : 0 .. DocInterval]
    /\ cfile \in [client : MetaClients, left : 0 .. SecretLife]
    /\ clients \in MetaClients
    /\ disturbed \subseteq MetaFaults
    /\ crossed \in BOOLEAN
    /\ mstate \in [MetaWorkers ->
            [pc : MetaSteps, discover : BOOLEAN, known : BOOLEAN, have : BOOLEAN,
             fresh : BOOLEAN, cache : Docs, doc : Docs, client : MetaClients,
             spent : 0 .. CallBound]]

NoMetadata == [pc |-> "idle", discover |-> FALSE, known |-> FALSE, have |-> FALSE,
               fresh |-> TRUE, cache |-> 0, doc |-> 0, client |-> 0, spent |-> 0]

MetaInit ==
    /\ opDoc = 1
    /\ outdated = [d \in Docs |-> 0]
    /\ pfile = [doc |-> 0, age |-> 0]
    /\ cfile = [client |-> 0, left |-> 0]
    /\ clients = 0
    /\ disturbed = {}
    /\ crossed = FALSE
    /\ mstate = [m \in MetaWorkers |-> NoMetadata]

Then(m, st) == mstate' = [mstate EXCEPT ![m] = st]
Got(doc) == [NoMetadata EXCEPT !.pc = "client", !.doc = doc]
Ready(client) == [NoMetadata EXCEPT !.pc = "ready", !.client = client]
Files == <<pfile, cfile>>
TheOp == <<opDoc, outdated, clients>>
MetaFault(f) == f \in MetaFaults /\ disturbed' = disturbed \cup {f}
Smoothly == UNCHANGED disturbed

(* oidc_util_file_read: the content, or nothing.                             *)
FileRead(got, content) == IF got # content THEN MetaFault("file") ELSE Smoothly

(* oidc_util_file_write: a temporary file that takes the place of the other  *)
(* when all of it is written.                                                *)
FileWritten(ok) == IF ok THEN Smoothly ELSE MetaFault("file")

-----------------------------------------------------------------------------
(* The discovery document: oidc_metadata_provider_get                        *)

(* A request for an issuer; discover is allow_discovery, which the list of   *)
(* providers on the discovery page does not have.                            *)
MetadataGet(m) ==
    /\ mstate[m].pc = "idle"
    /\ \E discover \in BOOLEAN :
         Then(m, [NoMetadata EXCEPT !.pc = "stat", !.discover = discover,
                                    !.known = pfile.doc # 0])
    /\ UNCHANGED <<TheOp, Files, disturbed, crossed>>

(* Only with a refresh interval is the age of the file looked at.            *)
StatProvider(m) ==
    LET have == DocInterval > 0 /\ pfile.doc # 0 IN
    /\ mstate[m].pc = "stat"
    /\ Then(m, [mstate[m] EXCEPT !.pc = "read", !.have = have,
                                 !.fresh = have => pfile.age < DocInterval])
    /\ UNCHANGED <<TheOp, Files, disturbed, crossed>>

(* A document that is fresh enough is used; without one, and with a file     *)
(* that was not there, discovery must be allowed.                            *)
ReadProvider(m) ==
    LET st == mstate[m] IN
    /\ st.pc = "read"
    /\ \E cache \in {0, pfile.doc} :
         /\ FileRead(cache, pfile.doc)
         /\ Then(m, IF cache # 0 /\ st.fresh
                      THEN Got(cache)
                    ELSE IF ~st.have /\ ~st.discover THEN [st EXCEPT !.pc = "failed"]
                    ELSE [st EXCEPT !.pc = "retrieve", !.discover = FALSE, !.cache = cache])
    /\ UNCHANGED <<TheOp, Files, crossed>>

(* The OP answers with the document of this moment, or with nothing valid.   *)
RetrieveNoFallback(m) ==
    LET st == mstate[m] IN
    /\ st.pc = "retrieve"
    /\ \/ /\ Smoothly
          /\ Then(m, [st EXCEPT !.pc = "write", !.doc = opDoc, !.cache = 0])
       \/ /\ MetaFault("op")
          /\ Then(m, [st EXCEPT !.pc = "failed"])
    /\ UNCHANGED <<TheOp, Files, crossed>>

RetrieveProvider(m) ==
    LET st == mstate[m] IN
    /\ st.pc = "retrieve"
    /\ \/ /\ Smoothly
          /\ Then(m, [st EXCEPT !.pc = "write", !.doc = opDoc, !.cache = 0])
       \/ /\ MetaFault("op")
          /\ Then(m, IF st.have /\ st.cache # 0 THEN [st EXCEPT !.pc = "touch"]
                                                ELSE [st EXCEPT !.pc = "failed"])
    /\ UNCHANGED <<TheOp, Files, crossed>>

(* The file counts as new, so that the OP is left alone for an interval, and *)
(* the document that was read from it is used.                               *)
TouchProvider(m) ==
    /\ mstate[m].pc = "touch"
    /\ pfile' = [pfile EXCEPT !.age = 0]
    /\ Then(m, Got(mstate[m].cache))
    /\ UNCHANGED <<TheOp, cfile, disturbed, crossed>>

(* That the file could not be written is only logged.                        *)
WriteProviderKept(m) ==
    /\ mstate[m].pc = "write"
    /\ pfile' = [doc |-> IF pfile.doc = 0 THEN mstate[m].doc ELSE pfile.doc, age |-> 0]
    /\ Smoothly
    /\ Then(m, Got(IF pfile.doc = 0 THEN mstate[m].doc ELSE pfile.doc))
    /\ UNCHANGED <<TheOp, cfile, crossed>>

WriteProvider(m) ==
    /\ mstate[m].pc = "write"
    /\ \E ok \in BOOLEAN :
         /\ FileWritten(ok)
         /\ pfile' = IF ok THEN [doc |-> mstate[m].doc, age |-> 0] ELSE pfile
    /\ Then(m, Got(mstate[m].doc))
    /\ UNCHANGED <<TheOp, cfile, crossed>>

-----------------------------------------------------------------------------
(* The client: oidc_metadata_client_get                                      *)

Registering == {m \in MetaWorkers : mstate[m].pc \in {"register", "save"}}

(* oidc_metadata_client_is_valid: the stored client is used while its secret *)
(* lives.                                                                    *)
ClientIsValid(client) == client # 0 /\ cfile.left > 0

ReadClient(m) ==
    LET st == mstate[m] IN
    /\ st.pc = "client"
    /\ \E client \in {0, cfile.client} :
         /\ FileRead(client, cfile.client)
         /\ IF ClientIsValid(client)
              THEN /\ Then(m, Ready(client))
                   /\ UNCHANGED crossed
              ELSE /\ Then(m, [st EXCEPT !.pc = "register"])
                   /\ crossed' = (crossed \/ client # 0 \/ Registering # {})
    /\ UNCHANGED <<TheOp, Files>>

(* oidc_metadata_client_register                                             *)
RegisterClient(m) ==
    LET st == mstate[m] IN
    /\ st.pc = "register"
    /\ \/ /\ Smoothly
          /\ clients < MaxClient
          /\ clients' = clients + 1
          /\ Then(m, [st EXCEPT !.pc = "save", !.client = clients + 1])
       \/ /\ MetaFault("op")
          /\ Then(m, [st EXCEPT !.pc = "failed"])
          /\ UNCHANGED clients
    /\ UNCHANGED <<opDoc, outdated, Files, crossed>>

(* A client that cannot be stored is not used.                               *)
SaveClientNot(m) ==
    /\ mstate[m].pc = "save"
    /\ Smoothly /\ UNCHANGED cfile
    /\ Then(m, Ready(mstate[m].client))
    /\ UNCHANGED <<TheOp, pfile, crossed>>

SaveClient(m) ==
    /\ mstate[m].pc = "save"
    /\ \E ok \in BOOLEAN :
         /\ FileWritten(ok)
         /\ cfile' = IF ok THEN [client |-> mstate[m].client, left |-> SecretLife] ELSE cfile
         /\ Then(m, IF ok THEN Ready(mstate[m].client) ELSE [mstate[m] EXCEPT !.pc = "failed"])
    /\ UNCHANGED <<TheOp, pfile, crossed>>

(* The request ends, or goes to the OP and comes back as another one.        *)
MetadataUsed(m) ==
    /\ mstate[m].pc \in {"ready", "failed"}
    /\ Then(m, NoMetadata)
    /\ UNCHANGED <<TheOp, Files, disturbed, crossed>>

-----------------------------------------------------------------------------
(* The OP and the clock                                                      *)

PublishDocument ==
    /\ opDoc < MaxDoc
    /\ opDoc' = opDoc + 1
    /\ UNCHANGED <<outdated, Files, clients, disturbed, crossed, mstate>>

MetaTick ==
    /\ \A m \in MetaWorkers : \/ mstate[m].pc \in {"idle", "ready"}
                              \/ mstate[m].pc \in {"retrieve", "write", "register"}
                                   /\ mstate[m].spent < CallBound
    /\ outdated' = [d \in Docs |-> IF d # 0 /\ d < opDoc THEN Min({outdated[d] + 1, OutdatedCap})
                                                         ELSE outdated[d]]
    /\ pfile' = [pfile EXCEPT !.age = IF pfile.doc = 0 THEN 0 ELSE Min({@ + 1, DocInterval})]
    /\ cfile' = [cfile EXCEPT !.left = IF @ > 0 THEN @ - 1 ELSE 0]
    /\ mstate' = [m \in MetaWorkers |->
                    IF mstate[m].pc \in {"idle", "ready"} THEN mstate[m]
                    ELSE [mstate[m] EXCEPT !.spent = @ + 1]]
    /\ UNCHANGED <<opDoc, clients, disturbed, crossed>>

MetaNext ==
    \/ PublishDocument
    \/ MetaTick
    \/ \E m \in MetaWorkers :
         \/ MetadataGet(m) \/ StatProvider(m) \/ ReadProvider(m) \/ RetrieveProvider(m)
         \/ TouchProvider(m) \/ WriteProvider(m) \/ ReadClient(m) \/ RegisterClient(m)
         \/ SaveClient(m) \/ MetadataUsed(m)

MetaSpec == MetaInit /\ [][MetaNext]_metaVars

-----------------------------------------------------------------------------
(* Properties                                                                *)

\* A document that the OP has replaced is not used for longer than the
\* refresh interval and the time that a download takes, although a slow
\* request may put an older document over a newer one: unless the OP failed
\* or the file could not be written.
DocumentFresh ==
    \A m \in MetaWorkers :
        (DocInterval > 0 /\ mstate[m].pc = "client" /\ disturbed = {})
            => outdated[mstate[m].doc] <= DocInterval + CallBound

\* An OP whose document is known stays usable while it cannot be reached: a
\* request that started with the file there gets a document, whatever other
\* requests do to the file meanwhile, and fails only for want of a client.
KnownProviderUsable ==
    \A m \in MetaWorkers :
        (mstate[m].pc = "failed" /\ mstate[m].known /\ "file" \notin disturbed)
            => mstate[m].doc # 0

\* Without registrations that overlap, without failures and while the secret
\* lives, all requests use the same client: the one that started a login is
\* the one that redeems its code.
OneClient ==
    (~crossed /\ disturbed = {}) =>
        \A m, n \in MetaWorkers :
            (mstate[m].pc = "ready" /\ mstate[n].pc = "ready")
                => mstate[m].client = mstate[n].client

\* The files give every request a fresh document, of a provider that was
\* known before, and one registration.
MetadataUsable == DocumentFresh /\ KnownProviderUsable /\ OneClient
=============================================================================
