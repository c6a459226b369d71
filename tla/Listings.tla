------------------------------ MODULE Listings ------------------------------
(***************************************************************************)
(* Records on a connection: Wire carries the requests and the listings     *)
(* that Records serialises.                                                *)
(***************************************************************************)
EXTENDS Wire, Records
LOCAL INSTANCE SequencesExt

CONSTANTS
  Stores,    \* instances that a controller may hold: sequences of records
  Clouds,    \* what a manager's controllers may hold
  Templates, \* the templates of a controller
  Orders     \* arguments of instantiate: [templ, memory, cpus]

\* A map read by the proxy holds these records and no other, each under its key.
Holds(map, records, Key(_)) ==
  /\ DOMAIN map = {Key(r) : r \in records}
  /\ \A r \in records : map[Key(r)] = r

\* Nothing in a message says where a record ends, how many there are or what a
\* line stands for.  Still a client reads from a listing of a controller, or of
\* the manager over controllers that use the same numeric ids, each instance
\* (each template) once and as it is, and a controller creates what the client
\* ordered.
RecordsArrive ==
  /\ heard["proxy"] # None =>
       /\ \A s \in Stores : said["handler"] = ControllerListing(s) =>
            Holds(ReadInstances(heard["proxy"]), ToSet(s), LAMBDA i : i.id)
       /\ \A c \in Clouds : said["handler"] = CloudListing(c) =>
            Holds(ReadInstances(heard["proxy"]),
                  UNION {{[i EXCEPT !.id = c[k].name \o "/" \o @] : i \in ToSet(c[k].instances)}
                           : k \in DOMAIN c},
                  LAMBDA i : i.id)
       /\ said["handler"] = TemplateListing(Templates) =>
            Holds(ReadTemplates(heard["proxy"]), ToSet(Templates), LAMBDA t : t.name)
  /\ heard["handler"] # None =>
       \A o \in Orders : said["proxy"] = InstantiateRequest(o.templ, o.memory, o.cpus) =>
         LET i == DeserializeInstance(Tail(heard["handler"])) IN
         [templ |-> i.templ, memory |-> i.memory, cpus |-> i.cpus] = o
=============================================================================
