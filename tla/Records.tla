------------------------------ MODULE Records -------------------------------
(***************************************************************************)
(* What the lines of a message mean: templates and instances as records of *)
(* a fixed number of lines (src/src/Vm/Template.hpp, InstanceInfo.hpp),    *)
(* listings as records one after the other with neither a count nor a mark *)
(* between them, and the loops of src/src/Vm/ControllerProxy.hpp that cut  *)
(* them up again.                                                          *)
(***************************************************************************)
EXTENDS Integers, Sequences
LOCAL INSTANCE SequencesExt
LOCAL INSTANCE TLC

CONSTANT Numbers   \* values of the int fields

\* stoi, for a line that to_string made.
Stoi(text) == CHOOSE n \in Numbers : ToString(n) = text

ASSUME RecordsAssumption == 0 \in Numbers /\ \A n \in Numbers : Stoi(ToString(n)) = n

\* SERIAL_SIZE
TemplateSize == 4
InstanceSize == 6

SerializeTemplate(t) == <<t.name, t.description, t.kernelPath, t.rootfsPath>>
DeserializeTemplate(d) ==
  [name |-> d[1], description |-> d[2], kernelPath |-> d[3], rootfsPath |-> d[4]]

SerializeInstance(i) ==
  <<i.id, i.templ, ToString(i.memory), ToString(i.cpus), ToString(i.sshPort),
    IF i.running THEN "1" ELSE "0">>
DeserializeInstance(d) ==
  [id |-> d[1], templ |-> d[2], memory |-> Stoi(d[3]), cpus |-> Stoi(d[4]),
   sshPort |-> Stoi(d[5]), running |-> d[6] # "0"]

-----------------------------------------------------------------------------
(* Requests with arguments, as the methods of ControllerProxy write them *)

InstantiateRequest(templ, memory, cpus) ==
  <<"instantiate">> \o
  SerializeInstance([id |-> "0", templ |-> templ, memory |-> memory, cpus |-> cpus,
                     sshPort |-> 0, running |-> FALSE])
RunRequest(id)  == <<"run", id>>

-----------------------------------------------------------------------------
(* Listings.  A std::map is the sequence of its values in the order of keys. *)

TemplateListing(templates) ==
  FlattenSeq([k \in DOMAIN templates |-> SerializeTemplate(templates[k])])

\* The records of instances, and of a controller's listing without any one
\* empty line.
InstanceLines(instances) ==
  FlattenSeq([k \in DOMAIN instances |-> SerializeInstance(instances[k])])
ControllerListing(instances) ==
  IF instances = <<>> THEN <<"">> ELSE InstanceLines(instances)

\* A slip: the manager passes the numeric ids on.
MakeNumericId(server, id) == id

MakeFullId(server, id) == server \o "/" \o id

\* The manager puts the controllers' listings one after the other.  A cloud is
\* the sequence of the controllers' [name, instances].
Renamed(c) == [k \in DOMAIN c.instances |->
                 [c.instances[k] EXCEPT !.id = MakeFullId(c.name, @)]]
CloudListing(cloud) == InstanceLines(FlattenSeq([k \in DOMAIN cloud |-> Renamed(cloud[k])]))

\* for (i = 0; i < data.size(); i += SERIAL_SIZE): the lines of one record each.
Cut(data, size) ==
  [k \in 1 .. (Len(data) + size - 1) \div size |->
     SubSeq(data, size * (k - 1) + 1, size * k)]

\* result[key] = record: of two records with one key the last stays.
ReadTemplates(data) ==
  LET cut == Cut(data, TemplateSize)
      ts  == [k \in DOMAIN cut |-> DeserializeTemplate(cut[k])]
  IN [name \in {ts[k].name : k \in DOMAIN ts} |->
        ts[SelectLastInSeq(ts, LAMBDA t : t.name = name)]]
ReadInstances(data) ==
  LET cut == Cut(data, InstanceSize)
      is  == [k \in DOMAIN cut |-> DeserializeInstance(cut[k])]
  IN [id \in {is[k].id : k \in DOMAIN is} |->
        is[SelectLastInSeq(is, LAMBDA i : i.id = id)]]
=============================================================================
