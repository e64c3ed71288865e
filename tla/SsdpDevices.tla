----------------------------- MODULE SsdpDevices -----------------------------
(***************************************************************************)
(* What one SSDP datagram says of a printer: parse_ssdp_payload             *)
(* (src/discovery/parser.rs).  Firmware disagrees on the casing, on which   *)
(* headers it sends and on what it puts in them, every other device of the  *)
(* network sends SSDP too, and the serial and the model decided here are    *)
(* what the MQTT topics, the TLS identity and the safety limits go by.      *)
(*                                                                         *)
(* A header is Absent, NotUtf8 or a text.  A serial is its                 *)
(* three-character prefix and its casing; a USN the serial, whether uuid:   *)
(* stands before it and whether ::urn follows; a LOCATION its scheme, host  *)
(* and port; an NT or ST its vendor and the device it names.                *)
(***************************************************************************)
EXTENDS Quirks

Absent == [is |-> "absent", text |-> None]
NotUtf8 == [is |-> "garbled", text |-> None]
Text(value) == [is |-> "text", text |-> value]
IsText(h) == h.is = "text"

\* extract_headers: USN and LOCATION must be text; any other header that is not
\* is passed over.
Required(h) == IsText(h)
Optional(h) == h.text

\* The serial of a USN: uuid: is stripped, then everything from the first ::,
\* and what is left is in capitals.
\* (Mutant: what follows the serial stays on it.)
SerialOfMutant(usn) == [prefix |-> usn.prefix, lower |-> FALSE, tail |-> usn.urn]
SerialOf(usn) == [prefix |-> usn.prefix, lower |-> FALSE, tail |-> FALSE]

\* parse_location: an IP literal, with a port that is one; 80 without.  The
\* scheme is http or https in any casing, or absent.
ParseLocation(loc) ==
  IF loc.scheme \in {"none", "http", "HTTP", "https"} /\ loc.host = "ip" /\ loc.port # "garbage"
  THEN [ip |-> loc.host, port |-> IF loc.port = "none" THEN 80 ELSE 6000]
  ELSE None

\* extract_model_from_nt_st: the device a Bambu URN names, in any casing, unless
\* it is the generic one.
ModelFromTarget(t) ==
  IF t = None \/ t.vendor # "bambulab-com" \/ t.device = "3dprinter" THEN None ELSE t.device

\* DevModel, when it carries a value.
DevModelOf(d) == IF Optional(d) = "" THEN None ELSE Optional(d)

\* The model, and the header it was read from: the serial and DevModel first,
\* and the target's device when they resolve to nothing.
\* (Mutant: the target is asked only when DevModel is absent.)
RetriesMutant(model, devModel, named) == model = "Unknown" /\ devModel = None /\ named # None
Retries(model, devModel, named) == model = "Unknown" /\ named # None

ModelOf(serial, devModel, named) ==
  LET first == ResolveModel(serial.prefix, devModel)
      retried == ResolveModel(serial.prefix, named) IN
  IF Retries(first, devModel, named) /\ retried # "Unknown"
  THEN [model |-> retried, raw |-> named]
  ELSE [model |-> first, raw |-> Or(devModel, named)]

\* is_bambu_device
\* (Mutant: USN and LOCATION are enough.)
IsBambuDeviceMutant(model, target) == TRUE
IsBambuDevice(model, target) ==
  model # "Unknown" \/ (target # None /\ target.vendor = "bambulab-com")

\* parse_ssdp_payload: None, or the device (discovery_port is the engine's to
\* fill in).
ParseSsdpPayload(p) ==
  IF ~p.complete \/ ~Required(p.usn) \/ ~Required(p.location) THEN None
  ELSE LET serial == SerialOf(p.usn.text)
           location == ParseLocation(p.location.text)
           target == Optional(p.target)
           m == ModelOf(serial, DevModelOf(p.devModel), ModelFromTarget(target)) IN
       IF serial.prefix = "" \/ location = None \/ ~IsBambuDevice(m.model, target) THEN None
       ELSE [serial |-> serial, model |-> m.model, raw |-> m.raw, ip |-> location.ip,
             port |-> location.port]

\* into_identity: the model is kept, not resolved again.
IntoIdentity(d) == [ip |-> d.ip, serial |-> d.serial, model |-> d.model]

(***************************************************************************)
(* Inputs and properties.                                                   *)
(***************************************************************************)
Usns == [prefix : {"01P", "31B", "zzz", ""}, lower : BOOLEAN, uuid : BOOLEAN, urn : BOOLEAN]
Locations == [scheme : {"none", "HTTP", "ftp"}, host : {"ip", "name"},
              port : {"none", "number", "garbage"}]
SearchTargets == [vendor : {"bambulab-com", "schemas-upnp-org"},
                  device : {"3dprinter", "P1S", "H2C", "Toaster"}]

SsdpInputs ==
  [of : {"ssdp"}, complete : BOOLEAN, usn : {Absent, NotUtf8} \cup {Text(u) : u \in Usns},
   location : {Absent, NotUtf8} \cup {Text(l) : l \in Locations},
   devModel : {Absent, NotUtf8} \cup {Text(d) : d \in {"", "C12", "O1C", "N99"}},
   target : {Absent, NotUtf8} \cup {Text(t) : t \in SearchTargets}]

\* What the headers of the input name, in the order they are to be believed.
NamedModels ==
  LET names == <<FromSerial(IF IsText(input.usn) THEN input.usn.text.prefix ELSE ""),
                 ResolveModel("", Or(Optional(input.devModel), "")),
                 ResolveModel("", IF IsText(input.target) /\ input.target.text.vendor = "bambulab-com"
                                  THEN input.target.text.device ELSE "")>> IN
  SelectSeq(names, LAMBDA m : m \notin {None, "Unknown"})

\* Every datagram of one printer gives the serial on its label, whatever the
\* casing and the form of its USN: the serial is what a sweep tells printers
\* apart by, and what topics and certificates are named after.
SerialIsLabel ==
  Given("ssdp") => LET d == ParseSsdpPayload(input) IN
    d # None => d.serial = [prefix |-> input.usn.text.prefix, lower |-> FALSE, tail |-> FALSE]

\* A printer some header of the datagram names is never taken for an unknown
\* one because another header is missing, empty, garbled or new, and never for
\* a different one because a weaker header disagrees; the client built from the
\* record goes by the same model (discovery/parser.rs:283).
NamedModelKept ==
  Given("ssdp") => LET d == ParseSsdpPayload(input) IN
    d # None =>
      IntoIdentity(d).model = IF NamedModels = <<>> THEN "Unknown" ELSE Head(NamedModels)

\* A device is a printer exactly if something of it is Bambu's: other UPnP
\* devices are left out, and no printer with a readable serial and address is.
OnlyPrintersFound ==
  Given("ssdp") =>
    (ParseSsdpPayload(input) # None) =
      /\ input.complete
      /\ IsText(input.usn) /\ input.usn.text.prefix # ""
      /\ IsText(input.location) /\ ParseLocation(input.location.text) # None
      /\ \/ NamedModels # <<>>
         \/ IsText(input.target) /\ input.target.text.vendor = "bambulab-com"
=============================================================================
