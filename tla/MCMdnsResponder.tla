---------------------------- MODULE MCMdnsResponder ----------------------------
(* Instances of MdnsResponder for TLC.                                      *)
EXTENDS MdnsResponder, TLC
CONSTANTS http, ipp

OnePcb == << <<"STA", "V4">> >>
ThreePcbs == << <<"STA", "V4">>, <<"STA", "V6">>, <<"ETH", "V4">> >>
ServiceSymmetry == Permutations(Services)

NameInputs == {"HOSTNAME_SET", "INSTANCE_SET", "SERVICE_ADD"} \cup ServiceActions
                  \cup {"SERVICES_CLEAR"}
RxInputs == {"question", "unique", "known", "srvConflict", "txtConflict", "addrConflict"}
EventInputs == {"CONNECTED", "DISCONNECTED", "GOT_IP", "GOT_IP6"}

ConflictInputs == NameInputs \cup RxInputs
InterfaceInputs == EventInputs \cup {"HOSTNAME_SET", "SERVICE_ADD", "SERVICE_DEL", "addrOther"}
PointerInputs == {"SERVICE_ADD", "SERVICE_DEL", "SERVICE_PORT_SET"}
WrapInputs == {"HOSTNAME_SET", "SERVICE_ADD", "question"}
================================================================================
