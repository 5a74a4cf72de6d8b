------------------------------ MODULE MicsWire ------------------------------
(***************************************************************************)
(* The vocabulary of a Mini-ICS v2 connection: message types and the       *)
(* fields of a message that some handler of the repository looks at.       *)
(*                                                                         *)
(* A message is a decoded header with its payload: "arg" is the address    *)
(* field (a BAR0 register, a host address or an MSI-X vector), "data" the  *)
(* payload, "len" is transfer_len and "plen" is payload_len.               *)
(***************************************************************************)
EXTENDS Integers, Sequences

CONSTANTS
  Args,    \* values of the address field
  Values   \* payload values

(***************************************************************************)
(* Message types sent with kFlagIsResponse / MICS_FLAG_RESPONSE: every     *)
(* builder of one of these sets the flag and no other builder does, so the *)
(* flag is a function of the type.                                         *)
(***************************************************************************)
ResponseTypes == {"HELLO_ACK", "MMIO_READ_RSP", "MMIO_WRITE_RSP",
                  "DMA_READ_RSP", "DMA_WRITE_RSP", "RESET_RSP"}

RequestTypes == {"HELLO", "MMIO_READ_REQ", "MMIO_WRITE_REQ", "DMA_READ_REQ",
                 "DMA_WRITE_REQ", "MSIX", "RESET_REQ", "SHUTDOWN"}

\* A header that mics_decode_header / DeserializeHeader refuses.
BadHeader == "BAD_HEADER"

Statuses == {"SUCCESS", "GENERIC", "OUT_OF_BOUNDS", "INVALID_ADDRESS", "BAD_LENGTH"}

Message == [type : ResponseTypes \cup RequestTypes \cup {BadHeader}, txn : Nat,
            arg : Args, data : Values, len : Nat, plen : Nat, status : Statuses]

IsResponse(m) == m.type \in ResponseTypes

\* The response type that the caller of a host-initiated request waits for.
Expected(type) ==
  CASE type = "MMIO_READ_REQ"  -> "MMIO_READ_RSP"
    [] type = "MMIO_WRITE_REQ" -> "MMIO_WRITE_RSP"
    [] type = "RESET_REQ"      -> "RESET_RSP"
    [] type = "DMA_READ_REQ"   -> "DMA_READ_RSP"
    [] type = "DMA_WRITE_REQ"  -> "DMA_WRITE_RSP"
    [] OTHER                   -> "HELLO_ACK"
=============================================================================
