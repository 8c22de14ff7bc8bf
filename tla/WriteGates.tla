------------------------------ MODULE WriteGates ------------------------------
(***************************************************************************)
(* The decisions of write_config.py, write_customer_guard.py and           *)
(* write_authz.py: who may be written to, and by whom.                     *)
(***************************************************************************)
CONSTANTS
  Sandbox,     \* SANDBOX_CUSTOMER_ID
  Live,        \* LIVE_FORAGE_CUSTOMER_ID
  Customers,   \* every customer id, Sandbox and Live among them
  NoCustomer   \* a product whose customer id is missing or blank

ASSUME GatesAssumption ==
  /\ {Sandbox, Live} \subseteq Customers /\ Sandbox # Live
  /\ NoCustomer \notin Customers

(* WriteConfig, with the flag the client was built with beside it. *)
Configs ==
  [write_enabled : BOOLEAN, secret_set : BOOLEAN, allowlist : SUBSET Customers,
   live_promotion : BOOLEAN, client_enabled : BOOLEAN]

\* Mutant: the live customer is admitted by the allow-list.
IsCustomerAllowedByList(config, customer) == customer \in config.allowlist

(* The live customer is gated by live_promotion alone. *)
IsCustomerAllowed(config, customer) ==
  IF customer = Live THEN config.live_promotion ELSE customer \in config.allowlist

CustomerCleared(config, customer) ==
  customer # NoCustomer /\ IsCustomerAllowed(config, customer)

Tokens == {"matching", "other", "missing"}

\* Mutant: a token is compared only when one was presented.
AuthorisedIfPresented(config, token) == config.secret_set /\ token # "other"

Authorised(config, token) == config.secret_set /\ token = "matching"

(* assert_write_target_allowed: may a write run start at all? *)
WriteTargetAllowed(config) ==
  config.write_enabled /\ config.secret_set /\ config.allowlist = {Sandbox}
=============================================================================
