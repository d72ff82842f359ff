--------------------------- MODULE ValidateInputs ----------------------------
(* validate_inputs: the conditions on an argon2_context that argon2_ctx,      *)
(* encode_string and decode_string check.                                     *)
(*                                                                            *)
(* A pointer of a context is NULL, or stands for what it points to: SET where *)
(* that does not matter.                                                      *)
EXTENDS Integers, Sequences

CONSTANTS
    Word,           \* 2^32, the modulus of uint32_t
    MinOutlen,      \* ARGON2_MIN_OUTLEN
    MinSaltLength,  \* ARGON2_MIN_SALT_LENGTH
    MaxMemory,      \* ARGON2_MAX_MEMORY
    MaxLanes        \* ARGON2_MAX_LANES and ARGON2_MAX_THREADS

SYNC_POINTS == 4
MinMemory == 2 * SYNC_POINTS

ASSUME LimitsAssumption ==
    /\ Word \in Nat
    /\ MinOutlen \in Nat /\ MinSaltLength \in Nat
    /\ MaxMemory \in Nat /\ MaxMemory < Word
    /\ MaxLanes \in Nat /\ 8 * MaxLanes < Word

NULL == "null"
SET == "set"

uint32(x) == x % Word

-----------------------------------------------------------------------------
(* validate_inputs, as the sequence of its checks: the first that fails is    *)
(* reported.  The comparisons of a uint32_t with a maximum of 2^32 - 1, or a  *)
(* minimum of 0, cannot fail and are left out.                                *)
Check(fails, code) == [fails |-> fails, code |-> code]

LengthChecks(c) ==
    << Check(c.out = NULL, "ARGON2_OUTPUT_PTR_NULL"),
       Check(MinOutlen > c.outlen, "ARGON2_OUTPUT_TOO_SHORT"),
       Check(c.pwd = NULL /\ c.pwdlen # 0, "ARGON2_PWD_PTR_MISMATCH"),
       Check(c.salt = NULL /\ c.saltlen # 0, "ARGON2_SALT_PTR_MISMATCH"),
       Check(MinSaltLength > c.saltlen, "ARGON2_SALT_TOO_SHORT"),
       Check(c.secret = NULL /\ c.secretlen # 0, "ARGON2_SECRET_PTR_MISMATCH"),
       Check(c.ad = NULL /\ c.adlen # 0, "ARGON2_AD_PTR_MISMATCH") >>

CostChecks(c) ==
    << Check(MinMemory > c.m_cost, "ARGON2_MEMORY_TOO_LITTLE"),
       Check(MaxMemory < c.m_cost, "ARGON2_MEMORY_TOO_MUCH"),
       Check(c.m_cost < uint32(8 * c.lanes), "ARGON2_MEMORY_TOO_LITTLE"),
       Check(1 > c.t_cost, "ARGON2_TIME_TOO_SMALL"),
       Check(1 > c.lanes, "ARGON2_LANES_TOO_FEW"),
       Check(MaxLanes < c.lanes, "ARGON2_LANES_TOO_MANY"),
       Check(1 > c.threads, "ARGON2_THREADS_TOO_FEW"),
       Check(MaxLanes < c.threads, "ARGON2_THREADS_TOO_MANY"),
       Check(c.allocate_cbk # NULL /\ c.free_cbk = NULL,
             "ARGON2_FREE_MEMORY_CBK_NULL"),
       Check(c.allocate_cbk = NULL /\ c.free_cbk # NULL,
             "ARGON2_ALLOCATE_MEMORY_CBK_NULL") >>

Checks(c) == LengthChecks(c) \o CostChecks(c)

valid_but_lanes(c) ==
    /\ \A n \in DOMAIN LengthChecks(c) : ~LengthChecks(c)[n].fails
    /\ \A n \in DOMAIN CostChecks(c) :
          CostChecks(c)[n].fails => CostChecks(c)[n].code = "ARGON2_LANES_TOO_MANY"
valid(c) ==
    /\ \A n \in DOMAIN LengthChecks(c) : ~LengthChecks(c)[n].fails
    /\ \A n \in DOMAIN CostChecks(c) : ~CostChecks(c)[n].fails

FirstFailure(checks, n) ==
    checks[n].fails /\ \A k \in 1 .. n - 1 : ~checks[k].fails

(* The result of validate_inputs. *)
validate_inputs(c) ==
    IF valid(c) THEN "ARGON2_OK"
    ELSE Checks(c)[CHOOSE n \in DOMAIN Checks(c) : FirstFailure(Checks(c), n)].code
=============================================================================
