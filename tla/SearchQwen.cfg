SPECIFICATION Spec
CONSTANTS
  Backend = "qwen3_vl"
  Requests = {r1, r2}
  Probes = {p1}
  Generations = {g1, g2, other}
  Foreign = {other}
  None = None
INVARIANT EncoderIsThere
