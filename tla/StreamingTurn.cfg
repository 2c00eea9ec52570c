CONSTANTS
  Texts <- TextsShort
  Noise = {2}
  Prompts = {0, 2}
  Capacity = 2
SPECIFICATION Spec
INVARIANTS TypeOK ResultIsWhole ChildIsReaped
PROPERTIES DeadlineEnforced WillingChildIsServed
