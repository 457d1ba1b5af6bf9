\* Two touts and one ticket.
CONSTANTS
  Touts = {t1, t2}
  Total = 1
  Nobody = Nobody
SPECIFICATION Spec
INVARIANT SoldTicketExists
