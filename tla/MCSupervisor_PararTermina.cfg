CONSTANTS
  Trampa = {"http", "redis"}
  Disponibles <- MCDisponibles
  Direccion = {p80, p6379}
  Nada = nada
  Tarea = {t1, t2, t3}
  Configuraciones <- MCConfiguraciones
  Ajenas = {p80}
  MaxCambios = 1
  PausaLarga = TRUE
SPECIFICATION SpecViva
PROPERTIES
  PararTermina
CHECK_DEADLOCK FALSE
